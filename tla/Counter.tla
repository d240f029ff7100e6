-------------------------------- MODULE Counter --------------------------------
(***************************************************************************)
(* The counter of one till: the cart, the tray of parked carts, the tender *)
(* panels that make a sale of the cart, and the stock labels the sales     *)
(* take from, which the sync cycle replaces with the API's projection.     *)
(*                                                                         *)
(* Abstractions.  A ticket is one unit a customer asked for; a cart is the *)
(* set of its tickets, so that a line's quantity is how many of them name  *)
(* its item; prices, discounts and the tendered amount are left out, and   *)
(* whatever the amount has to be is entered right.  The device stays       *)
(* enrolled and its shift open.  A sheet over the cart opens with its      *)
(* confirmation.  Sales are pushed one by one and none is refused          *)
(* (PosOutbox has the outbox, SalesService what the API does with a sale,  *)
(* QrisTender what precedes a sale paid by dynamic QRIS).                  *)
(***************************************************************************)
EXTENDS Integers, Sequences, FiniteSets, FiniteSetsExt

CONSTANTS
    Tickets,
    ItemOf,      \* the item a ticket asks for
    Stocked,     \* items the API keeps the stock of
    Uses,        \* per item: the stock one unit of it takes, by its recipe
    OnHand,      \* stock to begin with
    Hows,        \* the tenders of the instance, of "cash", "static" and "qris"
    Tracked,     \* items whose own stock is tracked, as the catalog says
    MaxOpened,   \* bound on carts parked and tender panels opened, together
    MaxReturns,  \* bound on units given back through the API
    MaxDeaths    \* bound on deaths of the tab

Items == {ItemOf[t] : t \in Tickets}

ASSUME CounterAssumption ==
    /\ IsFiniteSet(Tickets)
    /\ Uses \in [Items -> [Stocked -> Nat]]
    /\ OnHand \in [Stocked -> Nat]
    /\ Tracked \subseteq Items /\ Hows \subseteq {"cash", "static", "qris"}
    /\ {MaxOpened, MaxReturns, MaxDeaths} \subseteq Nat

VARIABLES
    rung,      \* tickets rung up so far
    cart,
    panel,     \* the tender panel on the screen, and whether it is submitting
    seat,      \* how many panels were opened
    saving,    \* finalisations under way, each with the cart it was given
    sales,     \* pending_sales, in order, and whether the API has the sale
    tray,      \* parked carts
    parks,     \* how many carts were parked
    sheet,     \* "park" or "tray" while that sheet waits for the database
    moving,    \* the parkings and resumings under way: [was, becomes], carts
    dropped,   \* tickets taken off by the clerk, or lost with the tab
    left,      \* tickets of a finalisation whose panel was left before its end,
               \* of a parking or resuming whose sheet was, and those either
               \* swept out of the cart when it ended
    label,     \* the till's stock_snapshot
    onHand,    \* the API's projection of its ledger
    returned,  \* stock given back through the API so far
    snapshot,  \* a projection on its way to the till
    deaths

counter == <<rung, cart, panel, seat, saving, tray, parks, sheet, moving, dropped,
            left>>
stock == <<label, onHand, returned, snapshot>>
counterVars == <<counter, sales, stock, deaths>>

None == [none |-> TRUE]
NoPanel == [how |-> "none", submitting |-> FALSE]

CounterInit ==
    /\ rung = {} /\ cart = {} /\ panel = NoPanel /\ seat = 0 /\ saving = {}
    /\ sales = <<>> /\ tray = {} /\ parks = 0
    /\ sheet = "none" /\ moving = {} /\ dropped = {} /\ left = {}
    /\ label = OnHand /\ onHand = OnHand /\ returned = [k \in Stocked |-> 0]
    /\ snapshot = None /\ deaths = 0

(* The cart screen, with no sheet over it. *)
AtCart == panel = NoPanel /\ sheet = "none"

-----------------------------------------------------------------------------
(* The cart. *)

AddLine(t) ==
    /\ AtCart /\ t \notin rung
    /\ rung' = rung \union {t} /\ cart' = cart \union {t}
    /\ UNCHANGED <<panel, seat, saving, sales, tray, parks, sheet, moving, dropped, left,
                   stock, deaths>>

(* A line is removed with every unit of its item, or one unit is taken off.  *)
RemoveLine(gone) ==
    /\ AtCart /\ gone # {} /\ gone \subseteq cart
    /\ \E i \in Items : gone = {t \in cart : ItemOf[t] = i} \/ Cardinality(gone) = 1
    /\ cart' = cart \ gone /\ dropped' = dropped \union gone
    /\ UNCHANGED <<rung, panel, seat, saving, sales, tray, parks, sheet, moving, left,
                   stock, deaths>>

-----------------------------------------------------------------------------
(* Parking puts the row, then clears the cart; resuming deletes the row,     *)
(* then replaces the cart, whatever it holds: over a cart in use the clerk   *)
(* has confirmed it.  Escape closes the sheet while the database works, and  *)
(* what was begun ends all the same.                                         *)

(* The tickets of what is under way when a second thing begins. *)
Entangled ==
    IF moving = {} THEN {} ELSE cart \union UNION {m.was \union m.becomes : m \in moving}

(* The sheet opens over a cart that is not empty, and submits once. *)
ParkSheet == AtCart /\ cart # {}

ParkActiveCart ==
    /\ ParkSheet /\ parks + seat < MaxOpened
    /\ parks' = parks + 1
    /\ tray' = tray \union {[id |-> parks + 1, lines |-> cart]}
    /\ sheet' = "park" /\ moving' = moving \union {[was |-> cart, becomes |-> {}]}
    /\ left' = left \union Entangled
    /\ UNCHANGED <<rung, cart, panel, seat, saving, sales, dropped, stock, deaths>>

KeptInTray(p) == tray' = tray  \* mutant: the row stays while the cart is open
TakenFromTray(p) == tray' = tray \ {p}

(* The sheet of the tray takes further taps meanwhile. *)
AtTray == panel = NoPanel /\ sheet # "park"

ResumeParkedCart(p) ==
    /\ AtTray
    /\ TakenFromTray(p)
    /\ sheet' = "tray" /\ moving' = moving \union {[was |-> cart, becomes |-> p.lines]}
    /\ left' = left \union Entangled \union (IF moving = {} THEN {} ELSE p.lines)
    /\ UNCHANGED <<rung, cart, panel, seat, saving, sales, parks, dropped, stock, deaths>>

CloseSheet ==
    /\ sheet # "none"
    /\ sheet' = "none"
    /\ UNCHANGED <<rung, cart, panel, seat, saving, sales, tray, parks, moving, dropped,
                   left, stock, deaths>>

ReplaceCart(m) ==
    /\ cart' = m.becomes /\ moving' = moving \ {m} /\ sheet' = "none"
    /\ dropped' = dropped \union (IF m.becomes = {} THEN {} ELSE cart)
    /\ left' = left \union (cart \ m.was)
    /\ UNCHANGED <<rung, panel, seat, saving, sales, tray, parks, stock, deaths>>

(* Discarding one takes the manager's PIN. *)
DiscardParkedCart(p) ==
    /\ AtTray
    /\ tray' = tray \ {p} /\ dropped' = dropped \union p.lines
    /\ UNCHANGED <<rung, cart, panel, seat, saving, sales, parks, sheet, moving, left,
                   stock, deaths>>

(* Closing the shift clears the tray; the cart is left as it is. *)
ClearParked ==
    /\ AtCart /\ tray # {}
    /\ tray' = {} /\ dropped' = dropped \union UNION {p.lines : p \in tray}
    /\ UNCHANGED <<rung, cart, panel, seat, saving, sales, parks, sheet, moving, left,
                   stock, deaths>>

-----------------------------------------------------------------------------
(* Tendering.  A finalisation outlives the panel that started it. *)

Mounted(f) == panel # NoPanel /\ f.seat = seat
Unmounted == UNION {f.lines : f \in {g \in saving : ~Mounted(g)}}

OpenPanel(how) ==
    /\ AtCart /\ parks + seat < MaxOpened
    /\ panel' = [how |-> how, submitting |-> FALSE] /\ seat' = seat + 1
    /\ UNCHANGED <<rung, cart, saving, sales, tray, parks, sheet, moving, dropped, left,
                   stock, deaths>>

LeavePanel ==
    /\ panel # NoPanel
    /\ panel' = NoPanel
    /\ UNCHANGED <<rung, cart, seat, saving, sales, tray, parks, sheet, moving, dropped,
                   stock, deaths>>
    /\ left' = left \union Unmounted'

(* The button of a panel: one submit at a time, of a cart with lines, once   *)
(* the amount is covered or the buyer's four digits are in.                  *)
TenderForm == panel # NoPanel /\ ~panel.submitting /\ cart # {}

HandleFinalize ==
    /\ TenderForm
    /\ panel' = [panel EXCEPT !.submitting = TRUE]
    /\ saving' = saving \union
                    {[lines |-> cart, how |-> panel.how, seat |-> seat, saved |-> FALSE]}
    /\ left' = left \union Entangled
    /\ UNCHANGED <<rung, cart, seat, sales, tray, parks, sheet, moving, dropped,
                   stock, deaths>>

(* What a cart takes from the stock of k.  The till explodes recipes for     *)
(* every tender but the dynamic QRIS one, which takes the tracked items      *)
(* themselves; an item without a stock_snapshot row takes nothing.           *)
Demand(lines, k) == MapThenSumSet(LAMBDA t : Uses[ItemOf[t]][k], lines)
OwnDemand(lines, k) == Cardinality({t \in lines : ItemOf[t] = k /\ k \in Tracked})
Takes(f) == [k \in Stocked |-> IF f.how = "qris" THEN OwnDemand(f.lines, k)
                                                 ELSE Demand(f.lines, k)]
Less(stk, taken) == [k \in Stocked |-> stk[k] - taken[k]]

(* One transaction over pending_sales and stock_snapshot. *)
Save(f) ==
    /\ ~f.saved
    /\ sales' = Append(sales, [lines |-> f.lines, pushed |-> FALSE])
    /\ label' = Less(label, Takes(f))
    /\ saving' = (saving \ {f}) \union {[f EXCEPT !.saved = TRUE]}
    /\ UNCHANGED <<rung, cart, panel, seat, tray, parks, sheet, moving, dropped, left,
                   onHand, returned, snapshot, deaths>>

KeepsCart(f) == cart' = cart  \* mutant: the cart is not cleared
Cleared(f) == cart' = {}

(* The cart is cleared and the screen goes to the receipt, from wherever the *)
(* clerk may be by now.                                                      *)
After(f) ==
    /\ f.saved
    /\ Cleared(f)
    /\ panel' = NoPanel /\ saving' = saving \ {f}
    /\ UNCHANGED <<rung, seat, sales, tray, parks, sheet, moving, dropped, stock, deaths>>
    /\ left' = left \union Unmounted' \union (IF Mounted(f) THEN {} ELSE cart)

KeptPart(f) == label' = Less(label, Takes(f))  \* mutant: the decrement is not undone
RolledBack(f) == label' = label

StuckPanel(f) == panel' = panel  \* mutant: the button stays disabled
FreesPanel(f) == panel' = IF Mounted(f) THEN [panel EXCEPT !.submitting = FALSE] ELSE panel

(* An item the catalog lacks, or a transaction that aborts. *)
Fails(f) ==
    /\ ~f.saved
    /\ RolledBack(f)
    /\ saving' = saving \ {f}
    /\ FreesPanel(f)
    /\ UNCHANGED <<rung, cart, seat, sales, tray, parks, sheet, moving, dropped, left,
                   onHand, returned, snapshot, deaths>>

-----------------------------------------------------------------------------
(* The API's ledger, and the projection the sync cycle pulls. *)

(* A sale is accepted; the API explodes the recipes of every sale. *)
PushSale(n) ==
    /\ ~sales[n].pushed
    /\ sales' = [sales EXCEPT ![n].pushed = TRUE]
    /\ onHand' = Less(onHand, [k \in Stocked |-> Demand(sales[n].lines, k)])
    /\ UNCHANGED <<counter, label, returned, snapshot, deaths>>

PushedDemand(k) ==
    LET gone == {n \in DOMAIN sales : sales[n].pushed}
    IN MapThenSumSet(LAMBDA n : Demand(sales[n].lines, k), gone)

(* A void or a refund at the API puts back some of what sales took. *)
Return(k) ==
    /\ returned[k] < PushedDemand(k)
    /\ MapThenSumSet(LAMBDA i : returned[i], Stocked) < MaxReturns
    /\ returned' = [returned EXCEPT ![k] = @ + 1]
    /\ onHand' = [onHand EXCEPT ![k] = @ + 1]
    /\ UNCHANGED <<counter, sales, label, snapshot, deaths>>

ListSnapshot ==
    /\ snapshot = None
    /\ snapshot' = [onHand |-> onHand]
    /\ UNCHANGED <<counter, sales, label, onHand, returned, deaths>>

(* mutant: a row never goes up *)
KeepsLower(stk) == [k \in Stocked |-> IF label[k] < stk[k] THEN label[k] ELSE stk[k]]
Overwritten(stk) == stk

ApplySnapshot ==
    /\ snapshot # None
    /\ label' = Overwritten(snapshot.onHand) /\ snapshot' = None
    /\ UNCHANGED <<counter, sales, onHand, returned, deaths>>

(* The pull fails or is aborted before it writes. *)
SnapshotLost ==
    /\ snapshot # None
    /\ snapshot' = None
    /\ UNCHANGED <<counter, sales, label, onHand, returned, deaths>>

(* The tab dies and is opened again: what was in memory is gone. *)
TabDies ==
    /\ deaths < MaxDeaths
    /\ deaths' = deaths + 1
    /\ cart' = {} /\ panel' = NoPanel /\ saving' = {} /\ snapshot' = None
    /\ sheet' = "none" /\ moving' = {}
    /\ dropped' = dropped \union cart \union UNION {m.becomes : m \in moving}
    /\ UNCHANGED <<rung, seat, sales, tray, parks, left, label, onHand, returned>>

CounterNext ==
    \/ \E t \in Tickets : AddLine(t)
    \/ \E gone \in SUBSET cart : RemoveLine(gone)
    \/ ParkActiveCart \/ CloseSheet \/ ClearParked
    \/ \E m \in moving : ReplaceCart(m)
    \/ \E p \in tray : ResumeParkedCart(p) \/ DiscardParkedCart(p)
    \/ \E how \in Hows : OpenPanel(how)
    \/ LeavePanel \/ HandleFinalize
    \/ \E f \in saving : Save(f) \/ After(f) \/ Fails(f)
    \/ \E n \in DOMAIN sales : PushSale(n)
    \/ \E k \in Stocked : Return(k)
    \/ ListSnapshot \/ ApplySnapshot \/ SnapshotLost \/ TabDies

CounterSpec == CounterInit /\ [][CounterNext]_counterVars

(* The cycle runs again and again while the tab is open, and pulls in each;  *)
(* a pull may be lost, though not for ever.                                  *)
Fairness ==
    /\ WF_counterVars(ListSnapshot) /\ SF_counterVars(ApplySnapshot)
    /\ WF_counterVars(\E n \in DOMAIN sales : PushSale(n))

FairSpec == CounterSpec /\ Fairness

-----------------------------------------------------------------------------
(* Properties. *)

Carts == (SUBSET Tickets) \ {{}}
SaleRow == [lines : Carts, pushed : BOOLEAN]
Finalisation == [lines : Carts, how : Hows, seat : Nat, saved : BOOLEAN]

(* A parked cart is never empty, a sale neither, and the panel submits only *)
(* while a finalisation of its own is under way.                             *)
CounterTypeOK ==
    /\ cart \subseteq rung /\ rung \subseteq Tickets
    /\ panel \in {NoPanel} \union [how : Hows, submitting : BOOLEAN]
    /\ panel.submitting <=> \E f \in saving : Mounted(f)
    /\ seat \in Nat /\ saving \subseteq Finalisation /\ \A f \in saving : f.seat <= seat
    /\ sales \in Seq(SaleRow) /\ parks \in Nat
    /\ tray \subseteq [id : 1..parks, lines : (SUBSET rung) \ {{}}]
    /\ moving \subseteq [was : SUBSET rung, becomes : SUBSET rung]
    /\ label \in [Stocked -> Int] /\ onHand \in [Stocked -> Int]
    /\ returned \in [Stocked -> Nat]
    /\ snapshot \in {None} \union [onHand : [Stocked -> Int]]

Sold == UNION {sales[n].lines : n \in DOMAIN sales}
InTray == UNION {p.lines : p \in tray}

(* What a customer asked for is sold once and never mislaid: through parking *)
(* and resuming, failing and retrying a tender, and a death of the tab, no   *)
(* ticket is in two sales, none that was sold can be sold again once its     *)
(* finalisation has ended, and one that is neither sold nor dropped is still *)
(* in the cart or in the tray.  There are two ways around it, both in left:  *)
(* a panel that is left while it finalises keeps the cart open to a second   *)
(* tender and clears it when the first ends, with what was added since; and  *)
(* a sheet closed with Escape while its write is under way lets a second     *)
(* parking, resuming or tender take the same lines.                          *)
SoldOnce ==
    \A t \in rung \ left :
       /\ \A m, n \in DOMAIN sales : t \in sales[m].lines \cap sales[n].lines => m = n
       /\ t \in Sold => /\ t \notin InTray
                        /\ t \in cart => \E f \in saving : f.saved /\ t \in f.lines
       /\ t \notin Sold \union dropped =>
             t \in cart \union InTray \union UNION {m.becomes : m \in moving}

Outstanding(k) ==
    LET owed == {n \in DOMAIN sales : ~sales[n].pushed}
    IN MapThenSumSet(LAMBDA n : Demand(sales[n].lines, k), owed)

(* The label on the screen never hides stock the outlet could sell: whatever *)
(* the order of sales, pulls and pushes, it is no lower than the API's stock *)
(* less what the till has still to push and what was given back since.  It   *)
(* may well be higher, when a pull overwrites the till's own decrement.      *)
LabelNeverHides == \A k \in Stocked : label[k] + returned[k] >= onHand[k] - Outstanding(k)

(* However they drifted apart, once the counter rests the labels end up at   *)
(* the API's stock.                                                          *)
LabelConverges == <>[](label = onHand)
=============================================================================

------------------------------ MODULE QrisTender ------------------------------
(***************************************************************************)
(* The QRIS tender screen of the till over the orders of QrisOrders: the   *)
(* clerk has a QR made for the cart, the panel polls the order's status    *)
(* through the API, and finalises the sale once the order is paid.  The    *)
(* panel is a React component: leaving the screen, the mode toggle and the *)
(* sync runner going offline all unmount it, and what it awaited goes on   *)
(* without it.                                                             *)
(*                                                                         *)
(* Abstractions.  A cart is its total, 0 when it is empty; the device is   *)
(* enrolled; a sale in the outbox is its amount, 0 when there is none.     *)
(***************************************************************************)
EXTENDS QrisOrders, FiniteSets

CONSTANTS
    NoOrder,
    MaxNoticed   \* bound: notices are delivered only in behaviours in which
                 \* the till has minted at most this many orders

ASSUME NoOrderAssumption == NoOrder \notin Orders /\ MaxNoticed \in Nat

VARIABLES
    cart,        \* total of the cart
    panel,       \* the mounted panel: step and order, or Unmounted
    poll,        \* what the panel knows of its order: status and amount
    tick,        \* the answer of a poll on its way, or Unknown
    requests,    \* create requests on their way to the API
    minted,      \* orders the till made an id for
    shown,       \* orders whose QR was on the screen
    abandoned,   \* orders the clerk gave up with "Coba lagi"
    saving,      \* finalisations under way
    sales,       \* per order: the amount of its row in pending_sales
    decrements   \* per order: how often its lines were taken off the stock

tillVars == <<cart, panel, poll, tick, requests, minted, shown, abandoned,
              saving, sales, decrements>>
vars == <<providerVars, apiVars, tillVars>>

Unmounted == [step |-> "unmounted", order |-> NoOrder]
Idle == [step |-> "idle", order |-> NoOrder]
Panel(step, o) == [step |-> step, order |-> o]
Unknown == [status |-> NoStatus, gross |-> 0]
Terminal == {"paid", "expired", "cancelled", "failed"}

(* Nothing happened at the webhook yet; only the bound asks. *)
Quiet == faults = 0 /\ \A o \in Orders : newest[o] = 0

Waiting(o) == panel = Panel("waiting", o)

(* Whenever the step changes the poll's effect is torn down and its state   *)
(* is cleared.                                                              *)
Show(p) == panel' = p /\ poll' = Unknown /\ tick' = Unknown

TillInit ==
    /\ cart = 0 /\ panel = Unmounted /\ poll = Unknown /\ tick = Unknown
    /\ requests = {} /\ minted = {} /\ shown = {} /\ abandoned = {} /\ saving = {}
    /\ sales = [o \in Orders |-> 0]
    /\ decrements = [o \in Orders |-> 0]

Init == OrdersInit /\ TillInit

-----------------------------------------------------------------------------
(* The clerk. *)

EditCart ==
    /\ panel = Unmounted
    /\ \E amount \in (Amounts \union {0}) \ {cart} : cart' = amount
    /\ UNCHANGED <<panel, poll, tick, requests, minted, shown, abandoned, saving,
                   sales, decrements, providerVars, apiVars>>

OpenPanel ==
    /\ panel = Unmounted
    /\ Show(Idle)
    /\ UNCHANGED <<cart, requests, minted, shown, abandoned, saving, sales,
                   decrements, providerVars, apiVars>>

(* Another screen, the toggle to the static QR, or the runner going offline. *)
LeavePanel ==
    /\ panel # Unmounted
    /\ Show(Unmounted)
    /\ UNCHANGED <<cart, requests, minted, shown, abandoned, saving, sales,
                   decrements, providerVars, apiVars>>

(* The tab is closed or reloaded: the cart is only in memory. *)
Reload ==
    /\ cart' = 0 /\ saving' = {}
    /\ Show(Unmounted)
    /\ UNCHANGED <<requests, minted, shown, abandoned, sales, decrements,
                   providerVars, apiVars>>

EmptyToo == panel.step \in {"idle", "error"}  \* mutant: the cart may be empty
MayCreate == panel.step \in {"idle", "error"} /\ cart # 0

(* "Buat QR", after an error too: a new id each time, a uuidv7. *)
HandleCreate(o) ==
    /\ MayCreate
    /\ o \in Orders \ minted /\ \A x \in Orders \ minted : o <= x
    /\ (Quiet \/ Cardinality(minted) < MaxNoticed)
    /\ minted' = minted \union {o}
    /\ requests' = requests \union {[order |-> o, amount |-> cart]}
    /\ Show(Panel("creating", o))
    /\ UNCHANGED <<cart, shown, abandoned, saving, sales, decrements,
                   providerVars, apiVars>>

RetryAnytime ==  \* mutant: "Coba lagi" is there while the order is pending
    panel.step = "waiting" /\ poll.status # "paid"

(* "Coba lagi" shows beside the code once the poll has heard that the order  *)
(* came to nothing.                                                          *)
RetryOffered ==
    panel.step = "waiting" /\ poll.status \in {"expired", "cancelled", "failed"}

HandleReset ==
    /\ RetryOffered
    /\ abandoned' = abandoned \union {panel.order}
    /\ Show(Idle)
    /\ UNCHANGED <<cart, requests, minted, shown, saving, sales, decrements,
                   providerVars, apiVars>>

-----------------------------------------------------------------------------
(* Creating the order. *)

(* The request reaches the API, which charges the provider; or the provider  *)
(* turns the charge down, or cannot be reached.                              *)
ChargeRefused == UNCHANGED <<providerVars, apiVars>>

CreateOrder(r) ==
    /\ requests' = requests \ {r}
    /\ Charge(r.order, r.amount) \/ ChargeRefused
    /\ UNCHANGED <<cart, panel, poll, tick, minted, shown, abandoned, saving,
                   sales, decrements>>

CreateAnswered ==
    /\ panel.step = "creating" /\ Charged(panel.order)
    /\ shown' = shown \union {panel.order}
    /\ Show(Panel("waiting", panel.order))
    /\ UNCHANGED <<cart, requests, minted, abandoned, saving, sales, decrements,
                   providerVars, apiVars>>

(* The fetch fails, before or after the API acted, or the answer is an error. *)
CreateFails ==
    /\ panel.step = "creating"
    /\ Show(Panel("error", NoOrder))
    /\ UNCHANGED <<cart, requests, minted, shown, abandoned, saving, sales,
                   decrements, providerVars, apiVars>>

-----------------------------------------------------------------------------
(* Polling, one request at a time, until the status is terminal. *)

GetStatus(o) == [status |-> Current(o), gross |-> gross[o]]

PollAsks ==
    /\ panel.step = "waiting" /\ poll.status \notin Terminal /\ tick = Unknown
    /\ tick' = GetStatus(panel.order)
    /\ UNCHANGED <<cart, panel, poll, requests, minted, shown, abandoned, saving,
                   sales, decrements, providerVars, apiVars>>

PollAnswered ==
    /\ tick # Unknown
    /\ poll' = tick /\ tick' = Unknown
    /\ UNCHANGED <<cart, panel, requests, minted, shown, abandoned, saving, sales,
                   decrements, providerVars, apiVars>>

PollFails ==
    /\ tick # Unknown
    /\ tick' = Unknown
    /\ UNCHANGED <<cart, panel, poll, requests, minted, shown, abandoned, saving,
                   sales, decrements, providerVars, apiVars>>

-----------------------------------------------------------------------------
(* Finalising. *)

AmountTrusted(amount) == TRUE  \* mutant: the reported amount is not looked at
AmountMatches(amount) == amount = cart

(* The effect that sees "paid": an amount other than the cart's is refused,  *)
(* and the panel stays where it is.                                          *)
Finalize ==
    /\ panel.step = "waiting" /\ poll.status = "paid"
    /\ AmountMatches(poll.gross)
    /\ saving' = saving \union
           {[order |-> panel.order, amount |-> cart, stage |-> "saving"]}
    /\ Show(Panel("finalizing", panel.order))
    /\ UNCHANGED <<cart, requests, minted, shown, abandoned, sales, decrements,
                   providerVars, apiVars>>

(* finalizeQrisSale: the row and the stock in one transaction. *)
FinalizeQrisSale(f) ==
    /\ f.stage = "saving" /\ f.amount # 0
    /\ saving' = (saving \ {f}) \union {[f EXCEPT !.stage = "saved"]}
    /\ sales' = [sales EXCEPT ![f.order] = f.amount]
    /\ decrements' = [decrements EXCEPT ![f.order] = @ + 1]
    /\ UNCHANGED <<cart, panel, poll, tick, requests, minted, shown, abandoned,
                   providerVars, apiVars>>

(* A panel still on this order goes back to waiting, and asks again. *)
BackToWaiting(o) ==
    IF panel = Panel("finalizing", o)
    THEN Show(Panel("waiting", o)) ELSE UNCHANGED <<panel, poll, tick>>

StaysFinalizing(f) ==  \* mutant: the panel is not set back to waiting
    /\ f.stage = "saving"
    /\ saving' = saving \ {f}
    /\ UNCHANGED <<cart, panel, poll, tick, requests, minted, shown, abandoned,
                   sales, decrements, providerVars, apiVars>>

FinalizeFails(f) ==
    /\ f.stage = "saving"
    /\ saving' = saving \ {f}
    /\ BackToWaiting(f.order)
    /\ UNCHANGED <<cart, requests, minted, shown, abandoned, sales, decrements,
                   providerVars, apiVars>>

ClearedLate(f) ==  \* mutant: the cart is cleared only after the navigation
    /\ f.stage = "saved"
    /\ saving' = saving \ {f}
    /\ \/ Show(Unmounted) /\ cart' = 0
       \/ BackToWaiting(f.order) /\ cart' = cart
    /\ UNCHANGED <<requests, minted, shown, abandoned, sales, decrements,
                   providerVars, apiVars>>

(* The cart is cleared, then the app goes to the receipt, or fails to. *)
AfterFinalize(f) ==
    /\ f.stage = "saved"
    /\ saving' = saving \ {f}
    /\ cart' = 0
    /\ \/ Show(Unmounted)
       \/ BackToWaiting(f.order)
    /\ UNCHANGED <<requests, minted, shown, abandoned, sales, decrements,
                   providerVars, apiVars>>

-----------------------------------------------------------------------------
(* A buyer pays what was on the screen; an order expires by itself. *)
Provider ==
    /\ \E o \in Orders :
          /\ ProviderMoves(o)
          /\ o \in shown \/ Current(o)' = "expired"
    /\ UNCHANGED tillVars

Api == Cardinality(minted) <= MaxNoticed /\ OrdersNext /\ UNCHANGED tillVars

Next ==
    \/ EditCart \/ OpenPanel \/ LeavePanel \/ Reload
    \/ \E o \in Orders : HandleCreate(o)
    \/ HandleReset
    \/ \E r \in requests : CreateOrder(r)
    \/ CreateAnswered \/ CreateFails
    \/ PollAsks \/ PollAnswered \/ PollFails
    \/ Finalize
    \/ \E f \in saving : FinalizeQrisSale(f) \/ FinalizeFails(f) \/ AfterFinalize(f)
    \/ Provider
    \/ Api

Spec == Init /\ [][Next]_vars

(* Timers fire and effects run (WF).  The connection is not lost at every    *)
(* poll for ever, and the browser's database does not refuse for ever (SF).  *)
Fairness ==
    /\ WF_vars(PollAsks) /\ SF_vars(PollAnswered) /\ WF_vars(Finalize)
    /\ SF_vars(\E f \in saving : FinalizeQrisSale(f))

FairSpec == Spec /\ Fairness

-----------------------------------------------------------------------------
TypeOK ==
    /\ OrdersTypeOK
    /\ cart \in Amounts \union {0}
    /\ panel \in [step : {"unmounted", "idle", "creating", "waiting", "finalizing",
                          "error"}, order : Orders \union {NoOrder}]
    /\ {poll, tick} \subseteq [status : Statuses \union {NoStatus},
                               gross : Amounts \union {0}]
    /\ requests \subseteq [order : Orders, amount : Amounts]
    /\ minted \subseteq Orders /\ shown \subseteq Orders /\ abandoned \subseteq Orders
    /\ saving \subseteq [order : Orders, amount : Amounts, stage : {"saving", "saved"}]
    /\ sales \in [Orders -> Amounts \union {0}]
    /\ decrements \in [Orders -> Nat]

WasPaid(o) ==
    \E i \in 1..Len(history[o]) : MapTransactionStatus(history[o][i]) = "paid"

(* A QRIS sale in the outbox is backed by its order: the provider had it     *)
(* paid, with exactly the amount of the sale, however the cart changed       *)
(* between the QR, the payment and the poll (TenderQrisPanel.tsx 102-110).   *)
SaleBacked ==
    \A o \in Orders : sales[o] # 0 => WasPaid(o) /\ sales[o] = gross[o]

(* The lines of an order leave the local stock at most once, although a      *)
(* failed finalisation is tried again and the navigation may fail after the  *)
(* row was written (TenderQrisPanel.tsx 111-138).                            *)
OneDecrement == \A o \in Orders : decrements[o] <= 1

(* An order the clerk was offered to replace can no longer be paid, so that  *)
(* no buyer pays two QRs of one cart on the clerk's retry, although the      *)
(* status on the screen is older than the provider's                         *)
(* (TenderQrisPanel.tsx 256-264).                                            *)
ResetIsSafe == \A o \in abandoned : Current(o) \notin {"pending", "paid"}

(* While the panel stays on a paid order of the cart's amount, the sale gets *)
(* into the outbox: lost polls and failed writes only delay it               *)
(* (useQrisPoll.ts 56-86, TenderQrisPanel.tsx 143-148).                      *)
PaidIsRecorded ==
    \A o \in Orders :
        (Waiting(o) /\ Current(o) = "paid" /\ cart = gross[o])
            ~> (\/ sales[o] # 0
                \/ panel.order # o \/ Current(o) # "paid" \/ cart # gross[o])
=============================================================================

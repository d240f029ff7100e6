------------------------------ MODULE QrisOrders ------------------------------
(***************************************************************************)
(* Dynamic QRIS orders as the API sees them: the provider (Midtrans,       *)
(* external) moves an order through its transaction states and posts a     *)
(* notice of every move until it is answered 200, in any order and more    *)
(* than once; the webhook handler translates a notice, drops it when the   *)
(* dedupe store remembers its status, and otherwise emits the domain       *)
(* events.  The dedupe store lives in the memory of the process.           *)
(*                                                                         *)
(* Abstractions.  Notices carry a valid signature, and the provider is     *)
(* configured.  A transaction is Midtrans' transaction_status and          *)
(* fraud_status; a notice is the position in the order's history of the    *)
(* state it reports.                                                       *)
(***************************************************************************)
EXTENDS Naturals, Sequences

CONSTANTS
    Orders,       \* order ids: numbers, as the POS mints them
    Amounts,      \* amounts of money, 0 left out
    Lifecycle,    \* the provider's moves, pairs of transactions
    MaxLate,      \* bound on deliveries of a notice already answered 200
    MaxFaults     \* bound on throwing listeners and on restarts of the API

Statuses == {"pending", "paid", "expired", "cancelled", "failed"}
NoStatus == "none"

Transactions == [tx : {"pending", "capture", "settlement", "deny", "failure",
                       "cancel", "expire", "refund", "partial_refund",
                       "chargeback", "other"},
                 fraud : {"accept", "challenge", "deny"}]

MapTransactionStatus(t) ==
    CASE t.tx \in {"capture", "settlement"} ->
             CASE t.fraud = "challenge" -> "pending"
               [] t.fraud = "deny" -> "failed"
               [] OTHER -> "paid"
      [] t.tx \in {"deny", "failure"} -> "failed"
      [] t.tx \in {"cancel", "refund", "partial_refund", "chargeback"} -> "cancelled"
      [] t.tx = "expire" -> "expired"
      [] OTHER -> "pending"

(* What the project relies on the provider for: an order that is neither     *)
(* waited for nor paid stays as it is, and a paid one can only be given back. *)
ASSUME LifecycleAssumption ==
    /\ Lifecycle \subseteq Transactions \X Transactions
    /\ \A move \in Lifecycle :
          LET from == MapTransactionStatus(move[1])
              to == MapTransactionStatus(move[2])
          IN  /\ from \in {"pending", "paid"}
              /\ from = "paid" => to \in {"paid", "cancelled"}

ASSUME BoundsAssumption ==
    /\ Orders \subseteq Nat
    /\ Amounts \subseteq Nat \ {0}
    /\ MaxLate \in Nat /\ MaxFaults \in Nat

VARIABLES
    history,    \* per order: the transactions it went through at the provider
    gross,      \* per order: the amount the provider reports
    dedupe,     \* per order: the status the store remembers
    acked,      \* notices answered 200, pairs of an order and a position
    heard,      \* per order: the statuses every listener was told of
    paidEmits,  \* per order: how often tender.paid was emitted
    newest,     \* per order: the latest position delivered so far
    disturbed,  \* orders with an older notice after a newer one, a listener
                \* that threw on tender.paid, or a restart of the API
    late, faults

apiVars == <<dedupe, acked, heard, paidEmits, newest, disturbed, late, faults>>
providerVars == <<history, gross>>

Charged(o) == history[o] # <<>>
Current(o) ==
    IF Charged(o) THEN MapTransactionStatus(history[o][Len(history[o])]) ELSE NoStatus
Reported(o, i) == MapTransactionStatus(history[o][i])

OrdersInit ==
    /\ history = [o \in Orders |-> <<>>]
    /\ gross = [o \in Orders |-> 0]
    /\ dedupe = [o \in Orders |-> NoStatus]
    /\ acked = {}
    /\ heard = [o \in Orders |-> {}]
    /\ paidEmits = [o \in Orders |-> 0]
    /\ newest = [o \in Orders |-> 0]
    /\ disturbed = {}
    /\ late = 0 /\ faults = 0

-----------------------------------------------------------------------------
(* The provider. *)

(* chargeQris: an order id is charged once. *)
Charge(o, amount) ==
    /\ ~Charged(o)
    /\ history' = [history EXCEPT ![o] = <<[tx |-> "pending", fraud |-> "accept"]>>]
    /\ gross' = [gross EXCEPT ![o] = amount]
    /\ UNCHANGED apiVars

(* The buyer pays (an amount the provider may report otherwise than it was    *)
(* asked for), the fraud check decides, the order expires, the bank refunds.  *)
ProviderMoves(o) ==
    /\ Charged(o)
    /\ \E t \in Transactions :
          /\ <<history[o][Len(history[o])], t>> \in Lifecycle
          /\ history' = [history EXCEPT ![o] = Append(@, t)]
          /\ \E g \in Amounts :
                /\ g # gross[o] => Current(o) # "paid" /\ MapTransactionStatus(t) = "paid"
                /\ gross' = [gross EXCEPT ![o] = g]
    /\ UNCHANGED apiVars

-----------------------------------------------------------------------------
(* The webhook. *)

ByNotice(o, i) == <<o, i>> \in acked  \* mutant: the store remembers notices
DedupeCheck(o, i) == dedupe[o] = Reported(o, i)
DedupeRecord(o, i) == dedupe' = [dedupe EXCEPT ![o] = Reported(o, i)]

(* What every delivery leaves behind, for the properties. *)
Delivered(o, i) ==
    /\ newest' = [newest EXCEPT ![o] = IF i > @ THEN i ELSE @]
    /\ IF <<o, i>> \in acked THEN late < MaxLate /\ late' = late + 1
                             ELSE late' = late
    /\ UNCHANGED providerVars

Disturbs(o, condition) ==
    disturbed' = IF condition THEN disturbed \union {o} ELSE disturbed

WebhookDuplicate(o, i) ==
    /\ Delivered(o, i)
    /\ DedupeCheck(o, i)
    /\ acked' = acked \union {<<o, i>>}
    /\ Disturbs(o, i < newest[o])
    /\ UNCHANGED <<dedupe, heard, paidEmits, faults>>

(* tender.status_changed, then tender.paid, then record, then 200. *)
WebhookEmits(o, i) ==
    /\ Delivered(o, i)
    /\ ~DedupeCheck(o, i)
    /\ acked' = acked \union {<<o, i>>}
    /\ heard' = [heard EXCEPT ![o] = @ \union {Reported(o, i)}]
    /\ paidEmits' = [paidEmits EXCEPT ![o] = @ + IF Reported(o, i) = "paid" THEN 1 ELSE 0]
    /\ DedupeRecord(o, i)
    /\ Disturbs(o, i < newest[o])
    /\ UNCHANGED faults

RecordsFirst(o, i) ==  \* mutant: checkAndRecord before the events
    /\ Delivered(o, i)
    /\ ~DedupeCheck(o, i) /\ faults < MaxFaults
    /\ faults' = faults + 1
    /\ DedupeRecord(o, i)
    /\ Disturbs(o, i < newest[o])
    /\ UNCHANGED <<acked, heard, paidEmits>>

(* A listener throws, of tender.status_changed or of tender.paid: 500, and    *)
(* nothing is recorded.                                                       *)
WebhookThrows(o, i) ==
    /\ Delivered(o, i)
    /\ ~DedupeCheck(o, i) /\ faults < MaxFaults
    /\ faults' = faults + 1
    /\ \E announced \in {n \in {0, 1} : n = 1 => Reported(o, i) = "paid"} :
          /\ paidEmits' = [paidEmits EXCEPT ![o] = @ + announced]
          /\ Disturbs(o, announced = 1 \/ i < newest[o])
    /\ UNCHANGED <<dedupe, acked, heard>>

(* The process restarts: its dedupe store is empty. *)
ApiRestarts ==
    /\ faults < MaxFaults
    /\ faults' = faults + 1
    /\ dedupe' = [o \in Orders |-> NoStatus]
    /\ disturbed' = {o \in Orders : Charged(o)} \union disturbed
    /\ UNCHANGED <<history, gross, acked, heard, paidEmits, newest, late>>

OrdersNext ==
    \/ \E o \in Orders : \E i \in 1..Len(history[o]) :
          \/ WebhookDuplicate(o, i)
          \/ WebhookEmits(o, i)
          \/ WebhookThrows(o, i)
    \/ ApiRestarts

-----------------------------------------------------------------------------
OrdersTypeOK ==
    /\ history \in [Orders -> Seq(Transactions)]
    /\ gross \in [Orders -> Amounts \union {0}]
    /\ dedupe \in [Orders -> Statuses \union {NoStatus}]
    /\ acked \subseteq Orders \X Nat
    /\ heard \in [Orders -> SUBSET Statuses]
    /\ paidEmits \in [Orders -> Nat]
    /\ newest \in [Orders -> Nat]
    /\ disturbed \subseteq Orders
    /\ late \in Nat /\ faults \in Nat

(* A notice answered 200 was heard: whatever a throwing listener, a restart  *)
(* or the order of deliveries did, its status reached every listener, or the *)
(* provider would be told to stop sending what the shop never learned         *)
(* (payments.ts 220-265).                                                    *)
AckMeansHeard ==
    \A notice \in acked : Reported(notice[1], notice[2]) \in heard[notice[1]]

(* As long as the notices of an order arrive in the provider's order,        *)
(* duplicates allowed, no listener of tender.paid throws and the process     *)
(* lives, tender.paid is emitted once, although capture and settlement both  *)
(* say paid, and a capture under challenge and one accepted do not say the   *)
(* same (payments.ts 220-222).                                               *)
PaidOnceInOrder == \A o \in Orders \ disturbed : paidEmits[o] <= 1
=============================================================================

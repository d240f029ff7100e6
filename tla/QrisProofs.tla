------------------------------ MODULE QrisProofs ------------------------------
(***************************************************************************)
(* Theorems about the two ways a QRIS payment is followed.  QrisTender:     *)
(* what the webhook, the poll and the panel keep true of the orders, for    *)
(* any orders and amounts, any moves of the provider LifecycleAssumption    *)
(* allows, and any number of late notices, throwing listeners and restarts. *)
(* Reconciliation: what the passes and the manual matches keep true of the  *)
(* static tenders, for any tenders, rows, keys, times, number of passes and *)
(* pages.                                                                   *)
(***************************************************************************)
EXTENDS QrisTender, Reconciliation, Sums, SequenceTheorems

Final == {"expired", "cancelled", "failed"}
Positions(o) == 1..Len(history[o])

-----------------------------------------------------------------------------
(* The parts of the inductive invariant *)

(* A panel that creates, waits or finalises has an order, and one that       *)
(* waits has a charged one; what was charged has an amount.                  *)
PanelInv ==
    /\ panel.step \in {"creating", "waiting", "finalizing"} => panel.order \in Orders
    /\ panel.step \in {"waiting", "finalizing"} => Charged(panel.order)
    /\ \A o \in Orders : Charged(o) <=> gross[o] # 0

(* Only the last transaction of an order is final, and after one that says   *)
(* paid come only such that say paid or given back.                          *)
LifeInv ==
    \A o \in Orders : \A i, j \in Positions(o) : i < j =>
        /\ Reported(o, i) \notin Final
        /\ Reported(o, i) = "paid" => Reported(o, j) \in {"paid", "cancelled"}

(* What a poll heard of the order the panel waits for is old, but not wrong: *)
(* a paid order was paid with that amount, and a final status has stayed.    *)
HeardRight(p) ==
    p # Unknown =>
        /\ panel.step = "waiting"
        /\ p.status = "paid" => WasPaid(panel.order) /\ p.gross = gross[panel.order]
        /\ p.status \in Final => Current(panel.order) \in Final

PollInv == HeardRight(poll) /\ HeardRight(tick)

(* A finalisation under way is as good as the sale it will write. *)
SavingInv == \A f \in saving : WasPaid(f.order) /\ f.amount = gross[f.order]

AbandonedInv == \A o \in abandoned : Current(o) \in Final

(* The notices answered are of transactions there were, and what the store   *)
(* remembers was heard.                                                      *)
AckedInv ==
    /\ \A n \in acked : n[2] \in Positions(n[1])
    /\ \A o \in Orders : dedupe[o] # NoStatus => dedupe[o] \in heard[o]

(* Of an order nothing disturbed, the store remembers the status of some     *)
(* position delivered, and it says so when tender.paid went out.             *)
StoreInv ==
    \A o \in Orders :
        /\ newest[o] <= Len(history[o])
        /\ o \notin disturbed =>
              /\ dedupe[o] # NoStatus => \E i \in 1..newest[o] : Reported(o, i) = dedupe[o]
              /\ paidEmits[o] = 0 \/ (paidEmits[o] = 1 /\ dedupe[o] \in {"paid", "cancelled"})

QrisInv ==
    /\ TypeOK /\ PanelInv /\ LifeInv /\ PollInv /\ SavingInv /\ AbandonedInv
    /\ AckedInv /\ StoreInv /\ SaleBacked /\ AckMeansHeard

-----------------------------------------------------------------------------
(* What a step does to the history of an order *)

LEMMA StatusKnown ==
  ASSUME NEW t
  PROVE  MapTransactionStatus(t) \in Statuses
  BY DEF MapTransactionStatus, Statuses

(* The current status is the one the last transaction reports. *)
LEMMA CurrentReported ==
  ASSUME TypeOK, NEW o \in Orders
  PROVE  /\ history[o] \in Seq(Transactions) /\ Len(history[o]) \in Nat
         /\ Charged(o) <=> Len(history[o]) > 0
         /\ Charged(o) => Current(o) = Reported(o, Len(history[o]))
         /\ Charged(o) <=> Current(o) \in Statuses
         /\ ~Charged(o) <=> Current(o) = NoStatus
         /\ ~Charged(o) => Positions(o) = {}
         /\ \A i : Reported(o, i) \in Statuses
  <1>1. history[o] \in Seq(Transactions) /\ Len(history[o]) \in Nat
    BY LenProperties DEF TypeOK, OrdersTypeOK
  <1>2. Charged(o) <=> Len(history[o]) > 0
    BY <1>1, EmptySeq, LenProperties DEF Charged
  <1>3. \A i : Reported(o, i) \in Statuses
    BY StatusKnown DEF Reported
  <1>4. NoStatus \notin Statuses
    BY DEF NoStatus, Statuses
  <1>5. Charged(o) => Current(o) = Reported(o, Len(history[o]))
    BY DEF Current, Reported
  <1>6. ~Charged(o) => Current(o) = NoStatus
    BY DEF Current
  <1> QED
    BY <1>1, <1>2, <1>3, <1>4, <1>5, <1>6 DEF Positions

OrderStays(o) == history'[o] = history[o] /\ gross'[o] = gross[o]
OrderCharged(o) ==
    /\ ~Charged(o) /\ gross'[o] \in Amounts
    /\ \E t \in Transactions : MapTransactionStatus(t) = "pending" /\ history'[o] = <<t>>
OrderMoves(o, t) ==
    /\ Charged(o) /\ <<history[o][Len(history[o])], t>> \in Lifecycle
    /\ history'[o] = Append(history[o], t)
    /\ gross'[o] \in Amounts
    /\ gross'[o] # gross[o] => Current(o) # "paid" /\ MapTransactionStatus(t) = "paid"

(* A step leaves an order alone, charges it, or lets the provider move it. *)
LEMMA HistorySteps ==
  ASSUME TypeOK, [Next]_vars, NEW o \in Orders
  PROVE  OrderStays(o) \/ OrderCharged(o) \/ \E t \in Transactions : OrderMoves(o, t)
  <1>0. /\ DOMAIN history = Orders /\ DOMAIN gross = Orders
        /\ history = [x \in Orders |-> history[x]] /\ gross = [x \in Orders |-> gross[x]]
    BY DEF TypeOK, OrdersTypeOK
  <1>1. ASSUME UNCHANGED providerVars PROVE OrderStays(o)
    BY <1>1 DEF OrderStays, providerVars
  <1>2. ASSUME NEW r \in requests, Charge(r.order, r.amount)
        PROVE  OrderStays(o) \/ OrderCharged(o)
    <2>1. r.order \in Orders /\ r.amount \in Amounts
      BY DEF TypeOK
    <2>2. CASE r.order = o
      <3> DEFINE t == [tx |-> "pending", fraud |-> "accept"]
      <3>1. history'[o] = <<t>> /\ gross'[o] \in Amounts /\ ~Charged(o)
        BY <1>0, <1>2, <2>1, <2>2 DEF Charge
      <3>2. t \in Transactions
        BY DEF Transactions
      <3>3. MapTransactionStatus(t) = "pending"
        BY DEF MapTransactionStatus
      <3> QED
        BY <3>1, <3>2, <3>3 DEF OrderCharged
    <2>3. CASE r.order # o
      BY <1>0, <1>2, <2>1, <2>3 DEF Charge, OrderStays
    <2> QED
      BY <2>2, <2>3
  <1>3. ASSUME NEW x \in Orders, ProviderMoves(x)
        PROVE  OrderStays(o) \/ \E t \in Transactions : OrderMoves(o, t)
    <2>1. CASE x = o
      BY <1>0, <1>3, <2>1 DEF ProviderMoves, OrderMoves
    <2>2. CASE x # o
      BY <1>0, <1>3, <2>2 DEF ProviderMoves, OrderStays
    <2> QED
      BY <2>1, <2>2
  <1>4. CASE Next
    <2>1. CASE \E r \in requests : CreateOrder(r)
      BY <1>1, <1>2, <2>1 DEF CreateOrder, ChargeRefused
    <2>2. CASE Provider
      BY <1>3, <2>2 DEF Provider
    <2>3. CASE Api
      BY <1>1, <2>3 DEF Api, OrdersNext, WebhookDuplicate, WebhookEmits, WebhookThrows,
         Delivered, ApiRestarts, providerVars
    <2>4. CASE ~(\E r \in requests : CreateOrder(r)) /\ ~Provider /\ ~Api
      <3>1. UNCHANGED providerVars
        BY <1>4, <2>4 DEF Next, EditCart, OpenPanel, LeavePanel, Reload, HandleCreate,
           HandleReset, CreateAnswered, CreateFails, PollAsks, PollAnswered, PollFails,
           Finalize, FinalizeQrisSale, FinalizeFails, AfterFinalize
      <3> QED
        BY <1>1, <3>1
    <2> QED
      BY <2>1, <2>2, <2>3, <2>4
  <1>5. CASE UNCHANGED vars
    BY <1>1, <1>5 DEF vars
  <1> QED
    BY <1>4, <1>5

(* A paid order has a paid or given-back status last. *)
LEMMA PaidEnd ==
  ASSUME TypeOK, LifeInv, NEW o \in Orders, WasPaid(o)
  PROVE  Charged(o) /\ Current(o) \in {"paid", "cancelled"}
  <1>1. PICK i \in Positions(o) : Reported(o, i) = "paid"
    BY DEF WasPaid, Positions, Reported
  <1>2. Charged(o) /\ Len(history[o]) \in Positions(o) /\ Current(o) = Reported(o, Len(history[o]))
    BY <1>1, CurrentReported DEF Positions
  <1>3. i = Len(history[o]) \/ i < Len(history[o])
    BY <1>1, CurrentReported DEF Positions
  <1> QED
    BY <1>1, <1>2, <1>3 DEF LifeInv

LEMMA FinalStays ==
  ASSUME NEW o \in Orders, NEW t, OrderMoves(o, t)
  PROVE  /\ Current(o) \in {"pending", "paid"}
         /\ Current(o) = "paid" => MapTransactionStatus(t) \in {"paid", "cancelled"}
  BY LifecycleAssumption DEF OrderMoves, Current

(* What holds of the positions of an order goes on holding, and so do what a *)
(* paid order was paid with and a final status.                              *)
Grown(o) ==
    /\ Len(history[o]) <= Len(history'[o])
    /\ \A i \in Positions(o) : i \in Positions(o)' /\ Reported(o, i)' = Reported(o, i)
    /\ Charged(o) => Charged(o)'
    /\ WasPaid(o) => WasPaid(o)' /\ gross'[o] = gross[o]
    /\ Current(o) \in Final => Current(o)' \in Final

LEMMA OrdersGrow ==
  ASSUME TypeOK, LifeInv, [Next]_vars, NEW o \in Orders
  PROVE  Grown(o)
  <1>0. /\ history[o] \in Seq(Transactions) /\ Len(history[o]) \in Nat
        /\ Charged(o) <=> Len(history[o]) > 0
    BY CurrentReported
  <1>1. CASE OrderStays(o)
    BY <1>0, <1>1 DEF Grown, OrderStays, Positions, Reported, Charged, WasPaid, Current
  <1>2. CASE OrderCharged(o)
    <2>1. Len(history'[o]) = 1 /\ history'[o] # <<>>
      BY <1>2 DEF OrderCharged
    <2>2. Positions(o) = {} /\ Current(o) = NoStatus /\ ~WasPaid(o)
      BY <1>2, CurrentReported DEF OrderCharged, WasPaid, Positions
    <2>3. Len(history[o]) <= Len(history'[o])
      BY <1>0, <1>2, <2>1 DEF OrderCharged
    <2>4. Current(o) \notin Final
      BY <2>2 DEF Final, NoStatus
    <2>5. ~Charged(o)
      BY <1>2 DEF OrderCharged
    <2> QED
      BY <2>2, <2>3, <2>4, <2>5 DEF Grown
  <1>3. ASSUME NEW t \in Transactions, OrderMoves(o, t)
        PROVE  Grown(o)
    <2>1. /\ history'[o] \in Seq(Transactions) /\ Len(history'[o]) = Len(history[o]) + 1
          /\ \A i \in 1..Len(history[o]) : history'[o][i] = history[o][i]
      BY <1>0, <1>3, AppendProperties DEF OrderMoves
    <2>2. \A i \in Positions(o) : i \in Positions(o)' /\ Reported(o, i)' = Reported(o, i)
      BY <1>0, <2>1 DEF Positions, Reported
    <2>3. Charged(o)'
      BY <1>0, <2>1, EmptySeq DEF Charged
    <2>4. Current(o) \in {"pending", "paid"}
      BY <1>3, FinalStays
    <2>5. ASSUME WasPaid(o) PROVE WasPaid(o)' /\ gross'[o] = gross[o]
      <3>1. Current(o) = "paid"
        BY <2>4, <2>5, PaidEnd
      <3>2. WasPaid(o)'
        BY <1>0, <2>1, <2>5 DEF WasPaid
      <3> QED
        BY <1>3, <3>1, <3>2 DEF OrderMoves
    <2> QED
      BY <1>0, <2>1, <2>2, <2>3, <2>4, <2>5 DEF Grown, Final
  <1> QED
    BY <1>1, <1>2, <1>3, HistorySteps

LEMMA LifeNext ==
  ASSUME TypeOK, LifeInv, [Next]_vars
  PROVE  LifeInv'
  <1> SUFFICES ASSUME NEW o \in Orders, NEW i \in Positions(o)', NEW j \in Positions(o)', i < j
               PROVE  /\ Reported(o, i)' \notin Final
                      /\ Reported(o, i)' = "paid" => Reported(o, j)' \in {"paid", "cancelled"}
    BY DEF LifeInv
  <1>0. /\ history[o] \in Seq(Transactions) /\ Len(history[o]) \in Nat
        /\ Charged(o) <=> Len(history[o]) > 0
        /\ Charged(o) => Current(o) = Reported(o, Len(history[o]))
    BY CurrentReported
  <1>1. CASE OrderStays(o)
    BY <1>1 DEF OrderStays, Positions, Reported, LifeInv
  <1>2. CASE OrderCharged(o)
    <2>1. Len(history'[o]) = 1
      BY <1>2 DEF OrderCharged
    <2> QED
      BY <2>1 DEF Positions
  <1>3. ASSUME NEW t \in Transactions, OrderMoves(o, t)
        PROVE  /\ Reported(o, i)' \notin Final
               /\ Reported(o, i)' = "paid" => Reported(o, j)' \in {"paid", "cancelled"}
    <2>0. PICK n \in Nat : n = Len(history[o])
      BY <1>0
    <2>1. /\ Len(history'[o]) = n + 1 /\ history'[o][n + 1] = t
          /\ \A k \in 1..n : history'[o][k] = history[o][k]
      BY <1>0, <1>3, <2>0, AppendProperties DEF OrderMoves
    <2>2. /\ \A k \in 1..n : Reported(o, k)' = Reported(o, k)
          /\ Reported(o, n + 1)' = MapTransactionStatus(t)
      BY <2>1 DEF Reported
    <2>3. n > 0 /\ Reported(o, n) \in {"pending", "paid"}
          /\ (Reported(o, n) = "paid" => MapTransactionStatus(t) \in {"paid", "cancelled"})
      BY <1>0, <1>3, <2>0, FinalStays DEF OrderMoves
    <2>4. i \in 1..n /\ (j \in 1..n \/ j = n + 1)
      BY <2>0, <2>1, SMTT(30) DEF Positions
    <2>5. CASE j \in 1..n
      BY <2>0, <2>2, <2>4, <2>5 DEF LifeInv, Positions
    <2>6. CASE j = n + 1 /\ i = n
      BY <2>2, <2>3, <2>4, <2>6 DEF Final
    <2>7. CASE j = n + 1 /\ i < n
      <3>1. n \in Positions(o) /\ i \in Positions(o)
        BY <2>0, <2>3, <2>4 DEF Positions
      <3>2. /\ Reported(o, i) \notin Final
            /\ Reported(o, i) = "paid" => Reported(o, n) \in {"paid", "cancelled"}
        BY <2>7, <3>1 DEF LifeInv
      <3> QED
        BY <2>2, <2>3, <2>4, <2>7, <3>2
    <2> QED
      BY <2>4, <2>5, <2>6, <2>7
  <1> QED
    BY <1>1, <1>2, <1>3, HistorySteps

-----------------------------------------------------------------------------
(* Types *)

LEMMA InitTypes == Init => TypeOK
  <1> SUFFICES ASSUME Init PROVE TypeOK
    OBVIOUS
  <1>1. OrdersTypeOK
    BY EmptySeq DEF Init, OrdersInit, OrdersTypeOK
  <1>2. panel = Unmounted /\ poll = Unknown /\ tick = Unknown
    BY DEF Init, TillInit
  <1> QED
    BY <1>1, <1>2 DEF Init, TillInit, TypeOK, Unmounted, Unknown

(* The steps of the till and of the API leave each other's variables alone. *)
LEMMA StepsOfOrders ==
  ASSUME [Next]_vars
  PROVE  \/ UNCHANGED <<providerVars, apiVars>>
         \/ Provider
         \/ Api
         \/ \E r \in requests : CreateOrder(r) /\ Charge(r.order, r.amount)
  BY DEF Next, EditCart, OpenPanel, LeavePanel, Reload, HandleCreate, HandleReset,
     CreateOrder, ChargeRefused, CreateAnswered, CreateFails, PollAsks, PollAnswered,
     PollFails, Finalize, FinalizeQrisSale, FinalizeFails, AfterFinalize, vars

LEMMA OrdersTypes ==
  ASSUME TypeOK, [Next]_vars
  PROVE  OrdersTypeOK'
  <1> USE DEF OrdersTypeOK
  <1>0. OrdersTypeOK /\ MaxLate \in Nat /\ MaxFaults \in Nat
    BY BoundsAssumption DEF TypeOK
  <1>1. CASE UNCHANGED <<providerVars, apiVars>>
    BY <1>0, <1>1 DEF providerVars, apiVars
  <1>2. ASSUME NEW r \in requests, Charge(r.order, r.amount)
        PROVE  OrdersTypeOK'
    <2> DEFINE t == [tx |-> "pending", fraud |-> "accept"]
    <2>1. r.order \in Orders /\ r.amount \in Amounts
      BY DEF TypeOK
    <2>2. <<t>> \in Seq(Transactions)
      BY DEF Transactions
    <2>3. history' = [history EXCEPT ![r.order] = <<t>>]
      BY <1>2 DEF Charge
    <2>4. history' \in [Orders -> Seq(Transactions)]
      BY <1>0, <2>1, <2>2, <2>3
    <2>5. gross' \in [Orders -> Amounts \union {0}]
      BY <1>0, <1>2, <2>1 DEF Charge
    <2> QED
      BY <1>0, <1>2, <2>4, <2>5 DEF Charge, apiVars
  <1>3. CASE Provider
    <2>1. PICK o \in Orders : ProviderMoves(o)
      BY <1>3 DEF Provider
    <2>2. PICK t \in Transactions : history' = [history EXCEPT ![o] = Append(@, t)]
      BY <2>1 DEF ProviderMoves
    <2>3. Append(history[o], t) \in Seq(Transactions)
      BY <1>0, <2>2, AppendProperties
    <2>4. history' \in [Orders -> Seq(Transactions)]
      BY <1>0, <2>2, <2>3
    <2>5. gross' \in [Orders -> Amounts \union {0}]
      BY <1>0, <2>1 DEF ProviderMoves
    <2> QED
      BY <1>0, <2>1, <2>4, <2>5 DEF ProviderMoves, apiVars
  <1>4. ASSUME NEW o \in Orders, NEW i \in 1..Len(history[o]),
               WebhookDuplicate(o, i) \/ WebhookEmits(o, i) \/ WebhookThrows(o, i)
        PROVE  OrdersTypeOK'
    <2>0. i \in Nat /\ Reported(o, i) \in Statuses
      BY <1>0, StatusKnown DEF Reported
    <2>1. /\ UNCHANGED <<history, gross>> /\ late' \in Nat
          /\ newest' \in [Orders -> Nat] /\ disturbed' \subseteq Orders
      <3>1. Delivered(o, i) /\ disturbed' \in {disturbed, disturbed \union {o}}
        BY <1>4 DEF WebhookDuplicate, WebhookEmits, WebhookThrows, Disturbs
      <3> QED
        BY <1>0, <2>0, <3>1 DEF Delivered, providerVars
    <2>2. acked' \subseteq Orders \X Nat /\ faults' \in Nat
      BY <1>0, <1>4, <2>0 DEF WebhookDuplicate, WebhookEmits, WebhookThrows
    <2>3. CASE WebhookDuplicate(o, i)
      BY <1>0, <2>1, <2>2, <2>3 DEF WebhookDuplicate
    <2>4. CASE WebhookEmits(o, i)
      <3>1. dedupe' \in [Orders -> Statuses \union {NoStatus}]
        BY <1>0, <2>0, <2>4 DEF WebhookEmits, DedupeRecord
      <3>2. heard' \in [Orders -> SUBSET Statuses]
        BY <1>0, <2>0, <2>4 DEF WebhookEmits
      <3>3. paidEmits' \in [Orders -> Nat]
        BY <1>0, <2>4 DEF WebhookEmits
      <3> QED
        BY <1>0, <2>1, <2>2, <3>1, <3>2, <3>3
    <2>5. CASE WebhookThrows(o, i)
      <3>1. paidEmits' \in [Orders -> Nat]
        BY <1>0, <2>5 DEF WebhookThrows
      <3> QED
        BY <1>0, <2>1, <2>2, <2>5, <3>1 DEF WebhookThrows
    <2> QED
      BY <1>4, <2>3, <2>4, <2>5
  <1>5. CASE ApiRestarts
    BY <1>0, <1>5 DEF ApiRestarts
  <1> QED
    BY <1>1, <1>2, <1>3, <1>4, <1>5, StepsOfOrders DEF Api, OrdersNext

(* Showing another step of the panel clears what the poll knew. *)
LEMMA ShowTypes ==
  ASSUME NEW step \in {"unmounted", "idle", "creating", "waiting", "finalizing", "error"},
         NEW o \in Orders \union {NoOrder}, Show(Panel(step, o))
  PROVE  /\ panel' \in [step : {"unmounted", "idle", "creating", "waiting", "finalizing",
                                "error"}, order : Orders \union {NoOrder}]
         /\ {poll', tick'} \subseteq [status : Statuses \union {NoStatus},
                                      gross : Amounts \union {0}]
         /\ panel'.step = step /\ panel'.order = o /\ poll' = Unknown /\ tick' = Unknown
  BY DEF Show, Panel, Unknown

LEMMA NamedPanels ==
  Idle = Panel("idle", NoOrder) /\ Unmounted = Panel("unmounted", NoOrder)
  BY DEF Idle, Unmounted, Panel

(* What a finalisation begins with: a mounted panel and the amount it heard. *)
LEMMA FinalizeHeard ==
  ASSUME TypeOK, PanelInv, PollInv, Finalize
  PROVE  /\ panel.order \in Orders /\ WasPaid(panel.order) /\ Charged(panel.order)
         /\ cart = gross[panel.order] /\ cart \in Amounts
  <1>1. panel.step = "waiting" /\ poll.status = "paid" /\ poll.gross = cart
    BY DEF Finalize, AmountMatches
  <1>2. poll # Unknown
    BY <1>1 DEF Unknown, NoStatus
  <1>3. panel.order \in Orders /\ WasPaid(panel.order) /\ cart = gross[panel.order]
    BY <1>1, <1>2 DEF PollInv, HeardRight, PanelInv
  <1>4. Charged(panel.order) /\ gross[panel.order] # 0
    BY <1>1, <1>3 DEF PanelInv
  <1>5. gross[panel.order] \in Amounts
    BY <1>3, <1>4 DEF TypeOK, OrdersTypeOK
  <1> QED
    BY <1>3, <1>4, <1>5

LEMMA TillTypes ==
  ASSUME TypeOK, PanelInv, PollInv, [Next]_vars
  PROVE  TypeOK'
  <1>0. OrdersTypeOK'
    BY OrdersTypes
  <1> USE <1>0 DEF TypeOK
  <1>1. CASE UNCHANGED tillVars
    BY <1>1 DEF tillVars
  <1>2. CASE EditCart
    BY <1>2 DEF EditCart
  <1>3. CASE OpenPanel \/ LeavePanel
    BY <1>3, ShowTypes, NamedPanels DEF OpenPanel, LeavePanel
  <1>4. CASE Reload
    BY <1>4, ShowTypes, NamedPanels DEF Reload
  <1>5. ASSUME NEW o \in Orders, HandleCreate(o) PROVE TypeOK'
    <2>1. Show(Panel("creating", o)) /\ cart \in Amounts
      BY <1>5 DEF HandleCreate, MayCreate
    <2>2. /\ requests' = requests \union {[order |-> o, amount |-> cart]}
          /\ minted' = minted \union {o}
          /\ UNCHANGED <<cart, shown, abandoned, saving, sales, decrements>>
      BY <1>5 DEF HandleCreate
    <2> QED
      BY <2>1, <2>2, ShowTypes
  <1>6. CASE HandleReset
    <2>1. panel.step = "waiting" /\ panel.order \in Orders
      BY <1>6 DEF HandleReset, RetryOffered, PanelInv
    <2> QED
      BY <1>6, <2>1, ShowTypes, NamedPanels DEF HandleReset
  <1>7. ASSUME NEW r \in requests, CreateOrder(r) PROVE TypeOK'
    BY <1>7 DEF CreateOrder
  <1>8. CASE CreateAnswered
    <2>1. panel.order \in Orders
      BY <1>8 DEF CreateAnswered, PanelInv
    <2> QED
      BY <1>8, <2>1, ShowTypes DEF CreateAnswered
  <1>9. CASE CreateFails
    BY <1>9, ShowTypes DEF CreateFails
  <1>10. CASE PollAsks
    <2>1. panel.order \in Orders
      BY <1>10 DEF PollAsks, PanelInv
    <2>2. Current(panel.order) \in Statuses \union {NoStatus}
      BY <2>1, CurrentReported
    <2>3. gross[panel.order] \in Amounts \union {0}
      BY <2>1 DEF OrdersTypeOK
    <2> QED
      BY <1>10, <2>2, <2>3 DEF PollAsks, GetStatus
  <1>11. CASE PollAnswered \/ PollFails
    <2>1. Unknown \in [status : Statuses \union {NoStatus}, gross : Amounts \union {0}]
      BY DEF Unknown
    <2> QED
      BY <1>11, <2>1 DEF PollAnswered, PollFails
  <1>12. CASE Finalize
    BY <1>12, FinalizeHeard, ShowTypes DEF Finalize
  <1>13. ASSUME NEW f \in saving, FinalizeQrisSale(f) PROVE TypeOK'
    <2>1. /\ f.order \in Orders /\ f.amount \in Amounts
          /\ [f EXCEPT !.stage = "saved"] \in
                [order : Orders, amount : Amounts, stage : {"saving", "saved"}]
      OBVIOUS
    <2>2. saving' \subseteq [order : Orders, amount : Amounts, stage : {"saving", "saved"}]
      BY <1>13, <2>1 DEF FinalizeQrisSale
    <2>3. sales' \in [Orders -> Amounts \union {0}] /\ decrements' \in [Orders -> Nat]
      BY <1>13, <2>1 DEF FinalizeQrisSale
    <2> QED
      BY <1>13, <2>2, <2>3 DEF FinalizeQrisSale
  <1>14. ASSUME NEW f \in saving, FinalizeFails(f) \/ AfterFinalize(f) PROVE TypeOK'
    <2>1. f.order \in Orders
      OBVIOUS
    <2>2. BackToWaiting(f.order) \/ Show(Unmounted)
      BY <1>14 DEF FinalizeFails, AfterFinalize
    <2>3. /\ panel' \in [step : {"unmounted", "idle", "creating", "waiting", "finalizing",
                                 "error"}, order : Orders \union {NoOrder}]
          /\ {poll', tick'} \subseteq [status : Statuses \union {NoStatus},
                                       gross : Amounts \union {0}]
      BY <2>1, <2>2, ShowTypes, NamedPanels DEF BackToWaiting
    <2> QED
      BY <1>14, <2>3 DEF FinalizeFails, AfterFinalize
  <1> QED
    BY <1>1, <1>2, <1>3, <1>4, <1>5, <1>6, <1>7, <1>8, <1>9, <1>10, <1>11, <1>12,
       <1>13, <1>14 DEF Next, Provider, Api, vars

-----------------------------------------------------------------------------
(* The panel and what it heard *)

(* The panel keeps its charged order, takes a new one, or has none; and what *)
(* it heard is forgotten, kept, or asked of the order it goes on waiting for. *)
LEMMA PanelSteps ==
  ASSUME TypeOK, PanelInv, PollInv, [Next]_vars
  PROVE  /\ \/ panel' = panel
            \/ panel'.step \in {"unmounted", "idle", "error"}
            \/ panel'.step = "creating" /\ panel'.order \in Orders
            \/ panel'.order = panel.order /\ panel.order \in Orders /\ Charged(panel.order)
         /\ \/ poll' = Unknown /\ tick' = Unknown
            \/ panel' = panel /\ {poll', tick'} \subseteq {poll, tick, Unknown}
            \/ PollAsks
  <1>1. CASE UNCHANGED <<panel, poll, tick>>
    BY <1>1
  <1>2. CASE OpenPanel \/ LeavePanel \/ Reload \/ HandleReset \/ CreateFails
    BY <1>2, ShowTypes, NamedPanels
       DEF OpenPanel, LeavePanel, Reload, HandleReset, CreateFails
  <1>3. ASSUME NEW o \in Orders, HandleCreate(o) PROVE Show(Panel("creating", o))
    BY <1>3 DEF HandleCreate
  <1>4. CASE CreateAnswered
    <2>1. panel.order \in Orders /\ Charged(panel.order) /\ Show(Panel("waiting", panel.order))
      BY <1>4 DEF CreateAnswered, PanelInv
    <2> QED
      BY <2>1, ShowTypes
  <1>5. CASE PollAsks
    BY <1>5 DEF PollAsks
  <1>6. CASE PollAnswered \/ PollFails
    BY <1>6 DEF PollAnswered, PollFails
  <1>7. CASE Finalize
    <2>1. Show(Panel("finalizing", panel.order))
      BY <1>7 DEF Finalize
    <2> QED
      BY <1>7, <2>1, FinalizeHeard, ShowTypes
  <1>8. ASSUME NEW f \in saving, FinalizeFails(f) \/ AfterFinalize(f)
        PROVE  \/ UNCHANGED <<panel, poll, tick>>
               \/ Show(Unmounted)
               \/ /\ Show(Panel("waiting", f.order)) /\ f.order = panel.order
                  /\ panel.order \in Orders /\ Charged(panel.order)
    <2>1. f.order \in Orders
      BY DEF TypeOK
    <2>2. BackToWaiting(f.order) \/ Show(Unmounted)
      BY <1>8 DEF FinalizeFails, AfterFinalize
    <2>3. panel = Panel("finalizing", f.order) => f.order = panel.order /\ Charged(panel.order)
      BY DEF Panel, PanelInv
    <2> QED
      BY <2>1, <2>2, <2>3 DEF BackToWaiting
  <1>9. CASE \E f \in saving : FinalizeFails(f) \/ AfterFinalize(f)
    BY <1>8, <1>9, ShowTypes, NamedPanels
  <1>10. CASE \E o \in Orders : HandleCreate(o)
    BY <1>3, <1>10, ShowTypes
  <1>11. CASE \/ EditCart \/ Provider \/ Api \/ UNCHANGED vars
              \/ \E r \in requests : CreateOrder(r)
              \/ \E f \in saving : FinalizeQrisSale(f)
    BY <1>1, <1>11 DEF EditCart, Provider, Api, CreateOrder, FinalizeQrisSale, vars, tillVars
  <1> QED
    BY <1>2, <1>4, <1>5, <1>6, <1>7, <1>9, <1>10, <1>11 DEF Next

LEMMA PanelNext ==
  ASSUME TypeOK, PanelInv, LifeInv, PollInv, [Next]_vars
  PROVE  PanelInv'
  <1>1. ASSUME NEW o \in Orders
        PROVE  Charged(o)' <=> gross'[o] # 0
    <2>1. CASE OrderStays(o)
      BY <2>1 DEF OrderStays, PanelInv, Charged
    <2>2. CASE OrderCharged(o)
      BY <2>2, BoundsAssumption DEF OrderCharged, Charged
    <2>3. CASE \E t \in Transactions : OrderMoves(o, t)
      BY <2>3, OrdersGrow, BoundsAssumption DEF OrderMoves, Grown
    <2> QED
      BY <2>1, <2>2, <2>3, HistorySteps
  <1>2. \A o \in Orders : Charged(o) => Charged(o)'
    BY OrdersGrow DEF Grown
  <1>3. panel'.step \in {"creating", "waiting", "finalizing"} => panel'.order \in Orders
    BY PanelSteps DEF PanelInv
  <1>4. panel'.step \in {"waiting", "finalizing"} => Charged(panel.order) /\ panel'.order = panel.order
    BY PanelSteps DEF PanelInv
  <1>5. panel'.step \in {"waiting", "finalizing"} => Charged(panel.order)' /\ panel'.order = panel.order
    BY <1>2, <1>3, <1>4
  <1>6. panel'.step \in {"waiting", "finalizing"} => Charged(panel.order)'
    BY <1>5
  <1> QED
    BY <1>1, <1>3, <1>5 DEF PanelInv, Charged

(* What was heard right goes on being right of a panel that stays. *)
LEMMA HeardStays ==
  ASSUME TypeOK, PanelInv, LifeInv, [Next]_vars, panel' = panel, NEW p, HeardRight(p)
  PROVE  HeardRight(p)'
  <1> SUFFICES ASSUME p # Unknown PROVE HeardRight(p)'
    BY DEF HeardRight, Unknown
  <1>1. PICK o \in Orders : o = panel.order
    BY DEF HeardRight, PanelInv
  <1>2. Grown(o)
    BY OrdersGrow
  <1>3. panel'.order = o /\ panel'.step = "waiting"
    BY <1>1 DEF HeardRight
  <1>4. p.status = "paid" => WasPaid(o)' /\ p.gross = gross'[o]
    BY <1>1, <1>2 DEF HeardRight, Grown
  <1>5. p.status \in Final => Current(o)' \in Final
    BY <1>1, <1>2 DEF HeardRight, Grown
  <1> QED
    BY <1>3, <1>4, <1>5 DEF WasPaid, Current, Charged, HeardRight

LEMMA PollNext ==
  ASSUME TypeOK, PanelInv, LifeInv, PollInv, [Next]_vars
  PROVE  PollInv'
  <1> SUFFICES ASSUME NEW p, p \in {poll', tick'} PROVE HeardRight(p)'
    BY DEF PollInv, HeardRight
  <1>0. HeardRight(poll) /\ HeardRight(tick) /\ HeardRight(Unknown)
    BY DEF PollInv, HeardRight
  <1>1. CASE p = Unknown
    BY <1>1 DEF HeardRight, Unknown
  <1>2. CASE panel' = panel /\ p \in {poll, tick}
    <2>1. HeardRight(p)
      BY <1>0, <1>2
    <2> QED
      BY <1>2, <2>1, HeardStays
  <1>3. CASE PollAsks
    <2>1. PICK o \in Orders : o = panel.order
      BY <1>3 DEF PollAsks, PanelInv
    <2>2. panel' = panel /\ p \in {poll, GetStatus(o)}
      BY <1>3, <2>1 DEF PollAsks
    <2>3. Current(o) = "paid" => WasPaid(o)
      BY CurrentReported DEF WasPaid, Reported, NoStatus
    <2>4. HeardRight(GetStatus(o))
      BY <1>3, <2>1, <2>3 DEF HeardRight, GetStatus, PollAsks
    <2>5. HeardRight(p)
      BY <1>0, <2>2, <2>4
    <2> QED
      BY <2>2, <2>5, HeardStays
  <1> QED
    BY <1>1, <1>2, <1>3, PanelSteps

-----------------------------------------------------------------------------
(* Sales and abandoned orders *)

LEMMA SavingSteps ==
  ASSUME TypeOK, PanelInv, PollInv, [Next]_vars, NEW g \in saving'
  PROVE  \/ \E f \in saving : g.order = f.order /\ g.amount = f.amount
         \/ g.order \in Orders /\ WasPaid(g.order) /\ g.amount = gross[g.order]
  <1>1. CASE saving' \subseteq saving
    BY <1>1
  <1>2. CASE Finalize
    <2>1. PICK o \in Orders : o = panel.order
      BY <1>2, FinalizeHeard
    <2>2. g \in saving \/ g = [order |-> o, amount |-> cart, stage |-> "saving"]
      BY <1>2, <2>1 DEF Finalize
    <2>3. WasPaid(o) /\ cart = gross[o]
      BY <1>2, <2>1, FinalizeHeard
    <2> QED
      BY <2>2, <2>3
  <1>3. ASSUME NEW f \in saving, FinalizeQrisSale(f)
        PROVE  \E x \in saving : g.order = x.order /\ g.amount = x.amount
    <2>1. g \in saving \/ g = [f EXCEPT !.stage = "saved"]
      BY <1>3 DEF FinalizeQrisSale
    <2>2. [f EXCEPT !.stage = "saved"].order = f.order /\ [f EXCEPT !.stage = "saved"].amount = f.amount
      BY DEF TypeOK
    <2> QED
      BY <2>1, <2>2
  <1>4. CASE ~Finalize /\ ~(\E f \in saving : FinalizeQrisSale(f))
    <2>1. saving' \subseteq saving
      BY <1>4 DEF Next, EditCart, OpenPanel, LeavePanel, Reload, HandleCreate, HandleReset,
         CreateOrder, CreateAnswered, CreateFails, PollAsks, PollAnswered, PollFails,
         FinalizeFails, AfterFinalize, Provider, Api, tillVars, vars
    <2> QED
      BY <1>1, <2>1
  <1> QED
    BY <1>2, <1>3, <1>4

LEMMA SavingNext ==
  ASSUME TypeOK, LifeInv, PanelInv, PollInv, SavingInv, [Next]_vars
  PROVE  SavingInv'
  <1> SUFFICES ASSUME NEW g \in saving'
               PROVE  WasPaid(g.order)' /\ g.amount = gross'[g.order]
    BY DEF SavingInv
  <1>1. g.order \in Orders /\ WasPaid(g.order) /\ g.amount = gross[g.order]
    <2>1. \/ \E f \in saving : g.order = f.order /\ g.amount = f.amount
          \/ g.order \in Orders /\ WasPaid(g.order) /\ g.amount = gross[g.order]
      BY SavingSteps
    <2>2. ASSUME NEW f \in saving
          PROVE  f.order \in Orders /\ WasPaid(f.order) /\ f.amount = gross[f.order]
      BY DEF SavingInv, TypeOK
    <2> QED
      BY <2>1, <2>2
  <1>2. Grown(g.order)
    BY <1>1, OrdersGrow
  <1> QED
    BY <1>1, <1>2 DEF Grown

(* Only the write of a finalisation changes the sale of an order. *)
LEMMA SaleSteps ==
  ASSUME TypeOK, [Next]_vars, NEW o \in Orders
  PROVE  \/ sales'[o] = sales[o]
         \/ \E f \in saving : f.order = o /\ sales'[o] = f.amount
  <1>1. ASSUME NEW f \in saving, FinalizeQrisSale(f)
        PROVE  sales'[o] = sales[o] \/ (f.order = o /\ sales'[o] = f.amount)
    BY <1>1 DEF FinalizeQrisSale, TypeOK
  <1>2. CASE ~(\E f \in saving : FinalizeQrisSale(f))
    BY <1>2 DEF Next, EditCart, OpenPanel, LeavePanel, Reload, HandleCreate, HandleReset,
       CreateOrder, CreateAnswered, CreateFails, PollAsks, PollAnswered, PollFails,
       Finalize, FinalizeFails, AfterFinalize, Provider, Api, tillVars, vars
  <1> QED
    BY <1>1, <1>2

LEMMA SaleBackedNext ==
  ASSUME TypeOK, LifeInv, SavingInv, SaleBacked, [Next]_vars
  PROVE  SaleBacked'
  <1> SUFFICES ASSUME NEW o \in Orders, sales'[o] # 0
               PROVE  WasPaid(o)' /\ sales'[o] = gross'[o]
    BY DEF SaleBacked
  <1>1. Grown(o)
    BY OrdersGrow
  <1>2. WasPaid(o) /\ sales'[o] = gross[o]
    BY SaleSteps DEF SaleBacked, SavingInv
  <1> QED
    BY <1>1, <1>2 DEF Grown

LEMMA AbandonedNext ==
  ASSUME TypeOK, LifeInv, PanelInv, PollInv, AbandonedInv, [Next]_vars
  PROVE  AbandonedInv'
  <1> SUFFICES ASSUME NEW o \in abandoned' PROVE Current(o)' \in Final
    BY DEF AbandonedInv
  <1>1. abandoned' = abandoned \/ (HandleReset /\ abandoned' = abandoned \union {panel.order})
    BY DEF Next, EditCart, OpenPanel, LeavePanel, Reload, HandleCreate, HandleReset,
       CreateOrder, CreateAnswered, CreateFails, PollAsks, PollAnswered, PollFails,
       Finalize, FinalizeQrisSale, FinalizeFails, AfterFinalize, Provider, Api,
       tillVars, vars
  <1>2. o \in Orders /\ Current(o) \in Final
    <2>1. CASE o \in abandoned
      BY <2>1 DEF AbandonedInv, TypeOK
    <2>2. CASE o \notin abandoned
      <3>1. HandleReset /\ o = panel.order
        BY <1>1, <2>2
      <3>2. panel.step = "waiting" /\ poll.status \in Final /\ poll # Unknown
        BY <3>1 DEF HandleReset, RetryOffered, Final, Unknown, NoStatus
      <3> QED
        BY <3>1, <3>2 DEF PollInv, HeardRight, PanelInv
    <2> QED
      BY <2>1, <2>2
  <1>3. Grown(o)
    BY <1>2, OrdersGrow
  <1> QED
    BY <1>2, <1>3 DEF Grown

-----------------------------------------------------------------------------
(* The webhook *)

(* A step that is not the API's leaves what the webhook keeps alone. *)
LEMMA StepsOfApi ==
  ASSUME [Next]_vars
  PROVE  UNCHANGED apiVars \/ (Api /\ UNCHANGED providerVars)
  BY StepsOfOrders, ZenonT(30) DEF Provider, ProviderMoves, Charge, Api, OrdersNext, WebhookDuplicate,
     WebhookEmits, WebhookThrows, Delivered, ApiRestarts, providerVars

LEMMA AckedNext ==
  ASSUME TypeOK, LifeInv, AckedInv, AckMeansHeard, [Next]_vars
  PROVE  AckedInv' /\ AckMeansHeard'
  <1>0. /\ acked \subseteq Orders \X Nat /\ heard \in [Orders -> SUBSET Statuses]
        /\ dedupe \in [Orders -> Statuses \union {NoStatus}]
    BY DEF TypeOK, OrdersTypeOK
  <1>1. CASE UNCHANGED apiVars
    <2>1. dedupe' = dedupe /\ acked' = acked /\ heard' = heard
      BY <1>1 DEF apiVars
    <2>2. ASSUME NEW n \in acked'
          PROVE  n[2] \in Positions(n[1])' /\ Reported(n[1], n[2])' \in heard'[n[1]]
      <3>1. n[1] \in Orders /\ n[2] \in Positions(n[1]) /\ Reported(n[1], n[2]) \in heard[n[1]]
        BY <1>0, <2>1 DEF AckedInv, AckMeansHeard
      <3>2. Grown(n[1])
        BY <3>1, OrdersGrow
      <3> QED
        BY <2>1, <3>1, <3>2 DEF Grown
    <2> QED
      BY <2>1, <2>2 DEF AckedInv, AckMeansHeard
  <1>2. ASSUME NEW o \in Orders, NEW i \in Positions(o), Delivered(o, i),
               WebhookDuplicate(o, i) \/ WebhookEmits(o, i) \/ WebhookThrows(o, i)
        PROVE  AckedInv' /\ AckMeansHeard'
    <2>0. UNCHANGED <<history, gross>> /\ Reported(o, i) \in Statuses
      BY <1>2, StatusKnown DEF Delivered, providerVars, Reported
    <2>1. /\ \A x \in Orders : heard[x] \subseteq heard'[x]
          /\ acked' \subseteq acked \union {<<o, i>>}
          /\ <<o, i>> \in acked' => <<o, i>> \in acked \/ Reported(o, i) \in heard'[o]
          /\ \A x \in Orders : dedupe'[x] # NoStatus => dedupe'[x] \in heard'[x]
      <3>1. CASE WebhookDuplicate(o, i)
        <4>1. dedupe' = dedupe /\ heard' = heard /\ acked' = acked \union {<<o, i>>}
          BY <3>1 DEF WebhookDuplicate
        <4>2. dedupe[o] = Reported(o, i) /\ dedupe[o] # NoStatus
          BY <2>0, <3>1 DEF WebhookDuplicate, DedupeCheck, NoStatus, Statuses
        <4> QED
          BY <4>1, <4>2 DEF AckedInv
      <3>2. CASE WebhookEmits(o, i)
        BY <1>0, <2>0, <3>2 DEF WebhookEmits, DedupeRecord, AckedInv
      <3>3. CASE WebhookThrows(o, i)
        BY <3>3 DEF WebhookThrows, AckedInv
      <3> QED
        BY <1>2, <3>1, <3>2, <3>3
    <2>2. \A n \in acked' : n[2] \in Positions(n[1])
      BY <1>2, <2>1 DEF AckedInv
    <2>3. \A n \in acked' : Reported(n[1], n[2]) \in heard'[n[1]]
      <3> SUFFICES ASSUME NEW n \in acked' PROVE Reported(n[1], n[2]) \in heard'[n[1]]
        OBVIOUS
      <3>1. CASE n \in acked
        BY <1>0, <2>1, <3>1 DEF AckMeansHeard
      <3>2. CASE n \notin acked
        <4>1. n = <<o, i>>
          BY <2>1, <3>2
        <4> QED
          BY <2>1, <3>2, <4>1
      <3> QED
        BY <3>1, <3>2
    <2> QED
      BY <2>0, <2>1, <2>2, <2>3 DEF AckedInv, AckMeansHeard, Positions, Reported
  <1>3. CASE ApiRestarts
    BY <1>0, <1>3 DEF ApiRestarts, AckedInv, AckMeansHeard, Positions, Reported
  <1> QED
    BY <1>1, <1>2, <1>3, StepsOfApi DEF Api, OrdersNext, WebhookDuplicate, WebhookEmits,
       WebhookThrows, Positions

(* What was emitted before a delivery of a position not older than the       *)
(* newest one, and what the store says of it.                                *)
LEMMA StoreNext ==
  ASSUME TypeOK, LifeInv, StoreInv, [Next]_vars
  PROVE  StoreInv'
  <1>0. /\ newest \in [Orders -> Nat] /\ paidEmits \in [Orders -> Nat]
        /\ dedupe \in [Orders -> Statuses \union {NoStatus}]
    BY DEF TypeOK, OrdersTypeOK
  <1>1. CASE UNCHANGED apiVars
    <2> SUFFICES ASSUME NEW x \in Orders
                 PROVE  /\ newest[x] <= Len(history'[x])
                        /\ x \notin disturbed =>
                              /\ dedupe[x] # NoStatus =>
                                    \E k \in 1..newest[x] : Reported(x, k)' = dedupe[x]
                              /\ paidEmits[x] = 0 \/ (paidEmits[x] = 1 /\ dedupe[x] \in {"paid", "cancelled"})
      BY <1>1 DEF StoreInv, apiVars
    <2>1. /\ Grown(x) /\ newest[x] \in Nat /\ newest[x] <= Len(history[x])
          /\ history[x] \in Seq(Transactions) /\ Len(history[x]) \in Nat
      BY <1>0, OrdersGrow, CurrentReported DEF StoreInv
    <2>2. \A k \in 1..newest[x] : Reported(x, k)' = Reported(x, k)
      BY <2>1 DEF Grown, Positions
    <2>3. newest[x] <= Len(history'[x])
      BY <2>1, OrdersTypes, LenProperties DEF Grown, OrdersTypeOK
    <2> QED
      BY <2>2, <2>3 DEF StoreInv
  <1>2. ASSUME NEW o \in Orders, NEW i \in Positions(o), Delivered(o, i),
               WebhookDuplicate(o, i) \/ WebhookEmits(o, i) \/ WebhookThrows(o, i)
        PROVE  StoreInv'
    <2>0. /\ UNCHANGED <<history, gross>> /\ Reported(o, i) \in Statuses
          /\ i \in Nat /\ i > 0 /\ i <= Len(history[o]) /\ Len(history[o]) \in Nat
      BY <1>2, CurrentReported DEF Delivered, providerVars, Positions
    <2>1. /\ newest'[o] = IF i > newest[o] THEN i ELSE newest[o]
          /\ \A x \in Orders : x # o => newest'[x] = newest[x]
      BY <1>0, <1>2 DEF Delivered
    <2>2. ASSUME NEW x \in Orders, x # o
          PROVE  dedupe'[x] = dedupe[x] /\ paidEmits'[x] = paidEmits[x]
                 /\ (x \in disturbed' <=> x \in disturbed)
      BY <1>0, <1>2, <2>2 DEF WebhookDuplicate, WebhookEmits, WebhookThrows, Disturbs, DedupeRecord
    <2>3. newest'[o] \in Nat /\ newest'[o] <= Len(history[o]) /\ newest[o] <= newest'[o]
          /\ i <= newest'[o]
      BY <1>0, <2>0, <2>1 DEF StoreInv
    <2>4. ASSUME o \notin disturbed'
          PROVE  /\ dedupe'[o] # NoStatus =>
                       \E k \in 1..newest'[o] : Reported(o, k) = dedupe'[o]
                 /\ paidEmits'[o] = 0 \/ (paidEmits'[o] = 1 /\ dedupe'[o] \in {"paid", "cancelled"})
      <3>1. o \notin disturbed /\ i >= newest[o]
        BY <1>0, <1>2, <2>0, <2>4 DEF WebhookDuplicate, WebhookEmits, WebhookThrows, Disturbs
      <3>2. CASE dedupe'[o] = dedupe[o] /\ paidEmits'[o] = paidEmits[o]
        <4>1. 1..newest[o] \subseteq 1..newest'[o]
          BY <1>0, <2>3
        <4> QED
          BY <3>1, <3>2, <4>1 DEF StoreInv
      <3>3. CASE WebhookEmits(o, i)
        <4>1. /\ dedupe'[o] = Reported(o, i) /\ dedupe[o] # Reported(o, i)
              /\ paidEmits'[o] = paidEmits[o] + IF Reported(o, i) = "paid" THEN 1 ELSE 0
          BY <1>0, <3>3 DEF WebhookEmits, DedupeRecord, DedupeCheck
        <4>2. i \in 1..newest'[o]
          BY <2>0, <2>3
        <4>3. ASSUME paidEmits[o] # 0
              PROVE  paidEmits[o] = 1 /\ Reported(o, i) = "cancelled"
          <5>1. paidEmits[o] = 1 /\ dedupe[o] \in {"paid", "cancelled"}
            BY <3>1, <4>3 DEF StoreInv
          <5>2. PICK k \in 1..newest[o] : Reported(o, k) = dedupe[o]
            BY <3>1, <5>1 DEF StoreInv, NoStatus
          <5>3. k \in Positions(o) /\ k < i
            BY <1>0, <2>0, <3>1, <4>1, <5>2 DEF StoreInv, Positions
          <5>4. Reported(o, k) \notin Final /\ (Reported(o, k) = "paid" =>
                   Reported(o, i) \in {"paid", "cancelled"})
            BY <1>2, <5>3 DEF LifeInv
          <5> QED
            BY <4>1, <5>1, <5>2, <5>4 DEF Final
        <4> QED
          BY <1>0, <4>1, <4>2, <4>3
      <3>4. CASE WebhookDuplicate(o, i)
        BY <3>2, <3>4 DEF WebhookDuplicate
      <3>5. CASE WebhookThrows(o, i)
        <4>1. dedupe' = dedupe
          BY <3>5 DEF WebhookThrows
        <4>2. paidEmits'[o] = paidEmits[o]
          BY <1>0, <2>4, <3>5 DEF WebhookThrows, Disturbs
        <4> QED
          BY <3>2, <4>1, <4>2
      <3> QED
        BY <1>2, <3>3, <3>4, <3>5
    <2>5. ASSUME NEW x \in Orders
          PROVE  /\ newest'[x] <= Len(history[x])
                 /\ x \notin disturbed' =>
                      /\ dedupe'[x] # NoStatus =>
                            \E k \in 1..newest'[x] : Reported(x, k) = dedupe'[x]
                      /\ paidEmits'[x] = 0 \/ (paidEmits'[x] = 1 /\ dedupe'[x] \in {"paid", "cancelled"})
      BY <2>1, <2>2, <2>3, <2>4 DEF StoreInv
    <2> QED
      BY <2>0, <2>5 DEF StoreInv, Reported
  <1>3. CASE ApiRestarts
    <2>1. /\ UNCHANGED <<history, newest, paidEmits>> /\ dedupe' = [o \in Orders |-> NoStatus]
          /\ disturbed' = {o \in Orders : Charged(o)} \union disturbed
      BY <1>3 DEF ApiRestarts
    <2>2. ASSUME NEW x \in Orders, x \notin disturbed'
          PROVE  paidEmits[x] = 0
      <3>1. x \notin disturbed /\ ~Charged(x)
        BY <2>1, <2>2
      <3>2. newest[x] = 0
        BY <1>0, <3>1, CurrentReported DEF StoreInv
      <3>3. dedupe[x] = NoStatus
        BY <3>1, <3>2 DEF StoreInv
      <3> QED
        BY <3>1, <3>3 DEF StoreInv, NoStatus
    <2> QED
      BY <2>1, <2>2 DEF StoreInv
  <1> QED
    BY <1>1, <1>2, <1>3, StepsOfApi DEF Api, OrdersNext, WebhookDuplicate, WebhookEmits,
       WebhookThrows, Positions

-----------------------------------------------------------------------------
(* The theorems *)

LEMMA QrisInit == Init => QrisInv
  <1> SUFFICES ASSUME Init PROVE QrisInv
    OBVIOUS
  <1>1. /\ history = [o \in Orders |-> <<>>] /\ gross = [o \in Orders |-> 0]
        /\ dedupe = [o \in Orders |-> NoStatus] /\ acked = {}
        /\ paidEmits = [o \in Orders |-> 0] /\ newest = [o \in Orders |-> 0]
        /\ panel = Unmounted /\ poll = Unknown /\ tick = Unknown /\ abandoned = {}
        /\ saving = {} /\ sales = [o \in Orders |-> 0]
    BY DEF Init, OrdersInit, TillInit
  <1>2. \A o \in Orders : Positions(o) = {} /\ ~Charged(o) /\ Len(history[o]) = 0
    <2>1. \A o \in Orders : history[o] = <<>>
      BY <1>1
    <2>2. Len(<<>>) = 0 /\ 1..0 = {}
      OBVIOUS
    <2>3. \A o \in Orders : ~Charged(o) /\ Len(history[o]) = 0
      BY <2>1, <2>2 DEF Charged
    <2> QED
      BY <2>2, <2>3 DEF Positions
  <1>3. PanelInv
    BY <1>1, <1>2 DEF PanelInv, Unmounted
  <1>4. LifeInv
    BY <1>2 DEF LifeInv
  <1>5. PollInv
    BY <1>1 DEF PollInv, HeardRight
  <1>6. SavingInv /\ AbandonedInv /\ SaleBacked /\ AckMeansHeard
    BY <1>1 DEF SavingInv, AbandonedInv, SaleBacked, AckMeansHeard
  <1>7. AckedInv /\ StoreInv
    BY <1>1, <1>2 DEF AckedInv, StoreInv
  <1> QED
    BY <1>3, <1>4, <1>5, <1>6, <1>7, InitTypes DEF QrisInv

LEMMA QrisNext == QrisInv /\ [Next]_vars => QrisInv'
  BY TillTypes, PanelNext, LifeNext, PollNext, SavingNext, AbandonedNext, AckedNext,
     StoreNext, SaleBackedNext DEF QrisInv

LEMMA QrisInvariance == Spec => []QrisInv
  BY QrisInit, QrisNext, PTL DEF Spec

(* The variables keep their types. *)
THEOREM TypesHold == Spec => []TypeOK
  <1>1. QrisInv => TypeOK
    BY DEF QrisInv
  <1> QED
    BY <1>1, QrisInvariance, PTL

(* A QRIS sale in the outbox is of an order the provider had paid, with the  *)
(* amount of the sale, whatever the cart became and the polls missed.        *)
THEOREM SalesAreBacked == Spec => []SaleBacked
  <1>1. QrisInv => SaleBacked
    BY DEF QrisInv
  <1> QED
    BY <1>1, QrisInvariance, PTL

(* "Coba lagi" is only offered of an order that can no longer be paid, and   *)
(* none comes to life again after it, however old the status was that the    *)
(* clerk saw.                                                                *)
THEOREM RetryIsSafe == Spec => []ResetIsSafe
  <1>1. QrisInv => ResetIsSafe
    BY DEF QrisInv, AbandonedInv, ResetIsSafe, Final
  <1> QED
    BY <1>1, QrisInvariance, PTL

(* The webhook answers 200 only to notices whose status every listener       *)
(* heard, through listeners that throw, restarts and notices out of order.   *)
THEOREM AcksAreHeard == Spec => []AckMeansHeard
  <1>1. QrisInv => AckMeansHeard
    BY DEF QrisInv
  <1> QED
    BY <1>1, QrisInvariance, PTL

(* tender.paid goes out at most once for an order whose notices come in the  *)
(* provider's order, with no restart and no listener of tender.paid that     *)
(* throws, for any number of duplicates and of listeners of the status that  *)
(* throw.                                                                    *)
THEOREM PaidAnnouncedOnce == Spec => []PaidOnceInOrder
  <1>1. QrisInv => PaidOnceInOrder
    <2> SUFFICES ASSUME QrisInv, NEW o \in Orders \ disturbed PROVE paidEmits[o] <= 1
      BY DEF PaidOnceInOrder
    <2>1. paidEmits[o] = 0 \/ paidEmits[o] = 1
      BY DEF QrisInv, StoreInv
    <2> QED
      BY <2>1
  <1> QED
    BY <1>1, QrisInvariance, PTL

-----------------------------------------------------------------------------
(* Static QRIS: the matcher *)


(* Earlier puts the tenders of a set in a line. *)
LEMMA EarlierOrders ==
  ASSUME NEW t \in Tenders, NEW u \in Tenders
  PROVE  /\ ~Earlier(t, t)
         /\ Earlier(t, u) => ~Earlier(u, t)
         /\ t # u => Earlier(t, u) \/ Earlier(u, t)
         /\ \A v \in Tenders : Earlier(t, u) /\ Earlier(u, v) => Earlier(t, v)
  <1>1. \A x \in Tenders : x \in Nat /\ CreatedAt[x] \in Nat
    BY ConstantsAssumption
  <1> QED
    BY <1>1 DEF Earlier

LEMMA AgeType ==
  ASSUME NEW T \in SUBSET Tenders, NEW t \in T
  PROVE  Age(T, t) \in Nat /\ Age(T, t) < Cardinality(T) /\ Cardinality(T) \in Nat
  <1> DEFINE elders == {u \in T : Earlier(u, t)}
  <1>1. IsFiniteSet(T)
    BY ConstantsAssumption, FS_Subset
  <1>2. elders \subseteq T \ {t}
    BY EarlierOrders
  <1>3. /\ IsFiniteSet(T \ {t}) /\ Cardinality(T \ {t}) = Cardinality(T) - 1
        /\ Cardinality(T) \in Nat
    BY <1>1, FS_RemoveElement, FS_CardinalityType
  <1> HIDE DEF elders
  <1>4. IsFiniteSet(elders) /\ Cardinality(elders) <= Cardinality(T \ {t})
    BY <1>2, <1>3, FS_Subset
  <1>5. Cardinality(elders) \in Nat
    BY <1>4, FS_CardinalityType
  <1> QED
    BY <1>3, <1>4, <1>5 DEF Age, elders

LEMMA AgeGrows ==
  ASSUME NEW T \in SUBSET Tenders, NEW t \in T, NEW u \in T, Earlier(u, t)
  PROVE  Age(T, u) < Age(T, t)
  <1> DEFINE of(x) == {v \in T : Earlier(v, x)}
             younger == of(u)
             older == of(t)
  <1>1. IsFiniteSet(T)
    BY ConstantsAssumption, FS_Subset
  <1>2. younger \subseteq older \ {u} /\ u \in older
    BY EarlierOrders
  <1>3. IsFiniteSet(older) /\ IsFiniteSet(younger)
    BY <1>1, FS_Subset
  <1> HIDE DEF younger, older
  <1>4. IsFiniteSet(older \ {u}) /\ Cardinality(older \ {u}) = Cardinality(older) - 1
    BY <1>2, <1>3, FS_RemoveElement
  <1>5. Cardinality(younger) <= Cardinality(older \ {u})
    BY <1>2, <1>4, FS_Subset
  <1>6. Cardinality(younger) \in Nat /\ Cardinality(older) \in Nat
    BY <1>3, FS_CardinalityType
  <1>7. Cardinality(younger) < Cardinality(older)
    BY <1>4, <1>5, <1>6
  <1> QED
    BY <1>7 DEF Age, younger, older

(* Each rank below the number of tenders is the age of exactly one. *)
LEMMA NthIs ==
  ASSUME NEW T \in SUBSET Tenders, NEW n \in 1 .. Cardinality(T)
  PROVE  Nth(T, n) \in T /\ Age(T, Nth(T, n)) = n - 1
  <1> DEFINE N == Cardinality(T)
             rank == [t \in T |-> Age(T, t)]
  <1>1. IsFiniteSet(T)
    BY ConstantsAssumption, FS_Subset
  <1>2. N \in Nat
    BY <1>1, FS_CardinalityType
  <1>3. IsFiniteSet(0 .. N - 1) /\ Cardinality(0 .. N - 1) = N
    <2>1. N - 1 \in Int /\ 0 \in Int
      BY <1>2
    <2>2. Cardinality(0 .. N - 1) = IF 0 > N - 1 THEN 0 ELSE (N - 1) - 0 + 1
      BY <2>1, FS_Interval
    <2> HIDE DEF N
    <2> QED
      BY <1>2, <2>1, <2>2, FS_Interval
  <1>4. rank \in Injection(T, 0 .. N - 1)
    <2>1. ASSUME NEW t \in T PROVE rank[t] \in 0 .. N - 1
      BY AgeType
    <2>2. ASSUME NEW t \in T, NEW u \in T, rank[t] = rank[u] PROVE t = u
      <3>1. Earlier(t, u) => Age(T, t) < Age(T, u)
        BY AgeGrows
      <3>2. Earlier(u, t) => Age(T, u) < Age(T, t)
        BY AgeGrows
      <3>3. Age(T, t) \in Nat /\ Age(T, t) = Age(T, u)
        BY <2>2, AgeType
      <3> QED
        BY <3>1, <3>2, <3>3, EarlierOrders
    <2> QED
      BY <2>1, <2>2 DEF Injection, IsInjective
  <1> HIDE DEF N
  <1>5. Cardinality(T) = Cardinality(0 .. N - 1)
    BY <1>3 DEF N
  <1>6. rank \in Surjection(T, 0 .. N - 1)
    <2> HIDE DEF rank
    <2> QED
      BY <1>3, <1>4, <1>5, FS_Injection
  <1>7. n - 1 \in 0 .. N - 1
    BY <1>2 DEF N
  <1>8. \E t \in T : Age(T, t) = n - 1
    BY <1>6, <1>7 DEF Surjection
  <1> QED
    BY <1>8 DEF Nth

(* The function Matches evaluates at the number of tenders. *)
Pairing(upTo, T, R, N) ==
    upTo = [n \in 0..N |-> IF n = 0 THEN {}
                           ELSE upTo[n - 1] \union Taken(upTo[n - 1], Nth(T, n), R)]

LEMMA PairingExists ==
  ASSUME NEW T, NEW R, NEW N \in Nat
  PROVE  \E upTo : Pairing(upTo, T, R, N)
  <1> DEFINE missing == {n \in Nat : \A f : ~Pairing(f, T, R, n)}
  <1> SUFFICES ASSUME N \in missing PROVE FALSE
    OBVIOUS
  <1>1. PICK n \in missing : \A m \in missing : n <= m
    <2> HIDE DEF missing
    <2>1. missing \subseteq Nat
      BY DEF missing
    <2> QED
      BY <2>1, LeastNumber
  <1>2. n \in Nat
    OBVIOUS
  <1>3. n # 0
    <2> DEFINE f == [x \in 0..0 |-> {}]
    <2>1. Pairing(f, T, R, 0)
      BY DEF Pairing
    <2> QED
      BY <2>1
  <1>4. n - 1 \in Nat /\ n - 1 \notin missing
    <2>1. n - 1 \in Nat /\ ~(n <= n - 1)
      BY <1>2, <1>3
    <2> QED
      BY <1>1, <2>1, Zenon
  <1>5. PICK f : Pairing(f, T, R, n - 1)
    BY <1>4
  <1> DEFINE more == f[n - 1] \union Taken(f[n - 1], Nth(T, n), R)
             g == [x \in 0..n |-> IF x = n THEN more ELSE f[x]]
  <1>6. ASSUME NEW x \in 0..n
        PROVE  g[x] = IF x = 0 THEN {} ELSE g[x - 1] \union Taken(g[x - 1], Nth(T, x), R)
    <2>1. CASE x = n
      <3>1. g[x] = more /\ x # 0 /\ g[x - 1] = f[n - 1]
        BY <1>2, <1>3, <2>1
      <3> QED
        BY <2>1, <3>1
    <2>2. CASE x # n
      <3>1. x \in 0..(n - 1) /\ (x # 0 => x - 1 \in 0..n /\ x - 1 # n)
        BY <1>2, <2>2
      <3>2. g[x] = f[x] /\ (x # 0 => g[x - 1] = f[x - 1])
        BY <2>2, <3>1
      <3>3. f[x] = IF x = 0 THEN {} ELSE f[x - 1] \union Taken(f[x - 1], Nth(T, x), R)
        BY <1>5, <3>1 DEF Pairing
      <3> QED
        BY <3>2, <3>3
    <2> QED
      BY <2>1, <2>2
  <1>7. Pairing(g, T, R, n)
    <2>1. g = [x \in 0..n |-> g[x]]
      OBVIOUS
    <2> HIDE DEF g
    <2> QED
      BY <1>6, <2>1 DEF Pairing
  <1> QED
    BY <1>1, <1>7

LEMMA MatchesIsPairing ==
  ASSUME NEW T \in SUBSET Tenders, NEW R
  PROVE  \E upTo : Pairing(upTo, T, R, Cardinality(T)) /\ Matches(T, R) = upTo[Cardinality(T)]
  <1> DEFINE N == Cardinality(T)
  <1>1. N \in Nat
    BY ConstantsAssumption, FS_Subset, FS_CardinalityType
  <1> DEFINE P(upTo) == upTo = [n \in 0..N |->
                IF n = 0 THEN {} ELSE upTo[n - 1] \union Taken(upTo[n - 1], Nth(T, n), R)]
             it == CHOOSE upTo : P(upTo)
  <1>2. Matches(T, R) = it[N]
    BY DEF Matches
  <1>3. \A upTo : P(upTo) <=> Pairing(upTo, T, R, N)
    BY DEF Pairing
  <1> HIDE DEF P, N
  <1>4. \E upTo : P(upTo)
    BY <1>1, <1>3, PairingExists
  <1>5. P(it)
    BY <1>4
  <1> QED
    BY <1>2, <1>3, <1>5 DEF N

(* Of the rows one tender may take there is a nearest, and only one. *)
LEMMA NearestExists ==
  ASSUME NEW t \in Tenders, NEW F \in SUBSET Rows, F # {}
  PROVE  \E q \in F : \A o \in F : ~Nearer(t, o, q)
  <1>1. \A r \in F : r \in Nat /\ Delta(t, r) \in Nat
    BY ConstantsAssumption DEF Delta, Abs
  <1> DEFINE gaps == {Delta(t, r) : r \in F}
  <1>2. PICK gap \in gaps : \A g \in gaps : gap <= g
    <2>1. gaps \subseteq Nat /\ gaps # {}
      BY <1>1
    <2> HIDE DEF gaps
    <2> QED
      BY <2>1, LeastNumber
  <1> DEFINE tied == {r \in F : Delta(t, r) = gap}
  <1>3. PICK q \in tied : \A r \in tied : q <= r
    <2>1. tied \subseteq Nat /\ tied # {}
      BY <1>1
    <2> HIDE DEF tied
    <2> QED
      BY <2>1, LeastNumber
  <1>4. ASSUME NEW o \in F PROVE ~Nearer(t, o, q)
    <2>1. gap <= Delta(t, o) /\ Delta(t, q) = gap /\ (Delta(t, o) = gap => q <= o)
      BY <1>2, <1>3
    <2>2. gap \in Nat /\ Delta(t, o) \in Nat /\ q \in Nat /\ o \in Nat
      BY <1>1
    <2> QED
      BY <2>1, <2>2 DEF Nearer
  <1> QED
    BY <1>4

LEMMA NearestUnique ==
  ASSUME NEW t \in Tenders, NEW q \in Rows, NEW r \in Rows,
         ~Nearer(t, q, r), ~Nearer(t, r, q)
  PROVE  q = r
  <1>1. /\ q \in Nat /\ r \in Nat /\ Delta(t, q) \in Nat /\ Delta(t, r) \in Nat
    BY ConstantsAssumption DEF Delta, Abs
  <1> QED
    BY <1>1 DEF Nearer

(* What holds of the pairs once the n eldest tenders are served. *)
ServedTo(M, T, R, n) ==
    /\ \A m \in M : /\ m \in T \X R /\ Eligible(m[1], m[2])
                    /\ Age(T, m[1]) < n
    /\ \A m, k \in M : m[1] = k[1] <=> m[2] = k[2]
    /\ \A t \in T, r \in R :
          Eligible(t, r) /\ Age(T, t) < n =>
             \/ \E m \in M : m[1] = t /\ ~Nearer(t, r, m[2])
             \/ \E m \in M : m[2] = r /\ Earlier(m[1], t)

LEMMA ServeNext ==
  ASSUME NEW T \in SUBSET Tenders, NEW R \in SUBSET Rows, NEW n \in 1 .. Cardinality(T),
         NEW M, ServedTo(M, T, R, n - 1)
  PROVE  ServedTo(M \union Taken(M, Nth(T, n), R), T, R, n)
  <1> DEFINE u == Nth(T, n)
             free == Free(M, u, R)
             new == Taken(M, u, R)
  <1>1. u \in T /\ u \in Tenders /\ Age(T, u) = n - 1 /\ n \in Nat
    BY NthIs, AgeType
  <1>2. \A t \in T : Age(T, t) \in Nat
    BY AgeType
  <1>3. ASSUME NEW m \in new
        PROVE  /\ m = <<u, m[2]>> /\ m[2] \in R /\ Eligible(u, m[2])
               /\ \A k \in M : k[2] # m[2]
               /\ \A o \in free : ~Nearer(u, o, m[2])
    BY DEF Taken, Free
  <1>4. ASSUME NEW m \in M PROVE Age(T, m[1]) < n - 1 /\ m[1] \in T /\ m[1] # u /\ Earlier(m[1], u)
    <2>1. Age(T, m[1]) < n - 1 /\ m[1] \in T
      BY DEF ServedTo
    <2>2. Age(T, m[1]) \in Nat
      BY <1>2, <2>1
    <2>3. m[1] # u
      BY <1>1, <2>1, <2>2
    <2>4. ~Earlier(u, m[1])
      <3>1. Earlier(u, m[1]) => Age(T, u) < Age(T, m[1])
        BY <1>1, <2>1, AgeGrows
      <3> QED
        BY <1>1, <2>1, <2>2, <3>1
    <2> QED
      BY <1>1, <2>1, <2>3, <2>4, EarlierOrders
  <1>5. \A m, k \in new : m = k
    <2>1. ASSUME NEW m \in new, NEW k \in new PROVE m = k
      <3>1. m[2] \in free /\ k[2] \in free
        BY DEF Taken
      <3>2. ~Nearer(u, m[2], k[2]) /\ ~Nearer(u, k[2], m[2])
        BY <1>3, <3>1
      <3>3. m[2] = k[2]
        BY <1>1, <1>3, <3>2, NearestUnique
      <3> QED
        BY <1>3, <3>3
    <2> QED
      BY <2>1
  <1>6. ASSUME NEW m \in M \union new
        PROVE  m \in T \X R /\ Eligible(m[1], m[2]) /\ Age(T, m[1]) < n
    <2>1. CASE m \in M
      <3>1. m \in T \X R /\ Eligible(m[1], m[2]) /\ Age(T, m[1]) < n - 1 /\ Age(T, m[1]) \in Nat
        BY <1>2, <2>1 DEF ServedTo
      <3> QED
        BY <1>1, <3>1
    <2>2. CASE m \in new
      BY <1>1, <1>3, <2>2
    <2> QED
      BY <2>1, <2>2
  <1>7. ASSUME NEW m \in M \union new, NEW k \in M \union new
        PROVE  m[1] = k[1] <=> m[2] = k[2]
    <2>1. CASE m \in M /\ k \in M
      BY <2>1 DEF ServedTo
    <2>2. CASE m \in new /\ k \in new
      BY <1>5, <2>2
    <2>3. CASE m \in M /\ k \in new
      BY <1>3, <1>4, <2>3
    <2>4. CASE m \in new /\ k \in M
      BY <1>3, <1>4, <2>4
    <2> QED
      BY <2>1, <2>2, <2>3, <2>4
  <1>8. ASSUME NEW t \in T, NEW r \in R, Eligible(t, r), Age(T, t) < n
        PROVE  \/ \E m \in M \union new : m[1] = t /\ ~Nearer(t, r, m[2])
               \/ \E m \in M \union new : m[2] = r /\ Earlier(m[1], t)
    <2>1. CASE Age(T, t) < n - 1
      BY <1>8, <2>1 DEF ServedTo
    <2>2. CASE ~(Age(T, t) < n - 1)
      <3>1. Age(T, t) = n - 1
        BY <1>1, <1>2, <1>8, <2>2
      <3>2. t = u
        <4>1. Earlier(t, u) => Age(T, t) < Age(T, u)
          BY <1>1, AgeGrows
        <4>2. Earlier(u, t) => Age(T, u) < Age(T, t)
          BY <1>1, AgeGrows
        <4> QED
          BY <1>1, <1>2, <3>1, <4>1, <4>2, EarlierOrders
      <3>3. CASE r \notin free
        <4>1. PICK m \in M : m[2] = r
          BY <1>8, <3>2, <3>3 DEF Free
        <4> QED
          BY <1>4, <3>2, <4>1
      <3>4. CASE r \in free
        <4>1. free \in SUBSET Rows /\ free # {}
          BY <3>4 DEF Free
        <4>2. PICK q \in free : \A o \in free : ~Nearer(u, o, q)
          <5> HIDE DEF free, u
          <5> QED
            BY <1>1, <4>1, NearestExists
        <4>3. <<u, q>> \in new
          BY <4>2 DEF Taken
        <4>4. <<u, q>>[1] = t /\ ~Nearer(t, r, <<u, q>>[2])
          BY <3>2, <3>4, <4>2
        <4> QED
          BY <4>3, <4>4
      <3> QED
        BY <3>3, <3>4
    <2> QED
      BY <2>1, <2>2
  <1> HIDE DEF new
  <1>9. ServedTo(M \union new, T, R, n)
    BY <1>6, <1>7, <1>8 DEF ServedTo
  <1> QED
    BY <1>9 DEF new

LEMMA PairingServes ==
  ASSUME NEW T \in SUBSET Tenders, NEW R \in SUBSET Rows, NEW upTo,
         Pairing(upTo, T, R, Cardinality(T))
  PROVE  ServedTo(upTo[Cardinality(T)], T, R, Cardinality(T))
  <1> DEFINE N == Cardinality(T)
             wrong == {n \in 0..N : ~ServedTo(upTo[n], T, R, n)}
  <1>1. N \in Nat
    BY ConstantsAssumption, FS_Subset, FS_CardinalityType
  <1> HIDE DEF N
  <1> SUFFICES ASSUME N \in wrong PROVE FALSE
    BY <1>1 DEF N
  <1>2. PICK n \in wrong : \A m \in wrong : n <= m
    <2>1. wrong \subseteq Nat
      OBVIOUS
    <2> HIDE DEF wrong
    <2> QED
      BY <2>1, LeastNumber
  <1>3. n \in 0..N /\ ~ServedTo(upTo[n], T, R, n)
    OBVIOUS
  <1>4. \A k \in 0..N : upTo[k] = IF k = 0 THEN {}
                                  ELSE upTo[k - 1] \union Taken(upTo[k - 1], Nth(T, k), R)
    BY DEF Pairing, N
  <1>5. n # 0
    <2>1. 0 \in 0..N
      BY <1>1
    <2>11. upTo[0] = {}
      BY <1>4, <2>1
    <2>2. \A t \in T : Age(T, t) \in Nat
      BY AgeType
    <2>3. ServedTo({}, T, R, 0)
      BY <2>2 DEF ServedTo
    <2> QED
      BY <1>3, <2>11, <2>3
  <1>6. n \in 1..N /\ n - 1 \in 0..N /\ ~(n <= n - 1)
    BY <1>1, <1>3, <1>5
  <1>7. ServedTo(upTo[n - 1], T, R, n - 1)
    <2>1. n - 1 \notin wrong
      <3> HIDE DEF wrong
      <3> QED
        BY <1>2, <1>6, Zenon
    <2> QED
      BY <1>6, <2>1
  <1>8. ServedTo(upTo[n - 1] \union Taken(upTo[n - 1], Nth(T, n), R), T, R, n)
    BY <1>6, <1>7, ServeNext DEF N
  <1>9. upTo[n] = upTo[n - 1] \union Taken(upTo[n - 1], Nth(T, n), R)
    BY <1>4, <1>5, <1>6
  <1> QED
    BY <1>3, <1>8, <1>9

(* The matcher does what its comment promises, for any tenders and rows. *)
LEMMA MatchesServe ==
  ASSUME NEW T \in SUBSET Tenders, NEW R \in SUBSET Rows
  PROVE  ServesInOrder(Matches(T, R), T, R)
  <1> DEFINE M == Matches(T, R)
             N == Cardinality(T)
  <1>1. ServedTo(M, T, R, N)
    BY MatchesIsPairing, PairingServes
  <1>2. \A t \in T : Age(T, t) < N
    BY AgeType
  <1> HIDE DEF M, N
  <1>3. M \subseteq {m \in T \X R : Eligible(m[1], m[2])}
    BY <1>1 DEF ServedTo
  <1>4. \A m, k \in M : m[1] = k[1] <=> m[2] = k[2]
    BY <1>1 DEF ServedTo
  <1>5. \A t \in T, r \in R :
           Eligible(t, r) =>
              \/ \E m \in M : m[1] = t /\ ~Nearer(t, r, m[2])
              \/ \E m \in M : m[2] = r /\ Earlier(m[1], t)
    BY <1>1, <1>2 DEF ServedTo
  <1> QED
    BY <1>3, <1>4, <1>5 DEF ServesInOrder, M

-----------------------------------------------------------------------------
(* The inductive invariant *)

(* A job that may still run has attempts left, and a nightly pass is the only *)
(* one of its job, which is active.                                           *)
Nightly(p) == pass[p].phase # "idle" /\ pass[p].nightly
NightlyInv ==
    /\ \A d \in Dates :
          job[d].state \in {"absent", "waiting", "active"} => job[d].failures < MaxAttempts
    /\ \A p \in Passes : Nightly(p) => job[pass[p].date].state = "active"
    /\ \A p, q \in Passes : Nightly(p) /\ Nightly(q) /\ pass[p].date = pass[q].date => p = q

(* The report of a date never shows a row twice, so n rows of it are n.       *)
First(d, n) == {report[d][i] : i \in {j \in 1..Len(report[d]) : j <= n}}
NoRepeats ==
    \A d \in Dates : \A i, j \in 1..Len(report[d]) : report[d][i] = report[d][j] => i = j

(* A pass holds every row of the pages it read; once it has read them all it  *)
(* holds what was on the report when it began, unless that was too long.      *)
Paged(p) ==
    LET d == pass[p].date IN
    /\ pass[p].tenders \subseteq arrived
    /\ \E n \in 0..Len(report[d]) : pass[p].due = First(d, n)
    /\ pass[p].phase = "fetching" =>
          /\ pass[p].page \in 1..MaxPages
          /\ (pass[p].page - 1) * PageSize <= Len(report[d])
          /\ First(d, (pass[p].page - 1) * PageSize) \subseteq pass[p].rows
    /\ pass[p].phase = "fetched" /\ Cardinality(pass[p].due) <= PageSize * MaxPages =>
          pass[p].due \subseteq pass[p].rows
PagingInv == \A p \in Passes : pass[p].phase # "idle" => Paged(p)

PassInv == ReconcileTypeOK /\ NightlyInv /\ NoRepeats /\ PagingInv

PassRecords ==
    [phase : {"fetching", "fetched", "partial"}, date : Dates, nightly : BOOLEAN,
     tenders : SUBSET Tenders, rows : SUBSET Rows, due : SUBSET Rows, page : Nat]

LEMMA PassHeld ==
  ASSUME ReconcileTypeOK, NEW p \in Passes, pass[p].phase # "idle"
  PROVE  pass[p] \in PassRecords
  BY DEF ReconcileTypeOK, NoPass, PassRecords

LEMMA BoundsType ==
  /\ PageSize \in Nat \ {0} /\ MaxPages \in Nat \ {0} /\ MaxAttempts \in Nat \ {0}
  /\ Dates \subseteq Nat /\ IsFiniteSet(Tenders) /\ Tenders \subseteq Nat
  BY ConstantsAssumption

LEMMA ListingType ==
  ASSUME ReconcileTypeOK, NEW d \in Dates, NEW b \in BOOLEAN
  PROVE  /\ Listing(d, b) \in PassRecords /\ Listing(d, b).date = d
         /\ Listing(d, b).phase = "fetching" /\ Listing(d, b).nightly = b
         /\ Listing(d, b).due = InReport(d) /\ Listing(d, b).page = 1
         /\ Listing(d, b).tenders \subseteq arrived
  BY DEF ReconcileTypeOK, Listing, PassRecords, Listed, DayOfTenders, InReport

JobRecords ==
    [state : {"absent", "waiting", "active", "completed", "failed"}, failures : 0..MaxAttempts]

LEMMA StateSet ==
  ASSUME ReconcileTypeOK, NEW d \in Dates, NEW jobs,
         NEW st \in {"absent", "waiting", "active", "completed", "failed"},
         jobs = [job EXCEPT ![d].state = st]
  PROVE  /\ jobs \in [Dates -> JobRecords]
         /\ jobs[d].state = st /\ jobs[d].failures = job[d].failures
         /\ \A x \in Dates : x # d => jobs[x] = job[x]
  <1>1. job \in [Dates -> JobRecords] /\ job[d] \in JobRecords
    BY DEF ReconcileTypeOK, JobRecords
  <1>2. /\ [job[d] EXCEPT !.state = st] \in JobRecords
        /\ [job[d] EXCEPT !.state = st].state = st
        /\ [job[d] EXCEPT !.state = st].failures = job[d].failures
    BY <1>1 DEF JobRecords
  <1>3. jobs = [x \in Dates |-> IF x = d THEN [job[d] EXCEPT !.state = st] ELSE job[x]]
    BY <1>1
  <1> QED
    BY <1>1, <1>2, <1>3

(* The end of a pass: its job is no longer active. *)
LEMMA EndsNightly ==
  ASSUME ReconcileTypeOK, NightlyInv, NEW p \in Passes, pass[p].phase # "idle",
         NEW outcome \in {"completed", "stalled", "failed"}, JobEnds(p, outcome),
         pass' = [pass EXCEPT ![p] = NoPass]
  PROVE  /\ job' \in [Dates -> JobRecords]
         /\ NightlyInv'
         /\ pass' \in [Passes -> {NoPass} \union PassRecords]
  <1> DEFINE d == pass[p].date
  <1>1. pass[p] \in PassRecords /\ d \in Dates
    BY PassHeld DEF PassRecords
  <1>2. /\ pass' \in [Passes -> {NoPass} \union PassRecords]
        /\ pass'[p] = NoPass /\ \A q \in Passes : q # p => pass'[q] = pass[q]
    BY DEF ReconcileTypeOK, PassRecords
  <1>3. CASE ~pass[p].nightly
    <2>1. job' = job
      BY <1>3 DEF JobEnds
    <2>2. \A q \in Passes : Nightly(q)' => Nightly(q) /\ pass'[q] = pass[q]
      BY <1>2 DEF Nightly, NoPass
    <2> QED
      BY <1>2, <2>1, <2>2 DEF NightlyInv, ReconcileTypeOK, JobRecords
  <1>4. CASE pass[p].nightly
    <2>1. job[d].failures < MaxAttempts /\ job[d].failures \in 0..MaxAttempts
      BY <1>1, <1>4 DEF NightlyInv, Nightly, ReconcileTypeOK
    <2>2. /\ \A x \in Dates : x # d => job'[x] = job[x]
          /\ job'[d] \in JobRecords
          /\ job'[d].state \in {"absent", "waiting", "active"} =>
                job'[d].failures < MaxAttempts
          /\ job' \in [Dates -> JobRecords]
      <3>1. CASE outcome = "completed"
        <4>1. job' = [job EXCEPT ![d].state = "completed"]
          BY <1>4, <3>1 DEF JobEnds
        <4>2. /\ job' \in [Dates -> JobRecords]
              /\ job'[d].state = "completed" /\ job'[d].failures = job[d].failures
              /\ \A x \in Dates : x # d => job'[x] = job[x]
          <5> HIDE DEF d
          <5> QED
            BY <1>1, <4>1, StateSet, ZenonT(30)
        <4> QED
          BY <1>1, <2>1, <4>2
      <3>2. CASE outcome = "stalled"
        <4>1. job' = [job EXCEPT ![d].state = "waiting"]
          BY <1>4, <3>2 DEF JobEnds
        <4>2. /\ job' \in [Dates -> JobRecords]
              /\ job'[d].state = "waiting" /\ job'[d].failures = job[d].failures
              /\ \A x \in Dates : x # d => job'[x] = job[x]
          <5> HIDE DEF d
          <5> QED
            BY <1>1, <4>1, StateSet, ZenonT(30)
        <4> QED
          BY <1>1, <2>1, <4>2
      <3>3. CASE outcome = "failed"
        <4>1. job' = [job EXCEPT ![d] =
                 [state |-> IF @.failures + 1 < MaxAttempts THEN "waiting" ELSE "failed",
                  failures |-> @.failures + 1]]
          BY <1>4, <3>3 DEF JobEnds
        <4> QED
          BY <1>1, <2>1, <4>1, BoundsType DEF ReconcileTypeOK, JobRecords
      <3> QED
        BY <3>1, <3>2, <3>3
    <2>3. ASSUME NEW q \in Passes, Nightly(q)'
          PROVE  /\ Nightly(q) /\ q # p /\ pass'[q] = pass[q] /\ pass[q].date \in Dates
                 /\ pass[q].date # d
      <3>1. q # p /\ pass'[q] = pass[q] /\ Nightly(q)
        BY <1>2, <2>3 DEF Nightly, NoPass
      <3>2. pass[q].date \in Dates
        BY <3>1, PassHeld DEF Nightly, PassRecords
      <3> QED
        BY <1>4, <3>1, <3>2 DEF NightlyInv, Nightly
    <2>4. \A x \in Dates : job'[x].state \in {"absent", "waiting", "active"} =>
                              job'[x].failures < MaxAttempts
      BY <2>2 DEF NightlyInv
    <2>5. \A q \in Passes : Nightly(q)' => job'[pass'[q].date].state = "active"
      BY <2>2, <2>3 DEF NightlyInv
    <2>6. \A q, x \in Passes : Nightly(q)' /\ Nightly(x)' /\ pass'[q].date = pass'[x].date => q = x
      BY <2>3 DEF NightlyInv
    <2> QED
      BY <1>2, <2>2, <2>4, <2>5, <2>6 DEF NightlyInv
  <1> QED
    BY <1>3, <1>4

(* A pass that begins: the job it is of, if any, had none. *)
LEMMA BeginsNightly ==
  ASSUME ReconcileTypeOK, NightlyInv, NEW p \in Passes, NEW d \in Dates,
         StartJob(p, d) \/ RunPass(p, d)
  PROVE  /\ job' \in [Dates -> JobRecords]
         /\ NightlyInv'
         /\ pass' \in [Passes -> {NoPass} \union PassRecords]
         /\ pass'[p].tenders \subseteq arrived /\ pass'[p].date = d
         /\ pass'[p].due = InReport(d) /\ pass'[p].page = 1 /\ pass'[p].phase = "fetching"
         /\ \A q \in Passes : q # p => pass'[q] = pass[q]
  <1>1. PICK b \in BOOLEAN : /\ pass' = [pass EXCEPT ![p] = Listing(d, b)]
                             /\ b => StartJob(p, d)
                             /\ ~b => job' = job
    BY DEF StartJob, RunPass
  <1>2. /\ Listing(d, b) \in PassRecords /\ Listing(d, b).date = d
        /\ Listing(d, b).phase = "fetching" /\ Listing(d, b).nightly = b
        /\ Listing(d, b).due = InReport(d) /\ Listing(d, b).page = 1
        /\ Listing(d, b).tenders \subseteq arrived
    BY ListingType
  <1>3. /\ pass' \in [Passes -> {NoPass} \union PassRecords]
        /\ pass'[p] = Listing(d, b) /\ \A q \in Passes : q # p => pass'[q] = pass[q]
    BY <1>1, <1>2 DEF ReconcileTypeOK, PassRecords
  <1>4. /\ \A x \in Dates : x # d => job'[x] = job[x]
        /\ job'[d].failures = job[d].failures
        /\ b => job[d].state = "waiting" /\ job'[d].state = "active"
        /\ ~b => job'[d] = job[d]
        /\ job' \in [Dates -> JobRecords]
    <2>1. CASE b
      BY <1>1, <2>1, StateSet DEF StartJob
    <2>2. CASE ~b
      BY <1>1, <2>2 DEF ReconcileTypeOK, JobRecords
    <2> QED
      BY <2>1, <2>2
  <1>5. \A x \in Dates : job'[x].state \in {"absent", "waiting", "active"} =>
                            job'[x].failures < MaxAttempts
    BY <1>4 DEF NightlyInv
  <1>6. ASSUME NEW q \in Passes, Nightly(q)', q # p
        PROVE  /\ Nightly(q) /\ pass[q].date \in Dates /\ pass'[q].date = pass[q].date
               /\ job[pass[q].date].state = "active"
    <2>1. pass'[q] = pass[q] /\ Nightly(q)
      BY <1>3, <1>6 DEF Nightly
    <2>2. pass[q].date \in Dates
      BY <2>1, PassHeld DEF Nightly, PassRecords
    <2> QED
      BY <2>1, <2>2 DEF NightlyInv
  <1>7. Nightly(p)' => b /\ pass'[p].date = d
    BY <1>2, <1>3 DEF Nightly
  <1>8. ASSUME NEW q \in Passes, Nightly(q)' PROVE job'[pass'[q].date].state = "active"
    <2>1. CASE q = p
      BY <1>4, <1>7, <1>8, <2>1
    <2>2. CASE q # p
      BY <1>4, <1>6, <1>8, <2>2
    <2> QED
      BY <2>1, <2>2
  <1>9. ASSUME NEW q \in Passes, NEW x \in Passes, Nightly(q)', Nightly(x)',
               pass'[q].date = pass'[x].date
        PROVE  q = x
    <2>1. CASE q # p /\ x # p
      BY <1>6, <1>9, <2>1 DEF NightlyInv
    <2>2. CASE q = p /\ x # p
      BY <1>4, <1>6, <1>7, <1>9, <2>2
    <2>3. CASE q # p /\ x = p
      BY <1>4, <1>6, <1>7, <1>9, <2>3
    <2> QED
      BY <2>1, <2>2, <2>3
  <1>10. NightlyInv'
    BY <1>5, <1>8, <1>9 DEF NightlyInv
  <1> QED
    BY <1>2, <1>3, <1>4, <1>10

(* As many rows of the report as places in it. *)
LEMMA StretchCounts ==
  ASSUME NEW s \in Seq(Rows), \A i, j \in 1..Len(s) : s[i] = s[j] => i = j,
         NEW lo \in Nat, NEW hi \in Nat, lo <= hi, hi <= Len(s)
  PROVE  Cardinality({s[i] : i \in {j \in 1..Len(s) : lo < j /\ j <= hi}}) = hi - lo
  <1> DEFINE places == {j \in 1..Len(s) : lo < j /\ j <= hi}
             stretch == {s[i] : i \in places}
             at == [i \in places |-> s[i]]
  <1>1. Len(s) \in Nat
    BY LenProperties
  <1>2. places = lo + 1 .. hi
    BY <1>1
  <1>3. IsFiniteSet(places) /\ Cardinality(places) = hi - lo
    <2>1. Cardinality(lo + 1 .. hi) = IF lo + 1 > hi THEN 0 ELSE hi - (lo + 1) + 1
      BY FS_Interval
    <2>2. IsFiniteSet(lo + 1 .. hi)
      BY FS_Interval
    <2> HIDE DEF places
    <2> QED
      BY <1>2, <2>1, <2>2
  <1>4. at \in Bijection(places, stretch)
    BY DEF Bijection, Injection, Surjection, IsInjective
  <1> HIDE DEF places, stretch, at
  <1>5. ExistsBijection(places, stretch)
    BY <1>4 DEF ExistsBijection
  <1>6. Cardinality(stretch) = Cardinality(places)
    BY <1>3, <1>5, FS_Bijection
  <1> QED
    BY <1>3, <1>6 DEF stretch, places

LEMMA FirstCounts ==
  ASSUME ReconcileTypeOK, NoRepeats, NEW d \in Dates, NEW n \in 0..Len(report[d])
  PROVE  Cardinality(First(d, n)) = n
  <1>1. report[d] \in Seq(Rows) /\ n \in Nat /\ 0 \in Nat /\ 0 <= n /\ n <= Len(report[d])
    <2>1. report[d] \in Seq(Rows)
      BY DEF ReconcileTypeOK
    <2> QED
      BY <2>1, LenProperties
  <1> DEFINE s == report[d]
  <1>2. First(d, n) = {s[i] : i \in {j \in 1..Len(s) : 0 < j /\ j <= n}}
    BY <1>1, LenProperties DEF First
  <1>3. \A i, j \in 1..Len(s) : s[i] = s[j] => i = j
    BY DEF NoRepeats
  <1> HIDE DEF s
  <1>4. Cardinality({s[i] : i \in {j \in 1..Len(s) : 0 < j /\ j <= n}}) = n - 0
    BY <1>1, <1>3, StretchCounts DEF s
  <1> QED
    BY <1>1, <1>2, <1>4

LEMMA PageCounts ==
  ASSUME ReconcileTypeOK, NoRepeats, NEW d \in Dates, NEW k \in Nat \ {0}
  PROVE  /\ (k - 1) * PageSize \in Nat /\ k * PageSize = (k - 1) * PageSize + PageSize
         /\ First(d, k * PageSize) = First(d, (k - 1) * PageSize) \union Page(d, k)
         /\ k * PageSize <= Len(report[d]) => Cardinality(Page(d, k)) = PageSize
  <1>1. report[d] \in Seq(Rows) /\ Len(report[d]) \in Nat
    <2>1. report[d] \in Seq(Rows)
      BY DEF ReconcileTypeOK
    <2> QED
      BY <2>1, LenProperties
  <1> DEFINE lo == (k - 1) * PageSize
             hi == k * PageSize
             s == report[d]
  <1>2. lo \in Nat /\ hi \in Nat /\ hi = lo + PageSize /\ PageSize \in Nat
    BY BoundsType
  <1>3. Page(d, k) = {s[i] : i \in {j \in 1..Len(s) : lo < j /\ j <= hi}}
    BY DEF Page
  <1>4. First(d, lo) = {s[i] : i \in {j \in 1..Len(s) : j <= lo}}
    BY DEF First
  <1>5. First(d, hi) = {s[i] : i \in {j \in 1..Len(s) : j <= hi}}
    BY DEF First
  <1>6. \A i, j \in 1..Len(s) : s[i] = s[j] => i = j
    BY DEF NoRepeats
  <1>7. s \in Seq(Rows) /\ Len(s) \in Nat
    BY <1>1
  <1> HIDE DEF lo, hi, s
  <1>8. First(d, hi) = First(d, lo) \union Page(d, k)
    BY <1>2, <1>3, <1>4, <1>5, <1>7
  <1>9. hi <= Len(s) => Cardinality(Page(d, k)) = hi - lo
    <2>1. lo <= hi
      BY <1>2
    <2>2. ASSUME hi <= Len(s)
          PROVE  Cardinality({s[i] : i \in {j \in 1..Len(s) : lo < j /\ j <= hi}}) = hi - lo
      BY <1>2, <1>6, <1>7, <2>1, <2>2, StretchCounts
    <2> QED
      BY <1>3, <2>2
  <1>10. hi <= Len(s) => Cardinality(Page(d, k)) = PageSize
    BY <1>2, <1>9
  <1> QED
    BY <1>2, <1>8, <1>10 DEF lo, hi, s

LEMMA PageIsRows ==
  ASSUME ReconcileTypeOK, NEW d \in Dates, NEW k
  PROVE  Page(d, k) \subseteq Rows
  <1>1. \A i \in 1..Len(report[d]) : report[d][i] \in Rows
    BY ElementOfSeq DEF ReconcileTypeOK
  <1> QED
    BY <1>1 DEF Page

(* A report only grows at its end. *)
LEMMA ReportGrows ==
  ASSUME ReconcileTypeOK, [ReconcileNext]_reconcileVars, NEW d \in Dates
  PROVE  /\ Len(report[d]) \in Nat /\ Len(report'[d]) \in Nat /\ Len(report[d]) <= Len(report'[d])
         /\ \A i \in 1..Len(report[d]) : report'[d][i] = report[d][i]
  <1>1. report[d] \in Seq(Rows) /\ Len(report[d]) \in Nat
    <2>1. report[d] \in Seq(Rows)
      BY DEF ReconcileTypeOK
    <2> QED
      BY <2>1, LenProperties
  <1>2. ASSUME NEW r \in Rows, RowPosted(r)
        PROVE  report'[d] = report[d] \/ report'[d] = Append(report[d], r)
    BY <1>2 DEF RowPosted, ReconcileTypeOK
  <1>3. ASSUME NEW r \in Rows, report'[d] = Append(report[d], r)
        PROVE  /\ Len(report'[d]) = Len(report[d]) + 1
               /\ \A i \in 1..Len(report[d]) : report'[d][i] = report[d][i]
    BY <1>1, <1>3, AppendProperties
  <1>4. CASE report'[d] = report[d]
    BY <1>1, <1>4
  <1>5. CASE \E r \in Rows : RowPosted(r)
    BY <1>1, <1>2, <1>3, <1>4, <1>5
  <1>6. CASE ~(\E r \in Rows : RowPosted(r))
    <2>1. report' = report
      BY <1>6 DEF ReconcileNext, TenderArrives, ManualMatch, NextDay, ScheduleTick, StartJob,
         RunPass, FetchPage, FetchBroken, FetchFails, WorkerDies, MatchAndMark, reconcileVars
    <2> QED
      BY <1>4, <2>1
  <1> QED
    BY <1>5, <1>6

LEMMA FirstKept ==
  ASSUME ReconcileTypeOK, [ReconcileNext]_reconcileVars, NEW d \in Dates,
         NEW n \in 0..Len(report[d])
  PROVE  First(d, n)' = First(d, n)
  <1>1. /\ Len(report[d]) \in Nat /\ Len(report'[d]) \in Nat /\ Len(report[d]) <= Len(report'[d])
        /\ \A i \in 1..Len(report[d]) : report'[d][i] = report[d][i]
    BY ReportGrows
  <1>2. First(d, n)' = {report'[d][i] : i \in {j \in 1..Len(report'[d]) : j <= n}}
    BY DEF First
  <1>3. {j \in 1..Len(report'[d]) : j <= n} = {j \in 1..Len(report[d]) : j <= n}
    BY <1>1
  <1> QED
    BY <1>1, <1>2, <1>3 DEF First

LEMMA PagedKept ==
  ASSUME ReconcileTypeOK, [ReconcileNext]_reconcileVars, NEW p \in Passes,
         pass[p].phase # "idle", Paged(p), pass'[p] = pass[p], arrived \subseteq arrived'
  PROVE  Paged(p)'
  <1> DEFINE d == pass[p].date
  <1>1. pass[p] \in PassRecords /\ d \in Dates
    BY PassHeld DEF PassRecords
  <1>2. /\ Len(report[d]) \in Nat /\ Len(report'[d]) \in Nat /\ Len(report[d]) <= Len(report'[d])
    BY <1>1, ReportGrows
  <1>3. \A n \in 0..Len(report[d]) : First(d, n)' = First(d, n)
    BY <1>1, FirstKept
  <1>4. PICK n \in 0..Len(report[d]) : pass[p].due = First(d, n)
    BY DEF Paged
  <1>5. n \in 0..Len(report'[d]) /\ pass'[p].due = First(d, n)'
    BY <1>2, <1>3, <1>4
  <1>6. ASSUME pass[p].phase = "fetching"
        PROVE  /\ pass[p].page \in 1..MaxPages
               /\ (pass[p].page - 1) * PageSize <= Len(report'[d])
               /\ First(d, (pass[p].page - 1) * PageSize)' \subseteq pass[p].rows
    <2> DEFINE m == (pass[p].page - 1) * PageSize
    <2>1. pass[p].page \in 1..MaxPages /\ m <= Len(report[d]) /\ First(d, m) \subseteq pass[p].rows
      BY <1>6 DEF Paged
    <2>2. pass[p].page - 1 \in Nat
      BY <2>1, BoundsType
    <2>3. m \in Nat
      BY <2>2, BoundsType
    <2> HIDE DEF m
    <2>4. m \in 0..Len(report[d])
      BY <1>2, <2>1, <2>3
    <2>5. First(d, m)' = First(d, m)
      BY <1>3, <2>4 DEF m
    <2> QED
      BY <1>2, <2>1, <2>3, <2>5, SMTT(30) DEF m
  <1>7. \E x \in 0..Len(report'[d]) : pass'[p].due = First(d, x)'
    BY <1>5
  <1> QED
    BY <1>6, <1>7 DEF Paged

-----------------------------------------------------------------------------
(* The steps keep the invariant *)

LEMMA FetchPaged ==
  ASSUME PassInv, NEW p \in Passes, FetchPage(p)
  PROVE  /\ pass' \in [Passes -> {NoPass} \union PassRecords]
         /\ \A q \in Passes : q # p => pass'[q] = pass[q]
         /\ pass'[p].date = pass[p].date /\ pass'[p].nightly = pass[p].nightly
         /\ pass[p].phase # "idle" /\ pass'[p].phase # "idle"
         /\ Paged(p)'
  <1>0. pass[p] \in PassRecords /\ pass[p].phase = "fetching" /\ ReconcileTypeOK
    BY PassHeld DEF PassInv, FetchPage
  <1>1. PICK d \in Dates, k \in Nat : d = pass[p].date /\ k = pass[p].page
    BY <1>0 DEF PassRecords
  <1> DEFINE page == Page(d, k)
  <1>2. page \subseteq Rows
    BY <1>0, PageIsRows
  <1> DEFINE then == IF LastPage(page, k) THEN "fetched" ELSE "fetching"
             new == [pass[p] EXCEPT !.rows = pass[p].rows \union page, !.page = k + 1,
                                    !.phase = then]
  <1>3. pass' = [pass EXCEPT ![p] = new] /\ UNCHANGED <<arrived, report>>
    <2>1. pass' = [pass EXCEPT ![p].rows = pass[p].rows \union page, ![p].page = k + 1,
                               ![p].phase = then]
      BY <1>1 DEF FetchPage
    <2>2. UNCHANGED <<arrived, report>>
      BY DEF FetchPage
    <2> QED
      BY <1>1, <2>1, <2>2
  <1> HIDE DEF page
  <1>4. /\ pass'[p] \in PassRecords
        /\ pass'[p].date = d /\ pass'[p].nightly = pass[p].nightly
        /\ pass'[p].tenders = pass[p].tenders /\ pass'[p].due = pass[p].due
        /\ pass'[p].rows = pass[p].rows \union page /\ pass'[p].page = k + 1
        /\ pass'[p].phase = IF LastPage(page, k) THEN "fetched" ELSE "fetching"
        /\ \A q \in Passes : q # p => pass'[q] = pass[q]
    <2>1. then \in {"fetching", "fetched"} /\ pass[p].rows \union page \subseteq Rows
      BY <1>0, <1>2 DEF PassRecords
    <2>3. pass'[p] = new /\ \A q \in Passes : q # p => pass'[q] = pass[q]
      BY <1>0, <1>3 DEF ReconcileTypeOK
    <2>4. /\ new.date = d /\ new.nightly = pass[p].nightly /\ new.tenders = pass[p].tenders
          /\ new.due = pass[p].due /\ new.rows = pass[p].rows \union page
          /\ new.page = k + 1 /\ new.phase = then
      BY <1>0, <1>1 DEF PassRecords
    <2>5. new \in PassRecords
      <3> DEFINE more == pass[p].rows \union page
      <3>1. /\ [pass[p] EXCEPT !.rows = more] \in PassRecords
            /\ [pass[p] EXCEPT !.rows = more].page = k
        BY <1>0, <1>1, <2>1 DEF PassRecords
      <3> HIDE DEF then, more
      <3>2. k + 1 \in Nat
        OBVIOUS
      <3>3. \A x \in PassRecords, y \in SUBSET Rows, n \in Nat, z \in {"fetching", "fetched"} :
               [x EXCEPT !.rows = y, !.page = n, !.phase = z] \in PassRecords
        BY DEF PassRecords
      <3> QED
        BY <1>0, <2>1, <3>2, <3>3 DEF more
    <2> HIDE DEF new
    <2> QED
      BY <2>3, <2>4, <2>5
  <1>5. pass' \in [Passes -> {NoPass} \union PassRecords]
    <2>1. pass' = [q \in Passes |-> pass'[q]] /\ pass \in [Passes -> {NoPass} \union PassRecords]
      BY <1>0, <1>3 DEF ReconcileTypeOK, PassRecords
    <2>2. \A q \in Passes : pass'[q] \in {NoPass} \union PassRecords
      BY <1>4, <2>1
    <2> QED
      BY <2>1, <2>2
  <1>6. /\ pass[p].tenders \subseteq arrived
        /\ \E n \in 0..Len(report[d]) : pass[p].due = First(d, n)
        /\ k \in 1..MaxPages /\ (k - 1) * PageSize <= Len(report[d])
        /\ First(d, (k - 1) * PageSize) \subseteq pass[p].rows
    BY <1>0, <1>1 DEF PassInv, PagingInv, Paged
  <1>7. PICK n \in 0..Len(report[d]) : pass[p].due = First(d, n)
    BY <1>6
  <1>8. /\ k \in Nat \ {0} /\ k - 1 \in Nat
    BY <1>6, BoundsType
  <1>9. /\ (k - 1) * PageSize \in Nat /\ k * PageSize = (k - 1) * PageSize + PageSize
        /\ First(d, k * PageSize) = First(d, (k - 1) * PageSize) \union page
        /\ k * PageSize <= Len(report[d]) => Cardinality(page) = PageSize
    BY <1>1, <1>8, PageCounts DEF PassInv, page
  <1>10. Len(report[d]) \in Nat /\ n \in Nat /\ n <= Len(report[d])
    <2>1. report[d] \in Seq(Rows)
      BY <1>0 DEF ReconcileTypeOK
    <2>2. Len(report[d]) \in Nat
      BY <2>1, LenProperties
    <2> QED
      BY <2>2, <1>7
  <1>11. First(d, k * PageSize) \subseteq pass'[p].rows
    BY <1>4, <1>6, <1>9
  <1>12. ASSUME pass'[p].phase = "fetching"
         PROVE  /\ k + 1 \in 1..MaxPages /\ k * PageSize <= Len(report[d])
    <2>1. ~LastPage(page, k)
      BY <1>4, <1>12
    <2>2. k # MaxPages /\ ~(Cardinality(page) < PageSize)
      BY <2>1 DEF LastPage
    <2>3. k + 1 \in 1..MaxPages
      BY <1>6, <2>2, BoundsType, SMTT(30)
    <2>4. k * PageSize <= Len(report[d])
      <3> SUFFICES ASSUME ~(k * PageSize <= Len(report[d])) PROVE FALSE
        OBVIOUS
      <3> DEFINE lo == (k - 1) * PageSize
      <3>1. lo \in Nat /\ lo <= Len(report[d]) /\ k * PageSize = lo + PageSize
        BY <1>6, <1>9
      <3>2. page = {report[d][i] : i \in {j \in 1..Len(report[d]) : lo < j /\ j <= Len(report[d])}}
        <4>1. page = {report[d][i] : i \in {j \in 1..Len(report[d]) : lo < j /\ j <= k * PageSize}}
          BY DEF Page, page
        <4>2. \A j \in 1..Len(report[d]) : j <= k * PageSize /\ j <= Len(report[d])
          BY <1>10, <3>1, BoundsType
        <4> HIDE DEF lo
        <4> QED
          BY <4>1, <4>2
      <3>3. report[d] \in Seq(Rows) /\ \A i, j \in 1..Len(report[d]) : report[d][i] = report[d][j] => i = j
        BY <1>0 DEF PassInv, NoRepeats, ReconcileTypeOK
      <3>4. Cardinality(page) = Len(report[d]) - lo
        <4> DEFINE s == report[d]
        <4>1. s \in Seq(Rows) /\ (\A i, j \in 1..Len(s) : s[i] = s[j] => i = j) /\ Len(s) \in Nat
              /\ Len(s) <= Len(s) /\ lo <= Len(s)
          BY <1>10, <3>1, <3>3, SMTT(30)
        <4> HIDE DEF s, lo
        <4>2. Cardinality({s[i] : i \in {j \in 1..Len(s) : lo < j /\ j <= Len(s)}}) = Len(s) - lo
          BY <3>1, <4>1, StretchCounts
        <4> QED
          BY <3>2, <4>2 DEF s
      <3>5. Cardinality(page) < PageSize
        <4> HIDE DEF lo
        <4> QED
          BY <1>10, <3>1, <3>4, BoundsType
      <3> QED
        BY <2>2, <3>5
    <2> QED
      BY <2>3, <2>4
  <1>13. ASSUME pass'[p].phase = "fetched", Cardinality(pass'[p].due) <= PageSize * MaxPages
         PROVE  pass'[p].due \subseteq pass'[p].rows
    <2>1. LastPage(page, k)
      BY <1>4, <1>13
    <2>2. Cardinality(pass'[p].due) = n
      BY <1>1, <1>4, <1>7, FirstCounts DEF PassInv
    <2>3. n <= k * PageSize
      <3>1. CASE k = MaxPages
        BY <1>13, <2>2, <3>1, BoundsType
      <3>2. CASE Cardinality(page) < PageSize
        <4>1. ~(k * PageSize <= Len(report[d]))
          BY <1>9, <3>2, BoundsType
        <4> QED
          BY <1>9, <1>10, <4>1, BoundsType
      <3> QED
        BY <2>1, <3>1, <3>2 DEF LastPage
    <2>4. First(d, n) \subseteq First(d, k * PageSize)
      <3> DEFINE hi == k * PageSize
      <3>1. hi \in Nat /\ n <= hi
        BY <1>9, <2>3, BoundsType
      <3> HIDE DEF hi
      <3>2. First(d, n) \subseteq First(d, hi)
        BY <1>10, <3>1 DEF First
      <3> QED
        BY <3>2 DEF hi
    <2> QED
      BY <1>4, <1>7, <1>11, <2>4
  <1>14. \E x \in 0..Len(report'[d]) : pass'[p].due = First(d, x)'
    <2>1. First(d, n)' = First(d, n)
      BY <1>3 DEF First
    <2> QED
      BY <1>3, <1>4, <1>7, <2>1
  <1>15. pass'[p].phase = "fetching" =>
            /\ pass'[p].page \in 1..MaxPages
            /\ (pass'[p].page - 1) * PageSize <= Len(report'[d])
            /\ First(d, (pass[p].page - 1) * PageSize)' \subseteq pass'[p].rows
    <2>1. pass'[p].page - 1 = k
      BY <1>4, <1>8
    <2>2. First(d, k * PageSize)' = First(d, k * PageSize)
      BY <1>3 DEF First
    <2> QED
      BY <1>3, <1>4, <1>11, <1>12, <2>1, <2>2
  <1>16. Paged(p)'
    BY <1>3, <1>4, <1>6, <1>13, <1>14, <1>15 DEF Paged
  <1> QED
    BY <1>0, <1>1, <1>4, <1>5, <1>16

LEMMA BrokenPaged ==
  ASSUME PassInv, NEW p \in Passes, FetchBroken(p)
  PROVE  /\ pass' \in [Passes -> {NoPass} \union PassRecords]
         /\ \A q \in Passes : q # p => pass'[q] = pass[q]
         /\ pass'[p].date = pass[p].date /\ pass'[p].nightly = pass[p].nightly
         /\ pass[p].phase # "idle" /\ pass'[p].phase # "idle"
         /\ Paged(p)'
  <1>1. pass[p] \in PassRecords /\ pass[p].phase = "fetching" /\ ReconcileTypeOK
    BY PassHeld DEF PassInv, FetchBroken
  <1> DEFINE new == [pass[p] EXCEPT !.phase = "partial"]
  <1>2. pass' = [pass EXCEPT ![p] = new] /\ UNCHANGED <<arrived, report>>
    BY DEF FetchBroken
  <1>3. /\ new \in PassRecords /\ new.date = pass[p].date /\ new.nightly = pass[p].nightly
        /\ new.tenders = pass[p].tenders /\ new.due = pass[p].due /\ new.phase = "partial"
    BY <1>1 DEF PassRecords
  <1> HIDE DEF new
  <1>4. /\ pass' \in [Passes -> {NoPass} \union PassRecords] /\ pass'[p] = new
        /\ \A q \in Passes : q # p => pass'[q] = pass[q]
    BY <1>1, <1>2, <1>3 DEF ReconcileTypeOK, PassRecords
  <1>5. PICK d : d = pass[p].date
    OBVIOUS
  <1>6. pass[p].tenders \subseteq arrived /\ \E n \in 0..Len(report[d]) : pass[p].due = First(d, n)
    BY <1>1, <1>5 DEF PassInv, PagingInv, Paged
  <1>7. \A n : First(d, n)' = First(d, n)
    BY <1>2 DEF First
  <1>8. Paged(p)'
    BY <1>2, <1>3, <1>4, <1>5, <1>6, <1>7 DEF Paged
  <1> QED
    BY <1>1, <1>3, <1>4, <1>8

(* A flip verifies one tender, and no two the same. *)
LEMMA FlipsCount ==
  ASSUME NEW T \in SUBSET Tenders, NEW R \in SUBSET Rows, NEW flips \in SUBSET Matches(T, R)
  PROVE  /\ {m[1] : m \in flips} \subseteq T
         /\ IsFiniteSet({m[1] : m \in flips})
         /\ Cardinality(flips) = Cardinality({m[1] : m \in flips})
         /\ Cardinality(flips) \in Nat
  <1> DEFINE served == {m[1] : m \in flips}
             of == [t \in served |-> CHOOSE m \in flips : m[1] = t]
  <1>1. ServesInOrder(Matches(T, R), T, R)
    BY MatchesServe
  <1>2. \A m \in flips : m \in T \X R /\ m = <<m[1], m[2]>>
    BY <1>1 DEF ServesInOrder
  <1>3. \A m, k \in flips : m[1] = k[1] => m = k
    <2>1. \A m, k \in flips : m[1] = k[1] => m[2] = k[2]
      BY <1>1 DEF ServesInOrder
    <2> QED
      BY <1>2, <2>1
  <1>4. served \subseteq T
    BY <1>2
  <1>5. IsFiniteSet(served)
    BY <1>4, FS_Subset, BoundsType
  <1>6. \A t \in served : of[t] \in flips /\ of[t][1] = t
    OBVIOUS
  <1>7. \A m \in flips : m[1] \in served /\ of[m[1]] = m
    BY <1>3, <1>6
  <1>8. of \in [served -> flips]
    BY <1>6
  <1> HIDE DEF served, of
  <1>9. of \in Bijection(served, flips)
    BY <1>6, <1>7, <1>8 DEF Bijection, Injection, Surjection, IsInjective
  <1>10. ExistsBijection(served, flips)
    BY <1>9 DEF ExistsBijection
  <1>11. Cardinality(flips) = Cardinality(served) /\ Cardinality(served) \in Nat
    BY <1>5, <1>10, FS_Bijection, FS_CardinalityType
  <1> QED
    BY <1>4, <1>5, <1>11 DEF served

(* What a pass that ends verifies was listed, unverified, and is counted. *)
LEMMA MarkCounts ==
  ASSUME PassInv, NEW p \in Passes, MatchAndMark(p)
  PROVE  \E news \in SUBSET arrived :
            /\ news \cap verified = {} /\ IsFiniteSet(news)
            /\ verified' = verified \union news
            /\ Cardinality(news) \in Nat /\ counted' = counted + Cardinality(news)
  <1> DEFINE T == pass[p].tenders
             R == pass[p].rows
             flips == MarkMatched(Matches(T, R))
             news == {m[1] : m \in flips}
  <1>1. pass[p] \in PassRecords /\ pass[p].phase # "idle"
    BY PassHeld DEF PassInv, MatchAndMark
  <1>2. T \in SUBSET Tenders /\ R \in SUBSET Rows /\ T \subseteq arrived
    BY <1>1 DEF PassRecords, PassInv, PagingInv, Paged
  <1>3. flips \in SUBSET Matches(T, R) /\ \A m \in flips : m[1] \notin verified
    BY DEF MarkMatched
  <1>4. verified' = verified \union news /\ counted' = counted + Cardinality(flips)
    BY DEF MatchAndMark
  <1> HIDE DEF T, R, flips
  <1>5. /\ news \subseteq T /\ IsFiniteSet(news)
        /\ Cardinality(flips) = Cardinality(news) /\ Cardinality(flips) \in Nat
    BY <1>2, <1>3, FlipsCount
  <1>6. news \cap verified = {}
    BY <1>3
  <1> HIDE DEF news
  <1> QED
    BY <1>2, <1>4, <1>5, <1>6

LEMMA ReconcileStart == ReconcileInit => PassInv /\ EveryFlipCountedOnce
  <1> SUFFICES ASSUME ReconcileInit PROVE PassInv /\ EveryFlipCountedOnce
    OBVIOUS
  <1>1. \A d \in Dates : report[d] = <<>> /\ Len(report[d]) = 0
    BY DEF ReconcileInit
  <1>2. ReconcileTypeOK
    <2>1. report \in [Dates -> Seq(Rows)]
      BY DEF ReconcileInit
    <2>2. job \in [Dates -> [state : {"absent", "waiting", "active", "completed", "failed"},
                             failures : 0..MaxAttempts]]
      BY BoundsType DEF ReconcileInit
    <2>3. pass \in [Passes -> {NoPass} \union
             [phase : {"fetching", "fetched", "partial"}, date : Dates, nightly : BOOLEAN,
              tenders : SUBSET Tenders, rows : SUBSET Rows, due : SUBSET Rows, page : Nat]]
      BY DEF ReconcileInit
    <2> QED
      BY <2>1, <2>2, <2>3 DEF ReconcileInit, ReconcileTypeOK
  <1>3. \A p \in Passes : pass[p].phase = "idle"
    BY DEF ReconcileInit, NoPass
  <1>4. NightlyInv
    <2>1. \A d \in Dates : job[d].failures < MaxAttempts
      BY BoundsType DEF ReconcileInit
    <2> QED
      BY <1>3, <2>1 DEF NightlyInv, Nightly
  <1>5. NoRepeats /\ PagingInv
    BY <1>1, <1>3 DEF NoRepeats, PagingInv
  <1>6. EveryFlipCountedOnce
    BY FS_EmptySet DEF ReconcileInit, EveryFlipCountedOnce
  <1> QED
    BY <1>2, <1>4, <1>5, <1>6 DEF PassInv

LEMMA RepeatsNext ==
  ASSUME ReconcileTypeOK, NoRepeats, [ReconcileNext]_reconcileVars
  PROVE  NoRepeats' /\ report' \in [Dates -> Seq(Rows)]
  <1>1. ASSUME NEW r \in Rows, RowPosted(r) PROVE NoRepeats' /\ report' \in [Dates -> Seq(Rows)]
    <2> DEFINE e == DateOf(SettledAt[r])
    <2>1. e \in Dates /\ r \notin InReport(e) /\ report' = [report EXCEPT ![e] = Append(@, r)]
      BY <1>1 DEF RowPosted
    <2> HIDE DEF e
    <2>2. report[e] \in Seq(Rows)
      BY <2>1 DEF ReconcileTypeOK
    <2>3. /\ Append(report[e], r) \in Seq(Rows)
          /\ Len(report[e]) \in Nat /\ Len(Append(report[e], r)) = Len(report[e]) + 1
          /\ \A i \in 1..Len(report[e]) : Append(report[e], r)[i] = report[e][i]
          /\ Append(report[e], r)[Len(report[e]) + 1] = r
      BY <2>2, AppendProperties, LenProperties
    <2>4. /\ report' \in [Dates -> Seq(Rows)]
          /\ \A d \in Dates : report'[d] = IF d = e THEN Append(report[e], r) ELSE report[d]
      BY <2>1, <2>3 DEF ReconcileTypeOK
    <2>5. \A i \in 1..Len(report[e]) : report[e][i] # r
      BY <2>1 DEF InReport
    <2>6. ASSUME NEW d \in Dates, NEW i \in 1..Len(report'[d]), NEW j \in 1..Len(report'[d]),
                 report'[d][i] = report'[d][j]
          PROVE  i = j
      <3>1. CASE d # e
        BY <2>4, <2>6, <3>1 DEF NoRepeats
      <3>2. CASE d = e
        <4> DEFINE n == Len(report[e])
        <4>1. i \in 1..n + 1 /\ j \in 1..n + 1 /\ n \in Nat
          BY <2>3, <2>4, <3>2
        <4>2. Append(report[e], r)[i] = Append(report[e], r)[j]
          BY <2>4, <2>6, <3>2
        <4>3. CASE i = n + 1 \/ j = n + 1
          BY <2>3, <2>5, <4>1, <4>2, <4>3
        <4>4. CASE i # n + 1 /\ j # n + 1
          <5>1. i \in 1..n /\ j \in 1..n
            BY <4>1, <4>4
          <5>2. report[e][i] = report[e][j]
            BY <2>3, <4>2, <5>1
          <5> QED
            BY <2>1, <5>1, <5>2 DEF NoRepeats
        <4> QED
          BY <4>3, <4>4
      <3> QED
        BY <3>1, <3>2
    <2> QED
      BY <2>4, <2>6 DEF NoRepeats
  <1>2. CASE ~(\E r \in Rows : RowPosted(r))
    <2>1. report' = report
      BY <1>2 DEF ReconcileNext, TenderArrives, ManualMatch, NextDay, ScheduleTick, StartJob,
         RunPass, FetchPage, FetchBroken, FetchFails, WorkerDies, MatchAndMark, reconcileVars
    <2> QED
      BY <2>1 DEF NoRepeats, ReconcileTypeOK
  <1> QED
    BY <1>1, <1>2

LEMMA ArrivedGrows ==
  ASSUME ReconcileTypeOK, [ReconcileNext]_reconcileVars
  PROVE  arrived \subseteq arrived' /\ arrived' \subseteq Tenders
  BY DEF ReconcileNext, TenderArrives, ManualMatch, NextDay, ScheduleTick, StartJob,
     RunPass, RowPosted, FetchPage, FetchBroken, FetchFails, WorkerDies, MatchAndMark, reconcileVars,
     ReconcileTypeOK

(* What a step verifies: nothing, or tenders that were not and are counted. *)
LEMMA VerifiedSteps ==
  ASSUME PassInv, [ReconcileNext]_reconcileVars
  PROVE  \E news \in SUBSET arrived :
            /\ news \cap verified = {} /\ IsFiniteSet(news)
            /\ verified' = verified \union news
            /\ Cardinality(news) \in Nat /\ counted' = counted + Cardinality(news)
  <1>1. CASE \E p \in Passes : MatchAndMark(p)
    BY <1>1, MarkCounts
  <1>2. ASSUME NEW t \in Tenders, ManualMatch(t)
        PROVE  /\ {t} \in SUBSET arrived /\ {t} \cap verified = {} /\ IsFiniteSet({t})
               /\ verified' = verified \union {t}
               /\ Cardinality({t}) \in Nat /\ counted' = counted + Cardinality({t})
    <2>1. IsFiniteSet({t}) /\ Cardinality({t}) = 1
      BY FS_Singleton
    <2>2. t \in arrived \ verified /\ verified' = verified \union {t} /\ counted' = counted + 1
      BY <1>2 DEF ManualMatch
    <2> QED
      BY <2>1, <2>2
  <1>3. CASE \E t \in Tenders : ManualMatch(t)
    BY <1>2, <1>3
  <1>4. CASE ~(\E p \in Passes : MatchAndMark(p)) /\ ~(\E t \in Tenders : ManualMatch(t))
    <2>1. UNCHANGED <<verified, counted>>
      BY <1>4 DEF ReconcileNext, TenderArrives, NextDay, ScheduleTick, StartJob,
         RunPass, RowPosted, FetchPage, FetchBroken, FetchFails, WorkerDies, reconcileVars
    <2>2. /\ {} \in SUBSET arrived /\ {} \cap verified = {} /\ IsFiniteSet({})
          /\ verified' = verified \union {} /\ Cardinality({}) = 0
      BY <2>1, FS_EmptySet
    <2>3. counted' = counted + 0
      BY <2>1 DEF PassInv, ReconcileTypeOK
    <2> QED
      BY <2>2, <2>3
  <1> QED
    BY <1>1, <1>3, <1>4

LEMMA CountedNext ==
  ASSUME PassInv, EveryFlipCountedOnce, [ReconcileNext]_reconcileVars
  PROVE  EveryFlipCountedOnce'
  <1>1. PICK news \in SUBSET arrived :
            /\ news \cap verified = {} /\ IsFiniteSet(news)
            /\ verified' = verified \union news
            /\ Cardinality(news) \in Nat /\ counted' = counted + Cardinality(news)
    BY VerifiedSteps
  <1>2. IsFiniteSet(verified)
    <2>1. verified \in SUBSET Tenders
      BY DEF PassInv, ReconcileTypeOK
    <2> QED
      BY <2>1, BoundsType, FS_Subset
  <1>3. Cardinality(verified) \in Nat
    BY <1>2, FS_CardinalityType
  <1>4. Cardinality(verified \union news)
           = Cardinality(verified) + Cardinality(news) - Cardinality(verified \cap news)
    BY <1>1, <1>2, FS_Union
  <1>5. Cardinality(verified \cap news) = 0
    <2>1. verified \cap news = {}
      BY <1>1
    <2> QED
      BY <2>1, FS_EmptySet
  <1> QED
    BY <1>1, <1>3, <1>4, <1>5 DEF EveryFlipCountedOnce

(* Steps that leave the passes alone. *)
LEMMA QuietNightly ==
  ASSUME PassInv, pass' = pass, ScheduleTick \/ job' = job
  PROVE  job' \in [Dates -> JobRecords] /\ NightlyInv'
  <1>1. CASE job' = job
    BY <1>1 DEF PassInv, NightlyInv, Nightly, ReconcileTypeOK, JobRecords
  <1>2. CASE ScheduleTick
    <2> DEFINE d == today - 1
    <2>1. d \in Dates /\ job[d].state = "absent" /\ job' = [job EXCEPT ![d].state = "waiting"]
      BY <1>2 DEF ScheduleTick
    <2> HIDE DEF d
    <2>2. /\ job' \in [Dates -> JobRecords]
          /\ job'[d].state = "waiting" /\ job'[d].failures = job[d].failures
          /\ \A x \in Dates : x # d => job'[x] = job[x]
      BY <2>1, StateSet, ZenonT(30) DEF PassInv
    <2>3. \A x \in Dates : job'[x].state \in {"absent", "waiting", "active"} =>
                              job'[x].failures < MaxAttempts
      BY <2>1, <2>2 DEF PassInv, NightlyInv
    <2>4. ASSUME NEW q \in Passes, Nightly(q)
          PROVE  pass[q].date \in Dates /\ job'[pass[q].date].state = "active"
      <3>1. pass[q].date \in Dates
        BY <2>4, PassHeld DEF PassInv, Nightly, PassRecords
      <3>2. job[pass[q].date].state = "active"
        BY <2>4 DEF PassInv, NightlyInv
      <3> QED
        BY <2>1, <2>2, <3>1, <3>2
    <2>5. \A q \in Passes : Nightly(q)' <=> Nightly(q)
      BY DEF Nightly
    <2> QED
      BY <2>2, <2>3, <2>4, <2>5 DEF PassInv, NightlyInv
  <1> QED
    BY <1>1, <1>2

(* The passes after a step: one at most began, fetched or ended. *)
LEMMA PassesNext ==
  ASSUME PassInv, [ReconcileNext]_reconcileVars
  PROVE  /\ job' \in [Dates -> JobRecords] /\ NightlyInv'
         /\ pass' \in [Passes -> {NoPass} \union PassRecords]
         /\ PagingInv'
  <1>0. ReconcileTypeOK /\ NightlyInv /\ PagingInv
    BY DEF PassInv
  <1> DEFINE Kept(q) == pass'[q] = pass[q] /\ (pass[q].phase # "idle" => Paged(q))
  <1>1. ASSUME NEW q \in Passes, pass'[q] = pass[q], pass'[q].phase # "idle"
        PROVE  Paged(q)'
    <2>1. Paged(q)
      BY <1>0, <1>1 DEF PagingInv
    <2> QED
      BY <1>0, <1>1, <2>1, PagedKept, ArrivedGrows
  <1>2. CASE pass' = pass /\ (ScheduleTick \/ job' = job)
    <2>1. job' \in [Dates -> JobRecords] /\ NightlyInv'
      BY <1>2, QuietNightly
    <2>2. pass' \in [Passes -> {NoPass} \union PassRecords]
      BY <1>0, <1>2 DEF ReconcileTypeOK, PassRecords
    <2>3. PagingInv'
      BY <1>1, <1>2 DEF PagingInv
    <2> QED
      BY <2>1, <2>2, <2>3
  <1>3. ASSUME NEW p \in Passes, NEW d \in Dates, StartJob(p, d) \/ RunPass(p, d)
        PROVE  /\ job' \in [Dates -> JobRecords] /\ NightlyInv'
               /\ pass' \in [Passes -> {NoPass} \union PassRecords]
               /\ PagingInv'
    <2>1. /\ job' \in [Dates -> JobRecords] /\ NightlyInv'
          /\ pass' \in [Passes -> {NoPass} \union PassRecords]
          /\ pass'[p].tenders \subseteq arrived /\ pass'[p].date = d
          /\ pass'[p].due = InReport(d) /\ pass'[p].page = 1 /\ pass'[p].phase = "fetching"
          /\ \A q \in Passes : q # p => pass'[q] = pass[q]
      BY <1>0, <1>3, BeginsNightly
    <2>2. UNCHANGED <<arrived, report>>
      BY <1>3 DEF StartJob, RunPass
    <2>3. report[d] \in Seq(Rows) /\ Len(report[d]) \in Nat
      <3>1. report[d] \in Seq(Rows)
        BY <1>0 DEF ReconcileTypeOK
      <3> QED
        BY <3>1, LenProperties
    <2>4. InReport(d) = First(d, Len(report[d])) /\ First(d, 0) = {}
      <3>1. \A i \in 1..Len(report[d]) : report[d][i] \in Rows
        BY <2>3, ElementOfSeq
      <3> QED
        BY <2>3, <3>1 DEF InReport, First
    <2>5. /\ pass'[p].due = First(d, Len(report[d]))'
          /\ First(d, 0)' = {} /\ Len(report[d]) \in 0..Len(report'[d])
      <3>1. First(d, Len(report[d]))' = First(d, Len(report[d]))
        BY <2>2 DEF First
      <3>2. First(d, 0)' = First(d, 0)
        BY <2>2 DEF First
      <3>3. Len(report[d]) \in 0..Len(report'[d])
        BY <2>2, <2>3
      <3> QED
        BY <2>1, <2>4, <3>1, <3>2, <3>3
    <2>6. Paged(p)'
      <3>1. \E n \in 0..Len(report'[d]) : pass'[p].due = First(d, n)'
        <4>1. PICK n \in Nat : n = Len(report[d])
          BY <2>3
        <4>2. pass'[p].due = First(d, n)' /\ n \in 0..Len(report'[d])
          BY <2>2, <2>5, <4>1
        <4> QED
          BY <4>2
      <3>2. pass'[p].page \in 1..MaxPages /\ pass'[p].page - 1 = 0 /\ 0 * PageSize = 0
        BY <2>1, BoundsType
      <3>3. (pass'[p].page - 1) * PageSize <= Len(report'[d])
        BY <2>2, <2>3, <3>2
      <3> QED
        BY <2>1, <2>2, <2>5, <3>1, <3>2, <3>3 DEF Paged
    <2>7. PagingInv'
      BY <1>1, <2>1, <2>6 DEF PagingInv
    <2> QED
      BY <2>1, <2>7
  <1>4. ASSUME NEW p \in Passes, FetchPage(p) \/ FetchBroken(p)
        PROVE  /\ job' \in [Dates -> JobRecords] /\ NightlyInv'
               /\ pass' \in [Passes -> {NoPass} \union PassRecords]
               /\ PagingInv'
    <2>1. /\ pass' \in [Passes -> {NoPass} \union PassRecords]
          /\ \A q \in Passes : q # p => pass'[q] = pass[q]
          /\ pass'[p].date = pass[p].date /\ pass'[p].nightly = pass[p].nightly
          /\ pass[p].phase # "idle" /\ pass'[p].phase # "idle"
          /\ Paged(p)'
      BY <1>4, FetchPaged, BrokenPaged
    <2>2. job' = job
      BY <1>4 DEF FetchPage, FetchBroken
    <2>3. \A q \in Passes : (Nightly(q)' <=> Nightly(q)) /\ (Nightly(q) => pass'[q].date = pass[q].date)
      BY <2>1 DEF Nightly
    <2>4. NightlyInv' /\ job' \in [Dates -> JobRecords]
      BY <1>0, <2>2, <2>3 DEF NightlyInv, ReconcileTypeOK, JobRecords
    <2>5. PagingInv'
      BY <1>1, <2>1 DEF PagingInv
    <2> QED
      BY <2>1, <2>4, <2>5
  <1>5. ASSUME NEW p \in Passes, FetchFails(p) \/ WorkerDies(p) \/ MatchAndMark(p)
        PROVE  /\ job' \in [Dates -> JobRecords] /\ NightlyInv'
               /\ pass' \in [Passes -> {NoPass} \union PassRecords]
               /\ PagingInv'
    <2>1. PICK outcome \in {"completed", "stalled", "failed"} : JobEnds(p, outcome)
      BY <1>5 DEF FetchFails, WorkerDies, MatchAndMark
    <2>2. pass[p].phase # "idle" /\ pass' = [pass EXCEPT ![p] = NoPass]
      BY <1>5 DEF FetchFails, WorkerDies, MatchAndMark
    <2>3. /\ job' \in [Dates -> JobRecords] /\ NightlyInv'
          /\ pass' \in [Passes -> {NoPass} \union PassRecords]
      BY <1>0, <2>1, <2>2, EndsNightly
    <2>4. \A q \in Passes : pass'[q].phase # "idle" => pass'[q] = pass[q]
      BY <1>0, <2>2 DEF ReconcileTypeOK, NoPass
    <2>5. PagingInv'
      BY <1>1, <2>4 DEF PagingInv
    <2> QED
      BY <2>3, <2>5
  <1>6. CASE /\ ~(\E p \in Passes, d \in Dates : StartJob(p, d) \/ RunPass(p, d))
             /\ ~(\E p \in Passes : FetchPage(p) \/ FetchBroken(p) \/ FetchFails(p) \/ WorkerDies(p) \/ MatchAndMark(p))
    <2>1. pass' = pass /\ (ScheduleTick \/ job' = job)
      BY <1>6 DEF ReconcileNext, TenderArrives, ManualMatch, NextDay, RowPosted, ScheduleTick,
         reconcileVars
    <2> QED
      BY <1>2, <2>1
  <1>7. CASE \E p \in Passes, d \in Dates : StartJob(p, d) \/ RunPass(p, d)
    BY <1>3, <1>7
  <1>8. CASE \E p \in Passes : FetchPage(p) \/ FetchBroken(p) \/ FetchFails(p) \/ WorkerDies(p) \/ MatchAndMark(p)
    BY <1>4, <1>5, <1>8
  <1> QED
    BY <1>6, <1>7, <1>8

LEMMA PassInvNext == PassInv /\ [ReconcileNext]_reconcileVars => PassInv'
  <1> SUFFICES ASSUME PassInv, [ReconcileNext]_reconcileVars PROVE PassInv'
    OBVIOUS
  <1>1. ReconcileTypeOK
    BY DEF PassInv
  <1>2. /\ job' \in [Dates -> JobRecords] /\ NightlyInv'
        /\ pass' \in [Passes -> {NoPass} \union PassRecords] /\ PagingInv'
    BY PassesNext
  <1>3. NoRepeats' /\ report' \in [Dates -> Seq(Rows)]
    BY <1>1, RepeatsNext DEF PassInv
  <1>4. arrived \subseteq arrived' /\ arrived' \subseteq Tenders
    BY <1>1, ArrivedGrows
  <1>5. verified' \subseteq arrived' /\ counted' \in Nat
    <2>1. \E news \in SUBSET arrived :
            /\ verified' = verified \union news
            /\ Cardinality(news) \in Nat /\ counted' = counted + Cardinality(news)
      BY VerifiedSteps
    <2> QED
      BY <1>1, <1>4, <2>1 DEF ReconcileTypeOK
  <1>6. today' \in Dates /\ deaths' \in Nat
    <2>1. today' = today \/ today' \in Dates
      BY DEF ReconcileNext, TenderArrives, ManualMatch, NextDay, ScheduleTick, StartJob,
         RunPass, RowPosted, FetchPage, FetchBroken, FetchFails, WorkerDies, MatchAndMark, reconcileVars
    <2>2. deaths' = deaths \/ deaths' = deaths + 1
      BY DEF ReconcileNext, TenderArrives, ManualMatch, NextDay, ScheduleTick, StartJob,
         RunPass, RowPosted, FetchPage, FetchBroken, FetchFails, WorkerDies, MatchAndMark, reconcileVars
    <2> QED
      BY <1>1, <2>1, <2>2 DEF ReconcileTypeOK
  <1>7. ReconcileTypeOK'
    BY <1>2, <1>3, <1>4, <1>5, <1>6 DEF ReconcileTypeOK, PassRecords, JobRecords
  <1> QED
    BY <1>2, <1>3, <1>7 DEF PassInv

-----------------------------------------------------------------------------
(* The theorems *)

(* The state has its type, a job that may run has attempts left and at most   *)
(* one pass at work for it, and a pass holds the rows of the pages it read,   *)
(* the whole report unless a broken body passed for its last page.            *)
THEOREM PassesInvariant == ReconcileSpec => []PassInv
  BY ReconcileStart, PassInvNext, PTL DEF ReconcileSpec

(* The pairing of what is listed with what is on the report is the one        *)
(* matcher.ts 11-26 promises, for any tenders, rows, keys, minutes and window.*)
THEOREM PairedAsPromised == ReconcileSpec => []MatcherServesInOrder
  <1>1. ReconcileTypeOK => MatcherServesInOrder
    <2> SUFFICES ASSUME ReconcileTypeOK, NEW d \in Dates
                 PROVE  ServesInOrder(Matches(Listed(d), InReport(d)), Listed(d), InReport(d))
      BY DEF MatcherServesInOrder
    <2>1. Listed(d) \in SUBSET Tenders /\ InReport(d) \in SUBSET Rows
      BY DEF ReconcileTypeOK, Listed, DayOfTenders, InReport
    <2> QED
      BY <2>1, MatchesServe
  <1>2. PassInv => MatcherServesInOrder
    BY <1>1 DEF PassInv
  <1> QED
    BY <1>2, PassesInvariant, PTL

(* Whatever passes, retries, dead workers and manual matches interleave, the  *)
(* counts shown add up to the tenders verified: none is counted twice.        *)
THEOREM FlipsCounted == ReconcileSpec => []EveryFlipCountedOnce
  BY ReconcileStart, PassInvNext, CountedNext, PassesInvariant, PTL DEF ReconcileSpec

LEMMA LeftBehindStep ==
  ASSUME PassInv, NEW p \in Passes, MatchAndMark(p), pass[p].phase = "fetched",
         Cardinality(pass[p].due) <= PageSize * MaxPages,
         NEW t \in pass[p].tenders \ verified'
  PROVE  Beaten(t, pass[p].due, verified')
  <1> DEFINE T == pass[p].tenders
             R == pass[p].rows
             M == Matches(T, R)
             open == {r \in pass[p].due : Eligible(t, r)}
             taker == [r \in open |-> CHOOSE u \in verified' : <<u, r>> \in M /\ Earlier(u, t)]
  <1>1. pass[p] \in PassRecords /\ pass[p].phase = "fetched"
    BY PassHeld DEF PassInv, MatchAndMark
  <1>2. T \in SUBSET Tenders /\ R \in SUBSET Rows /\ t \in T
    BY <1>1 DEF PassRecords
  <1>3. open \subseteq R /\ \A r \in open : Eligible(t, r)
    BY <1>1 DEF PassInv, PagingInv, Paged
  <1>4. ServesInOrder(M, T, R)
    BY <1>2, MatchesServe
  <1>5. verified' = verified \union {m[1] : m \in MarkMatched(M)}
    BY DEF MatchAndMark
  <1> HIDE DEF T, R, M, open
  <1>6. \A m \in M : m[1] \in verified' /\ m = <<m[1], m[2]>>
    BY <1>4, <1>5 DEF MarkMatched, ServesInOrder
  <1>7. ~(\E m \in M : m[1] = t)
    BY <1>6
  <1>8. ASSUME NEW r \in open
        PROVE  taker[r] \in verified' /\ <<taker[r], r>> \in M /\ Earlier(taker[r], t)
    <2>1. PICK m \in M : m[2] = r /\ Earlier(m[1], t)
      BY <1>2, <1>3, <1>4, <1>7 DEF ServesInOrder
    <2>2. m[1] \in verified' /\ <<m[1], r>> \in M
      BY <1>6, <2>1
    <2> QED
      BY <2>1, <2>2
  <1> HIDE DEF taker
  <1>9. taker \in [open -> verified']
    BY <1>8 DEF taker
  <1>10. \A r \in open : Eligible(taker[r], r) /\ Earlier(taker[r], t)
    BY <1>4, <1>8 DEF ServesInOrder
  <1>11. ASSUME NEW r \in open, NEW q \in open, taker[r] = taker[q] PROVE r = q
    <2>1. <<taker[r], r>> \in M /\ <<taker[q], q>> \in M
      BY <1>8
    <2> QED
      BY <1>4, <1>11, <2>1 DEF ServesInOrder
  <1> QED
    BY <1>9, <1>10, <1>11 DEF Beaten, open

(* A pass that read its report to the end leaves no listed tender behind      *)
(* unless other, earlier tenders took each of its rows, whatever was posted   *)
(* or verified while it paged.                                                *)
THEOREM NobodyLeftBehind == ReconcileSpec => NoneLeftBehind
  <1>1. PassInv => \A p \in Passes :
          (/\ MatchAndMark(p) /\ pass[p].phase = "fetched"
           /\ Cardinality(pass[p].due) <= PageSize * MaxPages) =>
              \A t \in pass[p].tenders \ verified' :
                  Beaten(t, pass[p].due, verified')
    BY LeftBehindStep
  <1> QED
    BY <1>1, PassesInvariant, PTL DEF NoneLeftBehind
=============================================================================

-------------------------- MODULE SalesServiceProofs --------------------------
(***************************************************************************)
(* Theorems about SalesService, for any number of requests, sales, items,  *)
(* catalogs and shifts.                                                    *)
(***************************************************************************)
EXTENDS SalesService, Sums

CONSTANTS NoBom, DanglingBom  \* an item without a recipe, or with one nobody stored

Explode == INSTANCE Explosion

-----------------------------------------------------------------------------
(* Type correctness *)

LEMMA InitType == Init => TypeOK
  <1> SUFFICES ASSUME Init PROVE TypeOK
    OBVIOUS
  <1>1. Recorded = {} /\ sales \in [Recorded -> Sale]
    BY DEF Init, Recorded
  <1>2. ledger \in [Sales -> [Reasons -> Batches]]
    BY DEF Init, Batches, Movement
  <1>3. onHand \in Movement
    BY ConstantsAssumption DEF Init, Movement
  <1>4. req \in [Requests -> ReqStates]
        /\ \A r \in Requests : req[r].phase \notin {"voidChecked", "refundChecked"}
    BY DEF Init, ReqStates, Idle
  <1> QED
    BY <1>1, <1>2, <1>3, <1>4 DEF Init, TypeOK

(* What a handler under way holds. *)
LEMMA HeldType ==
  ASSUME TypeOK, NEW r \in Requests
  PROVE  /\ req[r].phase = "submitLooked" =>
                req[r] \in [phase : {"submitLooked"}, sale : Sales, cart : Carts,
                            date : Dates, discount : Discounts]
         /\ req[r].phase = "submitChecked" =>
                req[r] \in [phase : {"submitChecked"}, sale : Sales, cart : Carts,
                            date : Dates, total : Nat, move : [Items -> Nat]]
         /\ req[r].phase = "voidChecked" =>
                /\ req[r] \in [phase : {"voidChecked"}, sale : Sales, void : VoidIds,
                               move : [Items -> Nat]]
                /\ req[r].sale \in Recorded
         /\ req[r].phase = "refundChecked" =>
                /\ req[r] \in [phase : {"refundChecked"}, sale : Sales, refund : RefundIds,
                               lines : Carts, amount : Amounts, move : [Items -> Nat]]
                /\ req[r].sale \in Recorded
  BY DEF TypeOK, ReqStates, Idle

(* A batch of integer movements keeps the ledger and the stock well typed. *)
LEMMA PostType ==
  ASSUME TypeOK, NEW s \in Sales, NEW w \in Reasons, NEW move \in Movement,
         Post(s, w, move)
  PROVE  ledger' \in [Sales -> [Reasons -> Batches]] /\ onHand' \in Movement
  <1>1. onHand' \in Movement
    BY DEF Post, TypeOK, Movement
  <1>2. [n |-> ledger[s][w].n + 1,
         delta |-> [c \in Items |-> ledger[s][w].delta[c] + move[c]]] \in Batches
    BY DEF TypeOK, Batches, Movement
  <1>3. ledger' \in [Sales -> [Reasons -> Batches]]
    BY <1>2 DEF Post, TypeOK
  <1> QED
    BY <1>1, <1>3

(* A handler that only moves on, or answers, keeps the types. *)
LEMMA ContinueType ==
  ASSUME TypeOK, NEW r \in Requests, NEW q \in ReqStates,
         q.phase \in {"voidChecked", "refundChecked"} => q.sale \in Recorded,
         req' = [req EXCEPT ![r] = q],
         UNCHANGED <<Stored, catalog, openDate>>
  PROVE  TypeOK'
  <1>1. req' \in [Requests -> ReqStates]
    BY DEF TypeOK
  <1>2. Recorded' = Recorded
    BY DEF Recorded, Stored
  <1>3. \A x \in Requests : req'[x].phase \in {"voidChecked", "refundChecked"}
                               => req'[x].sale \in Recorded'
    BY <1>2 DEF TypeOK
  <1> QED
    BY <1>1, <1>2, <1>3 DEF TypeOK, Stored

LEMMA IdleType == Idle \in ReqStates /\ Idle.phase = "idle"
  BY DEF Idle, ReqStates

(* A handler that writes, and answers. *)
LEMMA WriteType ==
  ASSUME TypeOK, NEW r \in Requests, req' = [req EXCEPT ![r] = Idle],
         Recorded \subseteq Recorded', Recorded' \subseteq Sales,
         sales' \in [Recorded' -> Sale],
         ledger' \in [Sales -> [Reasons -> Batches]],
         onHand' \in Movement,
         UNCHANGED <<catalog, openDate>>
  PROVE  TypeOK'
  <1>1. req' \in [Requests -> ReqStates]
    BY IdleType DEF TypeOK
  <1>2. \A x \in Requests : req'[x].phase \in {"voidChecked", "refundChecked"}
                               => req'[x].sale \in Recorded'
    BY IdleType DEF TypeOK
  <1> QED
    BY <1>1, <1>2 DEF TypeOK

LEMMA SubmitLookupType ==
  ASSUME TypeOK, NEW r \in Requests, NEW s \in Sales, NEW k \in Carts, NEW d \in Dates,
         NEW off \in Discounts, SubmitLookup(r, s, k, d, off)
  PROVE  TypeOK'
  <1> DEFINE q == [phase |-> "submitLooked", sale |-> s, cart |-> k, date |-> d,
                   discount |-> off]
  <1>1. q \in ReqStates /\ q.phase = "submitLooked"
    BY DEF ReqStates
  <1>2. req' = [req EXCEPT ![r] = Idle] \/ req' = [req EXCEPT ![r] = q]
    BY DEF SubmitLookup, Reply, Continue
  <1> QED
    BY <1>1, <1>2, IdleType, ContinueType DEF SubmitLookup

LEMMA SubmitCheckType ==
  ASSUME TypeOK, NEW r \in Requests, SubmitCheck(r)
  PROVE  TypeOK'
  <1> DEFINE s == req[r].sale
             k == req[r].cart
             q == [phase |-> "submitChecked", sale |-> s, cart |-> k,
                   date |-> req[r].date, move |-> Uses[catalog][k],
                   total |-> AuthoritativeTotal(catalog, k, req[r].discount)]
  <1>1. /\ s \in Sales /\ k \in Carts /\ req[r].date \in Dates
        /\ req[r].discount \in Discounts /\ catalog \in Versions
    BY HeldType DEF SubmitCheck, TypeOK
  <1>2. Uses[catalog][k] \in [Items -> Nat]
    BY <1>1, ConstantsAssumption
  <1>3. AuthoritativeTotal(catalog, k, req[r].discount) \in Nat
    <2>1. Subtotal[catalog][k] \in Nat /\ Tax[catalog][k] \in Nat /\ req[r].discount \in Nat
      BY <1>1, ConstantsAssumption, ZenonT(30)
    <2> QED
      BY <2>1 DEF AuthoritativeTotal
  <1>4. q \in ReqStates /\ q.phase = "submitChecked"
    BY <1>1, <1>2, <1>3 DEF ReqStates
  <1>5. req' = [req EXCEPT ![r] = Idle] \/ req' = [req EXCEPT ![r] = q]
    BY DEF SubmitCheck, Reply, Continue
  <1> QED
    BY <1>4, <1>5, IdleType, ContinueType DEF SubmitCheck

LEMMA SubmitRecordType ==
  ASSUME TypeOK, NEW r \in Requests, SubmitRecord(r)
  PROVE  TypeOK'
  <1> DEFINE s == req[r].sale
             stored == [cart |-> req[r].cart, date |-> req[r].date,
                        total |-> req[r].total, void |-> NoVoid, refunds |-> <<>>]
  <1>1. /\ s \in Sales /\ req[r].cart \in Carts /\ req[r].date \in Dates
        /\ req[r].total \in Nat /\ req[r].move \in [Items -> Nat]
    BY HeldType DEF SubmitRecord
  <1>2. req' = [req EXCEPT ![r] = Idle]
    BY DEF SubmitRecord, Reply
  <1>3. CASE s \in Recorded
    <2>1. req' = [req EXCEPT ![r] = Idle] /\ UNCHANGED <<Stored, catalog, openDate>>
      BY <1>2, <1>3 DEF SubmitRecord, RecordedMeanwhile
    <2> QED
      BY <2>1, IdleType, ContinueType
  <1>4. CASE s \notin Recorded
    <2>1. /\ sales' = [x \in Recorded \union {s} |-> IF x = s THEN stored ELSE sales[x]]
          /\ Post(s, "sale", [c \in Items |-> -req[r].move[c]])
      BY <1>4 DEF SubmitRecord, RecordedMeanwhile
    <2>2. [c \in Items |-> -req[r].move[c]] \in Movement
      BY <1>1 DEF Movement
    <2>3. ledger' \in [Sales -> [Reasons -> Batches]] /\ onHand' \in Movement
      BY <1>1, <2>1, <2>2, PostType DEF Reasons
    <2>4. <<>> \in UNION {[F -> Refund] : F \in SUBSET RefundIds}
      BY {} \in SUBSET RefundIds, <<>> \in [{} -> Refund]
    <2>5. stored \in Sale
      BY <1>1, <2>4 DEF Sale
    <2>6. Recorded' = Recorded \union {s}
      BY <2>1 DEF Recorded
    <2>7. sales' \in [Recorded' -> Sale] /\ Recorded' \subseteq Sales
      BY <1>1, <2>1, <2>5, <2>6 DEF TypeOK
    <2> QED
      BY <1>2, <2>3, <2>6, <2>7, WriteType DEF SubmitRecord
  <1> QED
    BY <1>3, <1>4

LEMMA VoidCheckType ==
  ASSUME TypeOK, NEW r \in Requests, NEW s \in Sales, NEW v \in VoidIds, VoidCheck(r, s, v)
  PROVE  TypeOK'
  <1> DEFINE q == [phase |-> "voidChecked", sale |-> s, void |-> v,
                   move |-> Uses[catalog][sales[s].cart]]
  <1>1. s \in Recorded => q \in ReqStates /\ q.phase = "voidChecked" /\ q.sale \in Recorded
    <2> SUFFICES ASSUME s \in Recorded PROVE q \in ReqStates
      OBVIOUS
    <2>1. sales[s].cart \in Carts /\ catalog \in Versions
      BY DEF TypeOK, Sale
    <2>2. Uses[catalog][sales[s].cart] \in [Items -> Nat]
      BY <2>1, ConstantsAssumption
    <2> QED
      BY <2>2 DEF ReqStates
  <1>2. \/ req' = [req EXCEPT ![r] = Idle]
        \/ s \in Recorded /\ req' = [req EXCEPT ![r] = q]
    BY DEF VoidCheck, Reply, Continue
  <1> QED
    BY <1>1, <1>2, IdleType, ContinueType DEF VoidCheck

(* A sale with its void stamped is a sale. *)
LEMMA VoidStamped ==
  ASSUME NEW sale \in Sale, NEW v \in VoidIds
  PROVE  [sale EXCEPT !.void = v] \in Sale
  BY DEF Sale

LEMMA VoidRecordType ==
  ASSUME TypeOK, NEW r \in Requests, VoidRecord(r)
  PROVE  TypeOK'
  <1> DEFINE s == req[r].sale
  <1>1. s \in Recorded /\ s \in Sales /\ req[r].void \in VoidIds /\ req[r].move \in [Items -> Nat]
    BY HeldType DEF VoidRecord
  <1>2. req' = [req EXCEPT ![r] = Idle]
    BY DEF VoidRecord, Reply
  <1>3. CASE Voided(s)
    <2>1. req' = [req EXCEPT ![r] = Idle] /\ UNCHANGED <<Stored, catalog, openDate>>
      BY <1>2, <1>3 DEF VoidRecord, VoidedMeanwhile
    <2> QED
      BY <2>1, IdleType, ContinueType
  <1>4. CASE ~Voided(s)
    <2>1. sales' = [sales EXCEPT ![s].void = req[r].void] /\ Post(s, "sale_void", req[r].move)
      BY <1>4 DEF VoidRecord, VoidedMeanwhile
    <2>2. req[r].move \in Movement
      BY <1>1 DEF Movement
    <2>3. ledger' \in [Sales -> [Reasons -> Batches]] /\ onHand' \in Movement
      BY <1>1, <2>1, <2>2, PostType DEF Reasons
    <2>4. [sales[s] EXCEPT !.void = req[r].void] \in Sale
      BY <1>1, VoidStamped DEF TypeOK
    <2>5. Recorded' = Recorded /\ sales' \in [Recorded' -> Sale]
      BY <2>1, <2>4 DEF TypeOK, Recorded
    <2> QED
      BY <1>2, <2>3, <2>5, WriteType DEF VoidRecord, TypeOK
  <1> QED
    BY <1>3, <1>4

LEMMA RefundCheckType ==
  ASSUME TypeOK, NEW r \in Requests, NEW s \in Sales, NEW f \in RefundIds, NEW k \in Carts,
         NEW a \in Amounts, RefundCheck(r, s, f, k, a)
  PROVE  TypeOK'
  <1> DEFINE q == [phase |-> "refundChecked", sale |-> s, refund |-> f,
                   lines |-> k, amount |-> a, move |-> RefundMove(s, k)]
  <1>1. Uses[catalog][k] \in [Items -> Nat]
    BY ConstantsAssumption DEF TypeOK
  <1>2. q \in ReqStates /\ q.phase = "refundChecked" /\ q.sale = s
    BY <1>1 DEF ReqStates, RefundMove
  <1>3. \/ req' = [req EXCEPT ![r] = Idle]
        \/ s \in Recorded /\ req' = [req EXCEPT ![r] = q]
    BY DEF RefundCheck, Reply, Continue
  <1> QED
    BY <1>2, <1>3, IdleType, ContinueType DEF RefundCheck

(* A sale with one refund more is a sale. *)
LEMMA RefundAdded ==
  ASSUME NEW sale \in Sale, NEW f \in RefundIds, NEW booked \in Refund
  PROVE  [sale EXCEPT !.refunds =
            [g \in DOMAIN sale.refunds \union {f} |->
                IF g = f THEN booked ELSE sale.refunds[g]]] \in Sale
  <1> DEFINE F == DOMAIN sale.refunds \union {f}
             more == [g \in F |-> IF g = f THEN booked ELSE sale.refunds[g]]
  <1>1. PICK G \in SUBSET RefundIds : sale.refunds \in [G -> Refund]
    BY DEF Sale
  <1>2. F \in SUBSET RefundIds /\ more \in [F -> Refund]
    BY <1>1
  <1>3. more \in UNION {[E -> Refund] : E \in SUBSET RefundIds}
    BY <1>2
  <1> QED
    BY <1>3 DEF Sale

LEMMA RefundRecordType ==
  ASSUME TypeOK, NEW r \in Requests, RefundRecord(r)
  PROVE  TypeOK'
  <1> DEFINE s == req[r].sale
             f == req[r].refund
             booked == [lines |-> req[r].lines, amount |-> req[r].amount]
             more == [g \in Refunds(s) \union {f} |->
                         IF g = f THEN booked ELSE sales[s].refunds[g]]
  <1>1. /\ s \in Recorded /\ s \in Sales /\ f \in RefundIds /\ booked \in Refund
        /\ req[r].move \in [Items -> Nat]
    BY HeldType DEF RefundRecord, Refund
  <1>2. req' = [req EXCEPT ![r] = Idle]
    BY DEF RefundRecord, Reply
  <1>3. CASE f \in Refunds(s)
    <2>1. req' = [req EXCEPT ![r] = Idle] /\ UNCHANGED <<Stored, catalog, openDate>>
      BY <1>2, <1>3 DEF RefundRecord
    <2> QED
      BY <2>1, IdleType, ContinueType
  <1>4. CASE f \notin Refunds(s)
    <2>1. sales' = [sales EXCEPT ![s].refunds = more] /\ Post(s, "refund", req[r].move)
      BY <1>4 DEF RefundRecord
    <2>2. req[r].move \in Movement
      BY <1>1 DEF Movement
    <2>3. ledger' \in [Sales -> [Reasons -> Batches]] /\ onHand' \in Movement
      BY <1>1, <2>1, <2>2, PostType DEF Reasons
    <2>4. sales[s] \in Sale
      BY <1>1 DEF TypeOK
    <2>5. [sales[s] EXCEPT !.refunds = more] \in Sale
      BY <1>1, <2>4, RefundAdded DEF Refunds
    <2>6. Recorded' = Recorded /\ sales' \in [Recorded' -> Sale]
      BY <2>1, <2>5 DEF TypeOK, Recorded
    <2> QED
      BY <1>2, <2>3, <2>6, WriteType DEF RefundRecord, TypeOK
  <1> QED
    BY <1>3, <1>4

LEMMA OthersType ==
  ASSUME TypeOK,
         \/ \E v \in Versions : EditCatalog(v)
         \/ \E d \in Dates \union {NoShift} : MoveShift(d)
         \/ UNCHANGED vars
  PROVE  TypeOK'
  BY DEF TypeOK, EditCatalog, MoveShift, Stored, Recorded, vars

LEMMA NextType == TypeOK /\ [Next]_vars => TypeOK'
  <1> SUFFICES ASSUME TypeOK, [Next]_vars PROVE TypeOK'
    OBVIOUS
  <1>1. ASSUME NEW r \in Requests, Handle(r) PROVE TypeOK'
    BY <1>1, SubmitLookupType, SubmitCheckType, SubmitRecordType, VoidCheckType,
       VoidRecordType, RefundCheckType, RefundRecordType DEF Handle
  <1> QED
    BY <1>1, OthersType DEF Next

(* Whatever the number of handlers under way and however they interleave, the *)
(* repository never holds a sale, a void, a refund or a total of the wrong    *)
(* shape (submit, void and refund of the sales service).                      *)
THEOREM TypeCorrect == Spec => []TypeOK
  BY InitType, NextType, PTL DEF Spec

-----------------------------------------------------------------------------
(* Every document is booked once *)

FiniteRefunds == \A s \in Recorded : IsFiniteSet(Refunds(s))

(* The counts of the ledger's batches agree with the documents on record, and *)
(* the refunds of a sale can be counted.                                      *)
BookedInv == TypeOK /\ FiniteRefunds /\ PostedOnce

(* One batch adds one to one count. *)
LEMMA PostCounts ==
  ASSUME TypeOK, NEW s \in Sales, NEW w \in Reasons, NEW move, Post(s, w, move),
         NEW x \in Sales, NEW u \in Reasons
  PROVE  ledger'[x][u].n = IF x = s /\ u = w THEN ledger[x][u].n + 1 ELSE ledger[x][u].n
  BY DEF Post, TypeOK

LEMMA BookedUnchanged ==
  ASSUME BookedInv, TypeOK', UNCHANGED Stored
  PROVE  BookedInv'
  <1>1. Recorded' = Recorded /\ \A s \in Recorded : Refunds(s)' = Refunds(s)
    BY DEF Stored, Recorded, Refunds
  <1> QED
    BY <1>1 DEF BookedInv, FiniteRefunds, PostedOnce, Stored, Voided

LEMMA SubmitRecordBooked ==
  ASSUME BookedInv, TypeOK', NEW r \in Requests, SubmitRecord(r)
  PROVE  BookedInv'
  <1> DEFINE s == req[r].sale
             stored == [cart |-> req[r].cart, date |-> req[r].date,
                        total |-> req[r].total, void |-> NoVoid, refunds |-> <<>>]
  <1>1. TypeOK /\ s \in Sales
    BY HeldType DEF SubmitRecord, BookedInv
  <1>2. CASE s \in Recorded
    BY <1>2, BookedUnchanged DEF SubmitRecord, RecordedMeanwhile
  <1>3. CASE s \notin Recorded
    <2>1. /\ sales' = [x \in Recorded \union {s} |-> IF x = s THEN stored ELSE sales[x]]
          /\ Post(s, "sale", [c \in Items |-> -req[r].move[c]])
      BY <1>3 DEF SubmitRecord, RecordedMeanwhile
    <2>2. Recorded' = Recorded \union {s}
      BY <2>1 DEF Recorded
    <2>3. /\ sales'[s].void = NoVoid /\ DOMAIN sales'[s].refunds = {}
          /\ \A x \in Recorded : sales'[x] = sales[x]
      BY <1>3, <2>1
    <2>4. IsFiniteSet({}) /\ Cardinality({}) = 0
      BY FS_EmptySet
    <2>5. FiniteRefunds'
      BY <2>2, <2>3, <2>4 DEF FiniteRefunds, Refunds, BookedInv
    <2>6. \A x \in Sales, u \in Reasons :
             ledger'[x][u].n = IF x = s /\ u = "sale" THEN ledger[x][u].n + 1
                                                      ELSE ledger[x][u].n
      BY <1>1, <2>1, PostCounts DEF Reasons
    <2>7. PostedOnce'
      <3> SUFFICES ASSUME NEW x \in Sales
                   PROVE /\ ledger'[x]["sale"].n = IF x \in Recorded' THEN 1 ELSE 0
                         /\ ledger'[x]["sale_void"].n =
                               IF x \in Recorded' /\ sales'[x].void # NoVoid THEN 1 ELSE 0
                         /\ ledger'[x]["refund"].n =
                               IF x \in Recorded' THEN Cardinality(DOMAIN sales'[x].refunds)
                               ELSE 0
        BY DEF PostedOnce, Voided, Refunds
      <3>1. /\ ledger[x]["sale"].n = IF x \in Recorded THEN 1 ELSE 0
            /\ ledger[x]["sale_void"].n = IF x \in Recorded /\ Voided(x) THEN 1 ELSE 0
            /\ ledger[x]["refund"].n =
                  IF x \in Recorded THEN Cardinality(Refunds(x)) ELSE 0
        BY DEF BookedInv, PostedOnce
      <3>2. CASE x = s
        <4>1. ledger[s]["sale"].n = 0 /\ ledger[s]["sale_void"].n = 0
              /\ ledger[s]["refund"].n = 0
          BY <1>3, <3>1, <3>2
        <4>2. ledger'[s]["sale"].n = 1 /\ ledger'[s]["sale_void"].n = 0
              /\ ledger'[s]["refund"].n = 0
          BY <1>1, <2>6, <4>1 DEF Reasons
        <4>3. s \in Recorded' /\ ~(sales'[s].void # NoVoid)
              /\ Cardinality(DOMAIN sales'[s].refunds) = 0
          BY <2>2, <2>3, <2>4
        <4> QED
          BY <3>2, <4>2, <4>3
      <3>3. CASE x # s
        BY <2>2, <2>3, <2>6, <3>1, <3>3 DEF Reasons, Voided, Refunds
      <3> QED
        BY <3>2, <3>3
    <2> QED
      BY <2>5, <2>7 DEF BookedInv
  <1> QED
    BY <1>2, <1>3

LEMMA VoidRecordBooked ==
  ASSUME BookedInv, TypeOK', NEW r \in Requests, VoidRecord(r)
  PROVE  BookedInv'
  <1> DEFINE s == req[r].sale
  <1>1. TypeOK /\ s \in Sales /\ s \in Recorded /\ req[r].void \in VoidIds
    BY HeldType DEF VoidRecord, BookedInv
  <1>2. CASE Voided(s)
    BY <1>2, BookedUnchanged DEF VoidRecord, VoidedMeanwhile
  <1>3. CASE ~Voided(s)
    <2>1. sales' = [sales EXCEPT ![s].void = req[r].void] /\ Post(s, "sale_void", req[r].move)
      BY <1>3 DEF VoidRecord, VoidedMeanwhile
    <2>2. sales[s] \in Sale
      BY <1>1 DEF TypeOK
    <2>3. /\ Recorded' = Recorded
          /\ sales'[s].void = req[r].void /\ sales'[s].refunds = sales[s].refunds
          /\ \A x \in Recorded \ {s} : sales'[x] = sales[x]
      BY <1>1, <2>1, <2>2 DEF Recorded, Sale
    <2>4. req[r].void # NoVoid
      BY <1>1, ConstantsAssumption
    <2>5. FiniteRefunds'
      BY <2>3 DEF FiniteRefunds, Refunds, BookedInv
    <2>6. \A x \in Sales, u \in Reasons :
             ledger'[x][u].n = IF x = s /\ u = "sale_void" THEN ledger[x][u].n + 1
                                                           ELSE ledger[x][u].n
      BY <1>1, <2>1, PostCounts DEF Reasons
    <2>7. PostedOnce'
      BY <1>1, <1>3, <2>3, <2>4, <2>6 DEF PostedOnce, BookedInv, Refunds, Voided, Reasons
    <2> QED
      BY <2>5, <2>7 DEF BookedInv
  <1> QED
    BY <1>2, <1>3

LEMMA RefundRecordBooked ==
  ASSUME BookedInv, TypeOK', NEW r \in Requests, RefundRecord(r)
  PROVE  BookedInv'
  <1> DEFINE s == req[r].sale
             f == req[r].refund
             booked == [lines |-> req[r].lines, amount |-> req[r].amount]
             more == [g \in Refunds(s) \union {f} |->
                         IF g = f THEN booked ELSE sales[s].refunds[g]]
  <1>1. TypeOK /\ s \in Sales /\ s \in Recorded
    BY HeldType DEF RefundRecord, BookedInv
  <1>2. CASE f \in Refunds(s)
    BY <1>2, BookedUnchanged DEF RefundRecord
  <1>3. CASE f \notin Refunds(s)
    <2>1. sales' = [sales EXCEPT ![s].refunds = more] /\ Post(s, "refund", req[r].move)
      BY <1>3 DEF RefundRecord
    <2>2. sales[s] \in Sale
      BY <1>1 DEF TypeOK
    <2>3. /\ Recorded' = Recorded
          /\ sales'[s].void = sales[s].void /\ sales'[s].refunds = more
          /\ \A x \in Recorded \ {s} : sales'[x] = sales[x]
      BY <1>1, <2>1, <2>2 DEF Recorded, Sale
    <2>4. DOMAIN sales'[s].refunds = Refunds(s) \union {f}
      BY <2>3
    <2>5. /\ IsFiniteSet(Refunds(s))
          /\ Cardinality(Refunds(s)) \in Nat
          /\ IsFiniteSet(Refunds(s) \union {f})
          /\ Cardinality(Refunds(s) \union {f}) = Cardinality(Refunds(s)) + 1
      BY <1>1, <1>3, FS_AddElement, FS_CardinalityType DEF BookedInv, FiniteRefunds
    <2>6. FiniteRefunds'
      BY <2>3, <2>4, <2>5 DEF FiniteRefunds, Refunds, BookedInv
    <2>7. \A x \in Sales, u \in Reasons :
             ledger'[x][u].n = IF x = s /\ u = "refund" THEN ledger[x][u].n + 1
                                                        ELSE ledger[x][u].n
      BY <1>1, <2>1, PostCounts DEF Reasons
    <2>8. PostedOnce'
      BY <1>1, <1>3, <2>3, <2>4, <2>5, <2>7, SMTT(30)
      DEF PostedOnce, BookedInv, Refunds, Voided, Reasons
    <2> QED
      BY <2>6, <2>8 DEF BookedInv
  <1> QED
    BY <1>2, <1>3

(* Any other step leaves sales, ledger and stock alone. *)
LEMMA ReadOnlySteps ==
  ASSUME [Next]_vars
  PROVE  \/ UNCHANGED Stored
         \/ \E r \in Requests : SubmitRecord(r) \/ VoidRecord(r) \/ RefundRecord(r)
  <1>1. ASSUME NEW r \in Requests, Handle(r)
        PROVE  UNCHANGED Stored \/ SubmitRecord(r) \/ VoidRecord(r) \/ RefundRecord(r)
    <2>1. ASSUME NEW s \in Sales, NEW k \in Carts, NEW d \in Dates, NEW off \in Discounts,
                 SubmitLookup(r, s, k, d, off)
          PROVE  UNCHANGED Stored
      BY <2>1 DEF SubmitLookup
    <2>2. SubmitCheck(r) => UNCHANGED Stored
      BY DEF SubmitCheck
    <2>3. ASSUME NEW s \in Sales, NEW v \in VoidIds, VoidCheck(r, s, v)
          PROVE  UNCHANGED Stored
      BY <2>3 DEF VoidCheck
    <2>4. ASSUME NEW s \in Sales, NEW f \in RefundIds, NEW k \in Carts, NEW a \in Amounts,
                 RefundCheck(r, s, f, k, a)
          PROVE  UNCHANGED Stored
      BY <2>4 DEF RefundCheck
    <2> QED
      BY <1>1, <2>1, <2>2, <2>3, <2>4 DEF Handle
  <1>2. ASSUME NEW v \in Versions, EditCatalog(v) PROVE UNCHANGED Stored
    BY <1>2 DEF EditCatalog
  <1>3. ASSUME NEW d \in Dates \union {NoShift}, MoveShift(d) PROVE UNCHANGED Stored
    BY <1>3 DEF MoveShift
  <1>4. UNCHANGED vars => UNCHANGED Stored
    BY DEF vars, Stored
  <1> QED
    BY <1>1, <1>2, <1>3, <1>4 DEF Next

LEMMA InitBooked == Init => BookedInv
  <1> SUFFICES ASSUME Init PROVE BookedInv
    OBVIOUS
  <1>1. Recorded = {} /\ \A s \in Sales, w \in Reasons : ledger[s][w].n = 0
    BY DEF Init, Recorded
  <1> QED
    BY <1>1, InitType DEF BookedInv, FiniteRefunds, PostedOnce, Reasons

LEMMA NextBooked ==
  ASSUME BookedInv, [Next]_vars
  PROVE  BookedInv'
  BY NextType, ReadOnlySteps, BookedUnchanged, SubmitRecordBooked, VoidRecordBooked,
     RefundRecordBooked DEF BookedInv

(* Each sale, void and refund has exactly one batch of ledger rows, however the *)
(* handlers interleave between their lookups and their writes: the second look  *)
(* of recordSale, voidSale and recordRefund is enough for that.                 *)
THEOREM BookedOnce == Spec => []PostedOnce
  <1>1. BookedInv => PostedOnce
    BY DEF BookedInv
  <1> QED
    BY <1>1, InitBooked, NextBooked, PTL DEF Spec

-----------------------------------------------------------------------------
(* One handler at a time *)

(* When awaits do not yield, at most one handler is under way. *)
Alone == \A q, r \in Requests : req[q] # Idle /\ req[r] # Idle => q = r

(* What a handler has checked still holds when it writes. *)
Fresh ==
    \A r \in Requests :
        /\ req[r].phase \in {"submitLooked", "submitChecked"} => req[r].sale \notin Recorded
        /\ req[r].phase = "submitChecked" => ~Short(req[r].move)
        /\ req[r].phase = "voidChecked" =>
              /\ ~HasRefunds(req[r].sale)
              /\ ~VoidIdTaken(req[r].sale, req[r].void)
              /\ InOpenShift(req[r].sale)
        /\ req[r].phase = "refundChecked" =>
              ~Voided(req[r].sale) /\ req[r].refund \notin Refunds(req[r].sale)

SerialInv == TypeOK /\ Alone /\ Fresh /\ NoOversell /\ VoidXorRefund /\ VoidIdBoundOnce

LEMMA HandleShape ==
  ASSUME TypeOK, NEW r \in Requests, Handle(r)
  PROVE  (req[r] # Idle \/ Quiet) /\ \E q : req' = [req EXCEPT ![r] = q]
  <1>1. ASSUME NEW s \in Sales, NEW k \in Carts, NEW d \in Dates, NEW off \in Discounts,
               SubmitLookup(r, s, k, d, off)
        PROVE  Quiet /\ \E q : req' = [req EXCEPT ![r] = q]
    BY <1>1 DEF SubmitLookup, Starts, Reply, Continue
  <1>2. SubmitCheck(r) => req[r] # Idle /\ \E q : req' = [req EXCEPT ![r] = q]
    BY DEF SubmitCheck, Idle, Reply, Continue
  <1>3. SubmitRecord(r) => req[r] # Idle /\ \E q : req' = [req EXCEPT ![r] = q]
    <2>1. SubmitRecord(r) => req' = [req EXCEPT ![r] = Idle]
      BY DEF SubmitRecord, Reply
    <2>2. SubmitRecord(r) => req[r] # Idle
      BY DEF SubmitRecord, Idle
    <2> QED
      BY <2>1, <2>2
  <1>4. ASSUME NEW s \in Sales, NEW v \in VoidIds, VoidCheck(r, s, v)
        PROVE  Quiet /\ \E q : req' = [req EXCEPT ![r] = q]
    BY <1>4 DEF VoidCheck, Starts, Reply, Continue
  <1>5. VoidRecord(r) => req[r] # Idle /\ \E q : req' = [req EXCEPT ![r] = q]
    BY DEF VoidRecord, Idle, Reply
  <1>6. ASSUME NEW s \in Sales, NEW f \in RefundIds, NEW k \in Carts, NEW a \in Amounts,
               RefundCheck(r, s, f, k, a)
        PROVE  Quiet /\ \E q : req' = [req EXCEPT ![r] = q]
    BY <1>6 DEF RefundCheck, Starts, Reply, Continue
  <1>7. RefundRecord(r) => req[r] # Idle /\ \E q : req' = [req EXCEPT ![r] = q]
    <2>1. RefundRecord(r) => req' = [req EXCEPT ![r] = Idle]
      BY DEF RefundRecord, Reply
    <2>2. RefundRecord(r) => req[r] # Idle
      BY DEF RefundRecord, Idle
    <2> QED
      BY <2>1, <2>2
  <1> QED
    BY <1>1, <1>2, <1>3, <1>4, <1>5, <1>6, <1>7 DEF Handle

(* While one handler moves, the others are idle, before and after. *)
LEMMA OthersIdle ==
  ASSUME ~AwaitYields, TypeOK, Alone, NEW r \in Requests, Handle(r)
  PROVE  \A x \in Requests \ {r} : req[x] = Idle /\ req'[x] = Idle
  <1>1. PICK q : req' = [req EXCEPT ![r] = q]
    BY HandleShape
  <1>2. \A x \in Requests \ {r} : req[x] = Idle
    <2>1. req[r] # Idle \/ \A x \in Requests : req[x] = Idle
      BY HandleShape DEF Quiet
    <2> QED
      BY <2>1 DEF Alone
  <1>3. \A x \in Requests \ {r} : req'[x] = req[x]
    BY <1>1 DEF TypeOK
  <1> QED
    BY <1>2, <1>3

LEMMA AloneNext ==
  ASSUME ~AwaitYields, TypeOK, Alone, [Next]_vars
  PROVE  Alone'
  <1>1. ASSUME NEW r \in Requests, Handle(r) PROVE Alone'
    <2>1. \A x \in Requests \ {r} : req'[x] = Idle
      BY <1>1, OthersIdle
    <2>2. \A a, b \in Requests : req'[a] # Idle /\ req'[b] # Idle => a = b
      BY <2>1
    <2> QED
      BY <2>2 DEF Alone, Idle
  <1>2. ASSUME NEW v \in Versions, EditCatalog(v) PROVE Alone'
    BY <1>2 DEF EditCatalog, Alone
  <1>3. ASSUME NEW d \in Dates \union {NoShift}, MoveShift(d) PROVE Alone'
    BY <1>3 DEF MoveShift, Alone
  <1>4. UNCHANGED vars => Alone'
    BY DEF vars, Alone
  <1> QED
    BY <1>1, <1>2, <1>3, <1>4 DEF Next

(* What Fresh says of one request. *)
FreshAt(r) ==
    /\ req[r].phase \in {"submitLooked", "submitChecked"} => req[r].sale \notin Recorded
    /\ req[r].phase = "submitChecked" => ~Short(req[r].move)
    /\ req[r].phase = "voidChecked" =>
          /\ ~HasRefunds(req[r].sale)
          /\ ~VoidIdTaken(req[r].sale, req[r].void)
          /\ InOpenShift(req[r].sale)
    /\ req[r].phase = "refundChecked" =>
          ~Voided(req[r].sale) /\ req[r].refund \notin Refunds(req[r].sale)

LEMMA IdleFresh ==
  ASSUME NEW r \in Requests, req'[r] = Idle
  PROVE  FreshAt(r)'
  BY DEF FreshAt, Idle

LEMMA LookupFresh ==
  ASSUME TypeOK, NEW r \in Requests, NEW s \in Sales, NEW k \in Carts, NEW d \in Dates,
         NEW off \in Discounts, SubmitLookup(r, s, k, d, off)
  PROVE  FreshAt(r)'
  <1>1. CASE req'[r] = Idle
    BY <1>1, IdleFresh
  <1>2. CASE req'[r] # Idle
    <2>1. /\ s \notin Recorded
          /\ req'[r] = [phase |-> "submitLooked", sale |-> s, cart |-> k, date |-> d,
                        discount |-> off]
      BY <1>2 DEF SubmitLookup, Reply, Continue, TypeOK
    <2>2. Recorded' = Recorded
      BY DEF SubmitLookup, Stored, Recorded
    <2> QED
      BY <2>1, <2>2 DEF FreshAt
  <1> QED
    BY <1>1, <1>2

LEMMA CheckFresh ==
  ASSUME TypeOK, NEW r \in Requests, FreshAt(r), SubmitCheck(r)
  PROVE  FreshAt(r)'
  <1>1. CASE req'[r] = Idle
    BY <1>1, IdleFresh
  <1>2. CASE req'[r] # Idle
    <2>1. /\ ~Short(Uses[catalog][req[r].cart])
          /\ req'[r].phase = "submitChecked" /\ req'[r].sale = req[r].sale
          /\ req'[r].move = Uses[catalog][req[r].cart]
      BY <1>2 DEF SubmitCheck, Reply, Continue, TypeOK
    <2>2. req[r].sale \notin Recorded
      BY DEF FreshAt, SubmitCheck
    <2>3. Recorded' = Recorded /\ onHand' = onHand
      BY DEF SubmitCheck, Stored, Recorded
    <2>4. ~Short(req[r].move)' <=> ~\E c \in Guarded : req'[r].move[c] > 0
                                        /\ onHand[c] - req'[r].move[c] < 0
      BY <2>3 DEF Short
    <2> QED
      BY <2>1, <2>2, <2>3, <2>4 DEF FreshAt, Short
  <1> QED
    BY <1>1, <1>2

LEMMA VoidCheckFresh ==
  ASSUME TypeOK, NEW r \in Requests, NEW s \in Sales, NEW v \in VoidIds, VoidCheck(r, s, v)
  PROVE  FreshAt(r)'
  <1>1. CASE req'[r] = Idle
    BY <1>1, IdleFresh
  <1>2. CASE req'[r] # Idle
    <2>1. /\ ~HasRefunds(s) /\ ~VoidIdTaken(s, v) /\ InOpenShift(s)
          /\ req'[r].phase = "voidChecked" /\ req'[r].sale = s /\ req'[r].void = v
      BY <1>2 DEF VoidCheck, Reply, Continue, TypeOK
    <2>2. sales' = sales /\ openDate' = openDate
      BY DEF VoidCheck, Stored
    <2> QED
      BY <2>1, <2>2 DEF FreshAt, HasRefunds, Refunds, VoidIdTaken, InOpenShift, Recorded
  <1> QED
    BY <1>1, <1>2

LEMMA RefundCheckFresh ==
  ASSUME TypeOK, NEW r \in Requests, NEW s \in Sales, NEW f \in RefundIds, NEW k \in Carts,
         NEW a \in Amounts, RefundCheck(r, s, f, k, a)
  PROVE  FreshAt(r)'
  <1>1. CASE req'[r] = Idle
    BY <1>1, IdleFresh
  <1>2. CASE req'[r] # Idle
    <2>1. /\ ~Voided(s) /\ f \notin Refunds(s)
          /\ req'[r].phase = "refundChecked" /\ req'[r].sale = s /\ req'[r].refund = f
      BY <1>2 DEF RefundCheck, Reply, Continue, TypeOK
    <2>2. sales' = sales
      BY DEF RefundCheck, Stored
    <2> QED
      BY <2>1, <2>2 DEF FreshAt, Voided, Refunds
  <1> QED
    BY <1>1, <1>2

LEMMA FreshNext ==
  ASSUME ~AwaitYields, TypeOK, Alone, Fresh, [Next]_vars
  PROVE  Fresh'
  <1>1. ASSUME NEW r \in Requests, Handle(r) PROVE Fresh'
    <2>1. \A x \in Requests \ {r} : FreshAt(x)'
      BY <1>1, OthersIdle, IdleFresh
    <2>2. FreshAt(r)
      BY DEF Fresh, FreshAt
    <2>3. SubmitRecord(r) \/ VoidRecord(r) \/ RefundRecord(r) => req'[r] = Idle
      BY DEF SubmitRecord, VoidRecord, RefundRecord, Reply, TypeOK
    <2>4. FreshAt(r)'
      BY <1>1, <2>2, <2>3, IdleFresh, LookupFresh, CheckFresh, VoidCheckFresh,
         RefundCheckFresh DEF Handle
    <2> QED
      BY <2>1, <2>4 DEF Fresh, FreshAt
  <1>2. ASSUME NEW v \in Versions, EditCatalog(v) PROVE Fresh'
    BY <1>2 DEF EditCatalog, Quiet, Fresh, Idle
  <1>3. ASSUME NEW d \in Dates \union {NoShift}, MoveShift(d) PROVE Fresh'
    BY <1>3 DEF MoveShift, Quiet, Fresh, Idle
  <1>4. UNCHANGED vars => Fresh'
    BY DEF vars, Fresh, Short, HasRefunds, Refunds, VoidIdTaken, InOpenShift, Voided, Recorded
  <1> QED
    BY <1>1, <1>2, <1>3, <1>4 DEF Next

(* What the three writes do, as the safety properties see it. *)
LEMMA SubmitWrites ==
  ASSUME TypeOK, NEW r \in Requests, SubmitRecord(r)
  PROVE  \/ req[r].sale \in Recorded /\ UNCHANGED Stored
         \/ /\ req[r].sale \notin Recorded
            /\ Recorded' = Recorded \union {req[r].sale}
            /\ \A x \in Recorded : sales'[x] = sales[x]
            /\ sales'[req[r].sale] = [cart |-> req[r].cart, date |-> req[r].date,
                                      total |-> req[r].total, void |-> NoVoid,
                                      refunds |-> <<>>]
            /\ \A c \in Items : onHand'[c] = onHand[c] - req[r].move[c]
  <1>1. req[r].move \in [Items -> Nat]
    BY HeldType DEF SubmitRecord
  <1>2. CASE req[r].sale \in Recorded
    BY <1>2 DEF SubmitRecord, RecordedMeanwhile
  <1>3. CASE req[r].sale \notin Recorded
    <2>1. sales' = [x \in Recorded \union {req[r].sale} |->
                       IF x = req[r].sale
                       THEN [cart |-> req[r].cart, date |-> req[r].date,
                             total |-> req[r].total, void |-> NoVoid, refunds |-> <<>>]
                       ELSE sales[x]]
          /\ onHand' = [c \in Items |-> onHand[c] + [d \in Items |-> -req[r].move[d]][c]]
      BY <1>3 DEF SubmitRecord, RecordedMeanwhile, Post
    <2>2. \A c \in Items : onHand'[c] = onHand[c] - req[r].move[c]
      BY <1>1, <2>1 DEF TypeOK, Movement
    <2> QED
      BY <1>3, <2>1, <2>2 DEF Recorded
  <1> QED
    BY <1>2, <1>3

LEMMA VoidWrites ==
  ASSUME TypeOK, NEW r \in Requests, VoidRecord(r)
  PROVE  \/ Voided(req[r].sale) /\ UNCHANGED Stored
         \/ /\ ~Voided(req[r].sale)
            /\ Recorded' = Recorded
            /\ \A x \in Recorded \ {req[r].sale} : sales'[x] = sales[x]
            /\ sales'[req[r].sale] = [sales[req[r].sale] EXCEPT !.void = req[r].void]
            /\ \A c \in Items : onHand'[c] = onHand[c] + req[r].move[c]
  <1>1. CASE Voided(req[r].sale)
    BY <1>1 DEF VoidRecord, VoidedMeanwhile
  <1>2. CASE ~Voided(req[r].sale)
    <2>1. sales' = [sales EXCEPT ![req[r].sale].void = req[r].void]
          /\ onHand' = [c \in Items |-> onHand[c] + req[r].move[c]]
      BY <1>2 DEF VoidRecord, VoidedMeanwhile, Post
    <2>2. req[r].sale \in Recorded
      BY HeldType DEF VoidRecord
    <2> QED
      BY <1>2, <2>1, <2>2 DEF Recorded, TypeOK
  <1> QED
    BY <1>1, <1>2

LEMMA RefundWrites ==
  ASSUME TypeOK, NEW r \in Requests, RefundRecord(r)
  PROVE  \/ req[r].refund \in Refunds(req[r].sale) /\ UNCHANGED Stored
         \/ /\ req[r].refund \notin Refunds(req[r].sale)
            /\ Recorded' = Recorded
            /\ \A x \in Recorded \ {req[r].sale} : sales'[x] = sales[x]
            /\ sales'[req[r].sale] =
                  [sales[req[r].sale] EXCEPT !.refunds =
                      [g \in Refunds(req[r].sale) \union {req[r].refund} |->
                          IF g = req[r].refund
                          THEN [lines |-> req[r].lines, amount |-> req[r].amount]
                          ELSE sales[req[r].sale].refunds[g]]]
            /\ \A c \in Items : onHand'[c] = onHand[c] + req[r].move[c]
  <1>1. CASE req[r].refund \in Refunds(req[r].sale)
    BY <1>1 DEF RefundRecord
  <1>2. CASE req[r].refund \notin Refunds(req[r].sale)
    <2>1. /\ sales' = [sales EXCEPT ![req[r].sale].refunds =
                          [g \in Refunds(req[r].sale) \union {req[r].refund} |->
                              IF g = req[r].refund
                              THEN [lines |-> req[r].lines, amount |-> req[r].amount]
                              ELSE sales[req[r].sale].refunds[g]]]
          /\ onHand' = [c \in Items |-> onHand[c] + req[r].move[c]]
      BY <1>2 DEF RefundRecord, Post
    <2>2. req[r].sale \in Recorded
      BY HeldType DEF RefundRecord
    <2> QED
      BY <1>2, <2>1, <2>2 DEF Recorded, TypeOK
  <1> QED
    BY <1>1, <1>2

Safe == NoOversell /\ VoidXorRefund /\ VoidIdBoundOnce

LEMMA SafeUnchanged ==
  ASSUME Safe, UNCHANGED Stored
  PROVE  Safe'
  BY DEF Safe, Stored, NoOversell, VoidXorRefund, VoidIdBoundOnce, Voided, Refunds, Recorded

LEMMA SubmitSafe ==
  ASSUME TypeOK, NEW r \in Requests, FreshAt(r), Safe, SubmitRecord(r)
  PROVE  Safe'
  <1> DEFINE s == req[r].sale
  <1>1. CASE UNCHANGED Stored
    BY <1>1, SafeUnchanged
  <1>2. CASE ~UNCHANGED Stored
    <2>0. /\ s \notin Recorded
          /\ Recorded' = Recorded \union {s}
          /\ \A x \in Recorded : sales'[x] = sales[x]
          /\ sales'[s] = [cart |-> req[r].cart, date |-> req[r].date,
                          total |-> req[r].total, void |-> NoVoid, refunds |-> <<>>]
          /\ \A c \in Items : onHand'[c] = onHand[c] - req[r].move[c]
      BY <1>2, SubmitWrites
    <2>1. /\ s \notin Recorded
          /\ Recorded' = Recorded \union {s}
          /\ \A x \in Recorded : sales'[x] = sales[x]
          /\ sales'[s].void = NoVoid /\ DOMAIN sales'[s].refunds = {}
          /\ \A c \in Items : onHand'[c] = onHand[c] - req[r].move[c]
      BY <2>0
    <2>2. \A c \in Guarded : onHand'[c] >= 0
      <3> SUFFICES ASSUME NEW c \in Guarded PROVE onHand'[c] >= 0
        OBVIOUS
      <3>1. c \in Items /\ req[r].move[c] \in Nat /\ onHand[c] \in Int
        BY HeldType, ConstantsAssumption DEF SubmitRecord, TypeOK, Movement
      <3>2. ~(req[r].move[c] > 0 /\ onHand[c] - req[r].move[c] < 0)
        BY DEF FreshAt, Short, SubmitRecord
      <3>3. onHand[c] >= 0
        BY DEF Safe, NoOversell
      <3> QED
        BY <2>1, <3>1, <3>2, <3>3
    <2>3. VoidXorRefund'
      BY <2>1 DEF Safe, VoidXorRefund, Voided, Refunds
    <2>4. VoidIdBoundOnce'
      BY <2>1 DEF Safe, VoidIdBoundOnce, Voided
    <2> QED
      BY <2>2, <2>3, <2>4 DEF Safe, NoOversell
  <1> QED
    BY <1>1, <1>2

(* Goods that come back keep guarded stock at or above zero. *)
LEMMA ReturnSafe ==
  ASSUME TypeOK, NoOversell, NEW move \in [Items -> Nat],
         \A c \in Items : onHand'[c] = onHand[c] + move[c]
  PROVE  NoOversell'
  <1> SUFFICES ASSUME NEW c \in Guarded PROVE onHand'[c] >= 0
    BY DEF NoOversell
  <1>1. c \in Items /\ move[c] \in Nat /\ onHand[c] \in Int /\ onHand[c] >= 0
    BY ConstantsAssumption DEF TypeOK, Movement, NoOversell
  <1> QED
    BY <1>1

LEMMA VoidSafe ==
  ASSUME TypeOK, NEW r \in Requests, FreshAt(r), Safe, VoidRecord(r)
  PROVE  Safe'
  <1> DEFINE s == req[r].sale
  <1>1. CASE UNCHANGED Stored
    BY <1>1, SafeUnchanged
  <1>2. CASE ~UNCHANGED Stored
    <2>1. s \in Recorded /\ req[r].move \in [Items -> Nat] /\ sales[s] \in Sale
      BY HeldType DEF VoidRecord, TypeOK
    <2>2. /\ Recorded' = Recorded
          /\ \A x \in Recorded \ {s} : sales'[x] = sales[x]
          /\ sales'[s] = [sales[s] EXCEPT !.void = req[r].void]
          /\ \A c \in Items : onHand'[c] = onHand[c] + req[r].move[c]
      BY <1>2, VoidWrites
    <2>3. sales'[s].void = req[r].void /\ sales'[s].refunds = sales[s].refunds
      BY <2>1, <2>2 DEF Sale
    <2>4. Refunds(s) = {} /\ \A x \in Recorded \ {s} : sales[x].void # req[r].void
      BY DEF FreshAt, VoidRecord, HasRefunds, VoidIdTaken
    <2>5. NoOversell'
      BY <2>1, <2>2, ReturnSafe DEF Safe
    <2>6. VoidXorRefund'
      BY <2>2, <2>3, <2>4 DEF Safe, VoidXorRefund, Voided, Refunds
    <2>7. VoidIdBoundOnce'
      <3>1. \A x, y \in Recorded : sales[x].void # NoVoid /\ sales[x].void = sales[y].void
                                     => x = y
        BY DEF Safe, VoidIdBoundOnce, Voided
      <3>2. \A x, y \in Recorded : sales'[x].void # NoVoid /\ sales'[x].void = sales'[y].void
                                     => x = y
        <4>1. \A x \in Recorded :
                 sales'[x].void = IF x = s THEN req[r].void ELSE sales[x].void
          BY <2>2, <2>3
        <4>2. \A x \in Recorded \ {s} : sales[x].void # req[r].void
          BY <2>4
        <4> QED
          BY <3>1, <4>1, <4>2
      <3> QED
        BY <2>2, <3>2 DEF VoidIdBoundOnce, Voided
    <2> QED
      BY <2>5, <2>6, <2>7 DEF Safe
  <1> QED
    BY <1>1, <1>2

LEMMA RefundSafe ==
  ASSUME TypeOK, NEW r \in Requests, FreshAt(r), Safe, RefundRecord(r)
  PROVE  Safe'
  <1> DEFINE s == req[r].sale
  <1>1. CASE UNCHANGED Stored
    BY <1>1, SafeUnchanged
  <1>2. CASE ~UNCHANGED Stored
    <2>1. s \in Recorded /\ req[r].move \in [Items -> Nat] /\ sales[s] \in Sale
      BY HeldType DEF RefundRecord, TypeOK
    <2>2. /\ Recorded' = Recorded
          /\ \A x \in Recorded \ {s} : sales'[x] = sales[x]
          /\ \A c \in Items : onHand'[c] = onHand[c] + req[r].move[c]
      BY <1>2, RefundWrites
    <2>3. sales'[s].void = sales[s].void
      BY <1>2, <2>1, RefundWrites DEF Sale
    <2>4. ~Voided(s)
      BY DEF FreshAt, RefundRecord
    <2>5. NoOversell'
      BY <2>1, <2>2, ReturnSafe DEF Safe
    <2>6. VoidXorRefund'
      BY <2>2, <2>3, <2>4 DEF Safe, VoidXorRefund, Voided, Refunds
    <2>7. VoidIdBoundOnce'
      BY <2>2, <2>3, <2>4 DEF Safe, VoidIdBoundOnce, Voided
    <2> QED
      BY <2>5, <2>6, <2>7 DEF Safe
  <1> QED
    BY <1>1, <1>2

LEMMA SerialInit == Init => SerialInv
  <1> SUFFICES ASSUME Init PROVE SerialInv
    OBVIOUS
  <1>1. Alone /\ Fresh
    BY DEF Init, Alone, Fresh, Idle
  <1>2. NoOversell
    BY ConstantsAssumption DEF Init, NoOversell
  <1>3. VoidXorRefund /\ VoidIdBoundOnce
    BY DEF Init, VoidXorRefund, VoidIdBoundOnce, Recorded
  <1> QED
    BY <1>1, <1>2, <1>3, InitType DEF SerialInv

LEMMA SerialNext ==
  ASSUME ~AwaitYields, SerialInv, [Next]_vars
  PROVE  SerialInv'
  <1>1. TypeOK' /\ Alone' /\ Fresh'
    BY NextType, AloneNext, FreshNext DEF SerialInv
  <1>2. \A r \in Requests : FreshAt(r)
    BY DEF SerialInv, Fresh, FreshAt
  <1>3. Safe'
    BY <1>2, ReadOnlySteps, SafeUnchanged, SubmitSafe, VoidSafe, RefundSafe DEF SerialInv, Safe
  <1> QED
    BY <1>1, <1>3 DEF SerialInv, Safe

(* While awaits do not yield to other handlers, as with the repository in     *)
(* memory, no sequence of submits, voids and refunds takes an item that       *)
(* forbids negative stock below zero.                                         *)
THEOREM StockGuarded ==
  ASSUME ~AwaitYields
  PROVE  Spec => []NoOversell
  <1>1. SerialInv => NoOversell
    BY DEF SerialInv
  <1> QED
    BY <1>1, SerialInit, SerialNext, PTL DEF Spec

(* Then no sale is both voided and refunded. *)
THEOREM NeverVoidedAndRefunded ==
  ASSUME ~AwaitYields
  PROVE  Spec => []VoidXorRefund
  <1>1. SerialInv => VoidXorRefund
    BY DEF SerialInv
  <1> QED
    BY <1>1, SerialInit, SerialNext, PTL DEF Spec

(* And a localVoidId never voids two sales. *)
THEOREM VoidIdsUnique ==
  ASSUME ~AwaitYields
  PROVE  Spec => []VoidIdBoundOnce
  <1>1. SerialInv => VoidIdBoundOnce
    BY DEF SerialInv
  <1> QED
    BY <1>1, SerialInit, SerialNext, PTL DEF Spec

LEMMA VoidInShiftStep ==
  ASSUME ~AwaitYields, SerialInv, [Next]_vars, NEW s \in Recorded,
         ~Voided(s), sales'[s].void # NoVoid
  PROVE  openDate = sales[s].date
  <1>1. ~UNCHANGED Stored
    BY DEF Stored, Voided
  <1>2. PICK r \in Requests : SubmitRecord(r) \/ VoidRecord(r) \/ RefundRecord(r)
    BY <1>1, ReadOnlySteps
  <1>3. FreshAt(r) /\ TypeOK
    BY DEF SerialInv, Fresh, FreshAt
  <1>4. CASE SubmitRecord(r)
    <2>1. sales'[s] = sales[s]
      BY <1>1, <1>3, <1>4, SubmitWrites
    <2> QED
      BY <2>1 DEF Voided
  <1>5. CASE VoidRecord(r)
    <2>1. s # req[r].sale => sales'[s] = sales[s]
      BY <1>1, <1>3, <1>5, VoidWrites
    <2>2. s = req[r].sale
      BY <2>1 DEF Voided
    <2>3. InOpenShift(req[r].sale)
      BY <1>3, <1>5 DEF FreshAt, VoidRecord
    <2> QED
      BY <2>2, <2>3 DEF InOpenShift
  <1>6. CASE RefundRecord(r)
    <2>1. req[r].sale \in Recorded /\ sales[req[r].sale] \in Sale
      BY <1>3, <1>6, HeldType DEF RefundRecord, TypeOK
    <2>2. sales'[s].void = sales[s].void
      BY <1>1, <1>3, <1>6, <2>1, RefundWrites DEF Sale
    <2> QED
      BY <2>2 DEF Voided
  <1> QED
    BY <1>2, <1>4, <1>5, <1>6

(* While awaits do not yield, a sale is only voided in the open shift of its date: *)
(* no shift is closed or opened between the gate and the write.                   *)
THEOREM VoidsStayInShift ==
  ASSUME ~AwaitYields
  PROVE  Spec => VoidsInOpenShift
  <1>1. SerialInv /\ [Next]_vars =>
           [\A s \in Recorded : ~Voided(s) /\ sales'[s].void # NoVoid
                                   => openDate = sales[s].date]_vars
    BY VoidInShiftStep
  <1> QED
    BY <1>1, SerialInit, SerialNext, PTL DEF Spec, VoidsInOpenShift

(* What each reply of a handler says is true of the state it leaves. *)
LEMMA SubmitHonest ==
  ASSUME TypeOK, NEW r \in Requests, FreshAt(r), SubmitRecord(r)
  PROVE  ReplyHonest'
  <1>1. last' = [op |-> "submit", code |-> "created", sale |-> req[r].sale,
                 cart |-> req[r].cart]
    BY DEF SubmitRecord, Reply, SubmitReply
  <1>2. req[r].sale \notin Recorded
    BY DEF FreshAt, SubmitRecord
  <1>3. /\ Recorded' = Recorded \union {req[r].sale}
        /\ sales'[req[r].sale] = [cart |-> req[r].cart, date |-> req[r].date,
                                  total |-> req[r].total, void |-> NoVoid,
                                  refunds |-> <<>>]
    BY <1>2, SubmitWrites
  <1>4. req[r].sale \in Recorded' /\ sales'[req[r].sale].cart = req[r].cart
    BY <1>3
  <1> QED
    BY <1>1, <1>4 DEF ReplyHonest

LEMMA VoidHonest ==
  ASSUME TypeOK, NEW r \in Requests, VoidRecord(r)
  PROVE  ReplyHonest'
  <1> DEFINE s == req[r].sale
  <1>1. s \in Recorded /\ sales[s] \in Sale /\ req[r].void # NoVoid
    BY HeldType, ConstantsAssumption DEF VoidRecord, TypeOK
  <1>2. last'.op = "void" /\ last'.sale = s
    BY DEF VoidRecord, Reply, VoidReply
  <1>3. s \in DOMAIN sales' /\ sales'[s].void # NoVoid
    <2>1. CASE Voided(s)
      <3>1. UNCHANGED Stored
        BY <2>1, VoidWrites
      <3> QED
        BY <1>1, <2>1, <3>1 DEF Stored, Recorded, Voided
    <2>2. CASE ~Voided(s)
      <3>1. Recorded' = Recorded /\ sales'[s] = [sales[s] EXCEPT !.void = req[r].void]
        BY <2>2, VoidWrites
      <3>2. sales'[s].void = req[r].void
        BY <1>1, <3>1 DEF Sale
      <3> QED
        BY <1>1, <3>1, <3>2 DEF Recorded
    <2> QED
      BY <2>1, <2>2
  <1> QED
    BY <1>2, <1>3 DEF ReplyHonest, Recorded, Voided

LEMMA RefundHonest ==
  ASSUME TypeOK, NEW r \in Requests, FreshAt(r), RefundRecord(r)
  PROVE  ReplyHonest'
  <1> DEFINE s == req[r].sale
             f == req[r].refund
             booked == [lines |-> req[r].lines, amount |-> req[r].amount]
  <1>1. s \in Recorded /\ sales[s] \in Sale
    BY HeldType DEF RefundRecord, TypeOK
  <1>2. /\ last'.op = "refund" /\ last'.sale = s /\ last'.refund = f
        /\ [lines |-> last'.lines, amount |-> last'.amount] = booked
    BY DEF RefundRecord, Reply, RefundReply
  <1>3. f \notin Refunds(s)
    BY DEF FreshAt, RefundRecord
  <1>4. /\ Recorded' = Recorded
        /\ sales'[s] = [sales[s] EXCEPT !.refunds =
                           [g \in Refunds(s) \union {f} |->
                               IF g = f THEN booked ELSE sales[s].refunds[g]]]
    BY <1>3, RefundWrites
  <1>5. sales'[s].refunds = [g \in Refunds(s) \union {f} |->
                                IF g = f THEN booked ELSE sales[s].refunds[g]]
    BY <1>1, <1>4 DEF Sale
  <1>6. s \in Recorded' /\ f \in DOMAIN sales'[s].refunds /\ sales'[s].refunds[f] = booked
    BY <1>1, <1>4, <1>5
  <1> QED
    BY <1>2, <1>6 DEF ReplyHonest, Refunds

(* A handler that ends at its checks answers of the state it read. *)
LEMMA ReadsHonest ==
  ASSUME TypeOK, NEW r \in Requests, Handle(r), UNCHANGED sales,
         ~SubmitRecord(r), ~VoidRecord(r), ~RefundRecord(r)
  PROVE  ReplyHonest'
  <1>0. Recorded' = Recorded /\ \A s : Voided(s)' = Voided(s) /\ Refunds(s)' = Refunds(s)
    BY DEF Recorded, Voided, Refunds
  <1>1. ASSUME NEW s \in Sales, NEW k \in Carts, NEW d \in Dates, NEW off \in Discounts,
               SubmitLookup(r, s, k, d, off)
        PROVE  ReplyHonest'
    <2>1. \/ last' = NoReply
          \/ last' = [op |-> "submit", code |-> "idempotency_conflict"]
          \/ /\ last' = [op |-> "submit", code |-> "conflict", sale |-> s, cart |-> k]
             /\ s \in Recorded /\ sales[s].cart = k
      BY <1>1 DEF SubmitLookup, Reply, Continue, Refused, SubmitReply, SameShape
    <2> QED
      BY <1>0, <2>1 DEF ReplyHonest
  <1>2. ASSUME SubmitCheck(r) PROVE ReplyHonest'
    <2>1. \/ last' = NoReply
          \/ last' = [op |-> "submit", code |-> "rejected"]
          \/ last' = [op |-> "submit", code |-> "insufficient_stock"]
      BY <1>2 DEF SubmitCheck, Reply, Continue, Refused
    <2> QED
      BY <2>1 DEF ReplyHonest
  <1>3. ASSUME NEW s \in Sales, NEW v \in VoidIds, VoidCheck(r, s, v)
        PROVE  ReplyHonest'
    <2>1. \/ last' = NoReply
          \/ \E c \in {"sale_not_found", "sale_has_refunds", "void_idempotency_conflict",
                        "void_outside_open_shift"} : last' = [op |-> "void", code |-> c]
          \/ /\ last' = [op |-> "void", code |-> "already_voided", sale |-> s]
             /\ s \in Recorded /\ Voided(s)
      BY <1>3 DEF VoidCheck, Reply, Continue, Refused, VoidReply
    <2> QED
      BY <1>0, <2>1 DEF ReplyHonest
  <1>4. ASSUME NEW s \in Sales, NEW f \in RefundIds, NEW k \in Carts, NEW a \in Amounts,
               RefundCheck(r, s, f, k, a)
        PROVE  ReplyHonest'
    <2>1. \/ last' = NoReply
          \/ \E c \in {"sale_not_found", "sale_voided", "refund_idempotency_conflict",
                        "exceeds_remaining"} : last' = [op |-> "refund", code |-> c]
          \/ /\ last' = [op |-> "refund", code |-> "replayed", sale |-> s, refund |-> f,
                          lines |-> k, amount |-> a]
             /\ s \in Recorded /\ f \in Refunds(s)
             /\ sales[s].refunds[f] = [lines |-> k, amount |-> a]
      BY <1>4 DEF RefundCheck, Reply, Continue, Refused, RefundReply
    <2> QED
      BY <1>0, <2>1 DEF ReplyHonest
  <1> QED
    BY <1>1, <1>2, <1>3, <1>4 DEF Handle

LEMMA HonestNext ==
  ASSUME SerialInv, ReplyHonest, [Next]_vars
  PROVE  ReplyHonest'
  <1>0. TypeOK /\ \A r \in Requests : FreshAt(r)
    BY DEF SerialInv, Fresh, FreshAt
  <1>1. ASSUME NEW r \in Requests, Handle(r) PROVE ReplyHonest'
    <2>1. CASE SubmitRecord(r) \/ VoidRecord(r) \/ RefundRecord(r)
      BY <1>0, <2>1, SubmitHonest, VoidHonest, RefundHonest
    <2>2. CASE ~(SubmitRecord(r) \/ VoidRecord(r) \/ RefundRecord(r))
      <3>1. UNCHANGED sales
        BY <1>1, <2>2, ZenonT(30) DEF Handle, SubmitLookup, SubmitCheck, VoidCheck, RefundCheck, Stored
      <3> QED
        BY <1>0, <1>1, <2>2, <3>1, ReadsHonest
    <2> QED
      BY <2>1, <2>2
  <1>2. ASSUME NEW v \in Versions, EditCatalog(v) PROVE ReplyHonest'
    BY <1>2 DEF EditCatalog, ReplyHonest
  <1>3. ASSUME NEW d \in Dates \union {NoShift}, MoveShift(d) PROVE ReplyHonest'
    BY <1>3 DEF MoveShift, ReplyHonest
  <1>4. UNCHANGED vars => ReplyHonest'
    BY DEF vars, ReplyHonest, Recorded, Voided, Refunds
  <1> QED
    BY <1>1, <1>2, <1>3, <1>4 DEF Next

(* While awaits do not yield, no reply claims what is not on record: a sale is  *)
(* answered created only with the lines that were stored, and a void or a       *)
(* refund is answered done only when it is booked.                              *)
THEOREM RepliesHonest ==
  ASSUME ~AwaitYields
  PROVE  Spec => []ReplyHonest
  <1>1. Init => ReplyHonest
    BY DEF Init, ReplyHonest
  <1> QED
    BY <1>1, SerialInit, SerialNext, HonestNext, PTL DEF Spec

Kept(s) ==
    /\ s \in DOMAIN sales'
    /\ sales'[s].cart = sales[s].cart /\ sales'[s].total = sales[s].total
    /\ Voided(s) => sales'[s].void = sales[s].void
    /\ \A f \in Refunds(s) : /\ f \in DOMAIN sales'[s].refunds
                             /\ sales'[s].refunds[f] = sales[s].refunds[f]

LEMMA KeptStep ==
  ASSUME TypeOK, [Next]_vars, NEW s \in Recorded
  PROVE  Kept(s)
  <1>1. CASE UNCHANGED Stored
    BY <1>1 DEF Stored, Kept, Recorded, Refunds
  <1>2. CASE ~UNCHANGED Stored
    <2>1. PICK r \in Requests : SubmitRecord(r) \/ VoidRecord(r) \/ RefundRecord(r)
      BY <1>2, ReadOnlySteps
    <2>2. Recorded' = DOMAIN sales' /\ sales[s] \in Sale
      BY DEF Recorded, TypeOK
    <2>3. CASE sales'[s] = sales[s] /\ s \in Recorded'
      BY <2>2, <2>3 DEF Kept, Refunds
    <2>4. CASE SubmitRecord(r)
      <3>1. sales'[s] = sales[s] /\ s \in Recorded'
        BY <1>2, <2>4, SubmitWrites
      <3> QED
        BY <2>3, <3>1
    <2>5. CASE VoidRecord(r) /\ s = req[r].sale
      <3>1. ~Voided(s) /\ s \in Recorded' /\ sales'[s] = [sales[s] EXCEPT !.void = req[r].void]
        BY <1>2, <2>5, VoidWrites
      <3>2. /\ sales'[s].cart = sales[s].cart /\ sales'[s].total = sales[s].total
            /\ sales'[s].refunds = sales[s].refunds
        BY <2>2, <3>1 DEF Sale
      <3> QED
        BY <2>2, <3>1, <3>2 DEF Kept, Refunds
    <2>6. CASE RefundRecord(r) /\ s = req[r].sale
      <3> DEFINE more == [g \in Refunds(s) \union {req[r].refund} |->
                             IF g = req[r].refund
                             THEN [lines |-> req[r].lines, amount |-> req[r].amount]
                             ELSE sales[s].refunds[g]]
      <3>1. /\ req[r].refund \notin Refunds(s) /\ s \in Recorded'
            /\ sales'[s] = [sales[s] EXCEPT !.refunds = more]
        BY <1>2, <2>6, RefundWrites
      <3>2. /\ sales'[s].cart = sales[s].cart /\ sales'[s].total = sales[s].total
            /\ sales'[s].void = sales[s].void /\ sales'[s].refunds = more
        BY <2>2, <3>1 DEF Sale
      <3>3. \A f \in Refunds(s) : f \in DOMAIN more /\ more[f] = sales[s].refunds[f]
        BY <3>1
      <3> QED
        BY <2>2, <3>1, <3>2, <3>3 DEF Kept
    <2>7. CASE (VoidRecord(r) \/ RefundRecord(r)) /\ s # req[r].sale
      <3>1. sales'[s] = sales[s] /\ s \in Recorded'
        BY <1>2, <2>7, VoidWrites, RefundWrites
      <3> QED
        BY <2>3, <3>1
    <2> QED
      BY <2>1, <2>4, <2>5, <2>6, <2>7
  <1> QED
    BY <1>1, <1>2

(* Sales, voids and refunds only accumulate, however handlers interleave. *)
THEOREM RecordsKept == Spec => RecordsAppendOnly
  <1>1. TypeOK /\ [Next]_vars => [\A s \in Recorded : Kept(s)]_vars
    BY KeptStep
  <1>2. [\A s \in Recorded : Kept(s)]_vars =>
           [\A s \in Recorded :
              /\ s \in DOMAIN sales'
              /\ sales'[s].cart = sales[s].cart /\ sales'[s].total = sales[s].total
              /\ Voided(s) => sales'[s].void = sales[s].void
              /\ \A f \in Refunds(s) : /\ f \in DOMAIN sales'[s].refunds
                                       /\ sales'[s].refunds[f] = sales[s].refunds[f]]_vars
    BY DEF Kept
  <1> QED
    BY <1>1, <1>2, InitType, NextType, PTL DEF Spec, RecordsAppendOnly

-----------------------------------------------------------------------------
(* The two sums of the service, of one sale. *)
Paid(sale) == [f \in DOMAIN sale.refunds |-> sale.refunds[f].amount]
Back(sale, p) == [f \in DOMAIN sale.refunds |-> Quantity[sale.refunds[f].lines][p]]

LEMMA AmountTally ==
  ASSUME NEW s, NEW R, R = Refunds(s), IsFiniteSet(R), Paid(sales[s]) \in [R -> Nat]
  PROVE  RefundedAmount(s) = Tally(Paid(sales[s]))
  <1> DEFINE f == Paid(sales[s])
             Q(iter) == iter = [T \in SUBSET R |-> IF T = {} THEN 0
                                  ELSE sales[s].refunds[CHOOSE x \in T : TRUE].amount
                                       + iter[T \ {CHOOSE x \in T : TRUE}]]
  <1>1. RefundedAmount(s) = (CHOOSE iter : Q(iter))[R]
    BY DEF RefundedAmount, MapThenSumSet, MapThenFoldSet
  <1>2. \A T \in SUBSET R : T # {} => f[Picked(T)] = sales[s].refunds[CHOOSE x \in T : TRUE].amount
    BY DEF Picked, Paid, Refunds
  <1>3. \A iter : Q(iter) <=> SumLoop(iter, f, R)
    BY <1>2 DEF SumLoop, Picked
  <1> HIDE DEF Q, f
  <1>4. \E iter : Q(iter)
    <2>1. f \in [R -> Nat]
      BY DEF f
    <2>2. \E iter : SumLoop(iter, f, R)
      BY <2>1, LoopExists
    <2> QED
      BY <1>3, <2>2
  <1>5. Q(CHOOSE iter : Q(iter))
    BY <1>4
  <1>6. RefundedAmount(s) = Cardinality(Units(f, R))
    BY <1>1, <1>3, <1>5, LoopCounts DEF f
  <1> QED
    BY <1>6 DEF Tally, f, Paid, Refunds

LEMMA QuantityTally ==
  ASSUME NEW s, NEW p, NEW R, R = Refunds(s), IsFiniteSet(R), Back(sales[s], p) \in [R -> Nat]
  PROVE  RefundedQuantity(s, p) = Tally(Back(sales[s], p))
  <1> DEFINE f == Back(sales[s], p)
             Q(iter) == iter = [T \in SUBSET R |-> IF T = {} THEN 0
                                  ELSE Quantity[sales[s].refunds[CHOOSE x \in T : TRUE].lines][p]
                                       + iter[T \ {CHOOSE x \in T : TRUE}]]
  <1>1. RefundedQuantity(s, p) = (CHOOSE iter : Q(iter))[R]
    BY DEF RefundedQuantity, MapThenSumSet, MapThenFoldSet
  <1>2. \A T \in SUBSET R : T # {} =>
           f[Picked(T)] = Quantity[sales[s].refunds[CHOOSE x \in T : TRUE].lines][p]
    BY DEF Picked, Back, Refunds
  <1>3. \A iter : Q(iter) <=> SumLoop(iter, f, R)
    BY <1>2 DEF SumLoop, Picked
  <1> HIDE DEF Q, f
  <1>4. \E iter : Q(iter)
    <2>1. f \in [R -> Nat]
      BY DEF f
    <2>2. \E iter : SumLoop(iter, f, R)
      BY <2>1, LoopExists
    <2> QED
      BY <1>3, <2>2
  <1>5. Q(CHOOSE iter : Q(iter))
    BY <1>4
  <1>6. RefundedQuantity(s, p) = Cardinality(Units(f, R))
    BY <1>1, <1>3, <1>5, LoopCounts DEF f
  <1> QED
    BY <1>6 DEF Tally, f, Back, Refunds

(* The sums of every recorded sale are its tallies. *)
SumsRight ==
    \A s \in Recorded :
        /\ IsFiniteSet(Refunds(s)) /\ Refunds(s) = DOMAIN sales[s].refunds
        /\ Paid(sales[s]) \in [Refunds(s) -> Nat]
        /\ RefundedAmount(s) = Tally(Paid(sales[s]))
        /\ \A p \in Items : /\ Back(sales[s], p) \in [Refunds(s) -> Nat]
                            /\ RefundedQuantity(s, p) = Tally(Back(sales[s], p))

LEMMA SumsAreTallies ==
  ASSUME TypeOK, FiniteRefunds
  PROVE  SumsRight
  <1> SUFFICES ASSUME NEW s \in Recorded
               PROVE  /\ IsFiniteSet(Refunds(s)) /\ Refunds(s) = DOMAIN sales[s].refunds
                      /\ Paid(sales[s]) \in [Refunds(s) -> Nat]
                      /\ RefundedAmount(s) = Tally(Paid(sales[s]))
                      /\ \A p \in Items :
                            /\ Back(sales[s], p) \in [Refunds(s) -> Nat]
                            /\ RefundedQuantity(s, p) = Tally(Back(sales[s], p))
    BY DEF SumsRight
  <1>1. IsFiniteSet(Refunds(s)) /\ Refunds(s) = DOMAIN sales[s].refunds
    BY DEF FiniteRefunds, Refunds
  <1>2. \A f \in Refunds(s) : sales[s].refunds[f] \in Refund
    BY DEF TypeOK, Sale, Refunds
  <1>3. Paid(sales[s]) \in [Refunds(s) -> Nat]
    BY <1>1, <1>2, ConstantsAssumption DEF Paid, Refund
  <1>4. ASSUME NEW p \in Items PROVE Back(sales[s], p) \in [Refunds(s) -> Nat]
    BY <1>1, <1>2, ConstantsAssumption DEF Back, Refund
  <1>5. RefundedAmount(s) = Tally(Paid(sales[s]))
    BY <1>1, <1>3, AmountTally
  <1>6. \A p \in Items : RefundedQuantity(s, p) = Tally(Back(sales[s], p))
    BY <1>1, <1>4, QuantityTally
  <1> QED
    BY <1>1, <1>3, <1>4, <1>5, <1>6

(* What a refund about to be written leaves of the sale, and what the refunds *)
(* on record left of it.                                                      *)
Room ==
    \A r \in Requests :
        req[r].phase = "refundChecked" =>
            /\ Tally(Paid(sales[req[r].sale])) + req[r].amount <= sales[req[r].sale].total
            /\ \A p \in Items :
                  Tally(Back(sales[req[r].sale], p)) + Quantity[req[r].lines][p]
                     <= Quantity[sales[req[r].sale].cart][p]

Within ==
    \A s \in Recorded :
        /\ Tally(Paid(sales[s])) <= sales[s].total
        /\ \A p \in Items : Tally(Back(sales[s], p)) <= Quantity[sales[s].cart][p]

RefundsInv == BookedInv /\ Alone /\ Fresh /\ Room /\ Within

LEMMA WithinMeans ==
  ASSUME TypeOK, FiniteRefunds, Within
  PROVE  RefundsWithinSale
  BY SumsAreTallies DEF RefundsWithinSale, Within, SumsRight

LEMMA RoomChecked ==
  ASSUME TypeOK, FiniteRefunds, NEW s \in Recorded, NEW q \in Carts, NEW a \in Amounts,
         WithinRemaining(s, q, a)
  PROVE  /\ Tally(Paid(sales[s])) + a <= sales[s].total
         /\ \A p \in Items : Tally(Back(sales[s], p)) + Quantity[q][p]
                                <= Quantity[sales[s].cart][p]
  <1>1. SumsRight
    BY SumsAreTallies
  <1>2. Tally(Paid(sales[s])) + a <= sales[s].total
    BY <1>1 DEF SumsRight, WithinRemaining
  <1>3. ASSUME NEW p \in Items
        PROVE  Tally(Back(sales[s], p)) + Quantity[q][p] <= Quantity[sales[s].cart][p]
    <2>1. Quantity[q][p] <= Quantity[sales[s].cart][p] - Tally(Back(sales[s], p))
      BY <1>1 DEF SumsRight, WithinRemaining
    <2>2. sales[s].cart \in Carts
      BY DEF TypeOK, Sale
    <2>3. Quantity[q][p] \in Nat /\ Quantity[sales[s].cart][p] \in Nat
      BY <2>2, ConstantsAssumption
    <2>4. Tally(Back(sales[s], p)) \in Nat
      BY <1>1, TallyType DEF SumsRight
    <2> QED
      BY <2>1, <2>3, <2>4
  <1> QED
    BY <1>2, <1>3

LEMMA RoomNext ==
  ASSUME ~AwaitYields, BookedInv, Alone, Room, [Next]_vars
  PROVE  Room'
  <1>0. TypeOK /\ FiniteRefunds
    BY DEF BookedInv
  <1>1. ASSUME NEW r \in Requests, Handle(r) PROVE Room'
    <2>1. \A x \in Requests \ {r} : req'[x].phase # "refundChecked"
      BY <1>0, <1>1, OthersIdle DEF Idle
    <2>2. CASE req'[r].phase # "refundChecked"
      BY <2>1, <2>2 DEF Room
    <2>3. CASE req'[r].phase = "refundChecked"
      <3>1. PICK s \in Sales, f \in RefundIds, q \in Carts, a \in Amounts :
               RefundCheck(r, s, f, q, a)
        <4>1. ~SubmitRecord(r) /\ ~VoidRecord(r) /\ ~RefundRecord(r)
          BY <1>0, <2>3 DEF SubmitRecord, VoidRecord, RefundRecord, Reply, Idle, TypeOK
        <4>2. ~SubmitCheck(r)
          BY <1>0, <2>3 DEF SubmitCheck, Reply, Continue, Idle, TypeOK
        <4>3. ASSUME NEW s \in Sales, NEW k \in Carts, NEW d \in Dates, NEW off \in Discounts,
                     SubmitLookup(r, s, k, d, off)
              PROVE  FALSE
          BY <1>0, <2>3, <4>3 DEF SubmitLookup, Reply, Continue, Idle, TypeOK
        <4>4. ASSUME NEW s \in Sales, NEW v \in VoidIds, VoidCheck(r, s, v)
              PROVE  FALSE
          BY <1>0, <2>3, <4>4 DEF VoidCheck, Reply, Continue, Idle, TypeOK
        <4> QED
          BY <1>1, <4>1, <4>2, <4>3, <4>4 DEF Handle
      <3>2. /\ s \in Recorded /\ WithinRemaining(s, q, a)
            /\ req'[r].sale = s /\ req'[r].lines = q /\ req'[r].amount = a
        BY <1>0, <2>3, <3>1 DEF RefundCheck, Reply, Continue, Idle, TypeOK
      <3>3. sales' = sales
        BY <3>1 DEF RefundCheck, Stored
      <3> QED
        BY <1>0, <2>1, <3>2, <3>3, RoomChecked DEF Room
    <2> QED
      BY <2>2, <2>3
  <1>2. ASSUME NEW v \in Versions, EditCatalog(v) PROVE Room'
    BY <1>2 DEF EditCatalog, Stored, Room
  <1>3. ASSUME NEW d \in Dates \union {NoShift}, MoveShift(d) PROVE Room'
    BY <1>3 DEF MoveShift, Stored, Room
  <1>4. UNCHANGED vars => Room'
    BY DEF vars, Room
  <1> QED
    BY <1>1, <1>2, <1>3, <1>4 DEF Next

(* One refund more adds its amount and its lines to the tallies. *)
LEMMA RefundTallies ==
  ASSUME TypeOK, FiniteRefunds, NEW r \in Requests, RefundRecord(r), ~UNCHANGED Stored
  PROVE  LET s == req[r].sale IN
         /\ Tally(Paid(sales'[s])) = Tally(Paid(sales[s])) + req[r].amount
         /\ \A p \in Items :
               Tally(Back(sales'[s], p)) = Tally(Back(sales[s], p)) + Quantity[req[r].lines][p]
  <1> DEFINE s == req[r].sale
             f == req[r].refund
             booked == [lines |-> req[r].lines, amount |-> req[r].amount]
             more == [g \in Refunds(s) \union {f} |->
                         IF g = f THEN booked ELSE sales[s].refunds[g]]
  <1>1. s \in Recorded /\ sales[s] \in Sale /\ req[r].lines \in Carts /\ req[r].amount \in Nat
    BY HeldType, ConstantsAssumption DEF RefundRecord, TypeOK
  <1>2. f \notin Refunds(s) /\ sales'[s] = [sales[s] EXCEPT !.refunds = more]
    BY RefundWrites
  <1>3. sales'[s].refunds = more
    BY <1>1, <1>2 DEF Sale
  <1>4. /\ IsFiniteSet(Refunds(s)) /\ Refunds(s) = DOMAIN sales[s].refunds
        /\ Paid(sales[s]) \in [Refunds(s) -> Nat]
        /\ \A p \in Items : Back(sales[s], p) \in [Refunds(s) -> Nat]
    BY <1>1, SumsAreTallies DEF SumsRight
  <1> DEFINE R == Refunds(s)
  <1>5. DOMAIN sales'[s].refunds = R \union {f}
    BY <1>3
  <1>6. sales'[s].refunds[f] = booked /\ \A g \in R : sales'[s].refunds[g] = sales[s].refunds[g]
    BY <1>2, <1>3
  <1> HIDE DEF more, R
  <1>7. Tally(Paid(sales'[s])) = Tally(Paid(sales[s])) + req[r].amount
    <2>1. Paid(sales[s]) \in [R -> Nat] /\ IsFiniteSet(R) /\ f \notin R
      BY <1>2, <1>4 DEF R
    <2>2. /\ DOMAIN Paid(sales'[s]) = R \union {f} /\ Paid(sales'[s])[f] = req[r].amount
          /\ \A g \in R : Paid(sales'[s])[g] = Paid(sales[s])[g]
      <3>1. DOMAIN Paid(sales'[s]) = R \union {f} /\ DOMAIN sales[s].refunds = R
        BY <1>4, <1>5 DEF Paid, R
      <3>2. Paid(sales'[s])[f] = sales'[s].refunds[f].amount
        BY <1>5 DEF Paid
      <3>3. ASSUME NEW g \in R PROVE Paid(sales'[s])[g] = Paid(sales[s])[g]
        BY <1>5, <1>6, <3>1 DEF Paid
      <3> QED
        BY <1>6, <3>1, <3>2, <3>3
    <2>3. Paid(sales'[s]) \in [R \union {f} -> Nat]
      <3>1. \A g \in R \union {f} : Paid(sales'[s])[g] \in Nat
        BY <1>1, <2>1, <2>2
      <3> QED
        BY <2>2, <3>1 DEF Paid
    <2> QED
      BY <2>1, <2>2, <2>3, TallyAdds
  <1>8. ASSUME NEW p \in Items
        PROVE  Tally(Back(sales'[s], p)) = Tally(Back(sales[s], p)) + Quantity[req[r].lines][p]
    <2>1. Back(sales[s], p) \in [R -> Nat] /\ IsFiniteSet(R) /\ f \notin R
      BY <1>2, <1>4 DEF R
    <2>2. /\ DOMAIN Back(sales'[s], p) = R \union {f}
          /\ Back(sales'[s], p)[f] = Quantity[req[r].lines][p]
          /\ \A g \in R : Back(sales'[s], p)[g] = Back(sales[s], p)[g]
      <3>1. DOMAIN Back(sales'[s], p) = R \union {f} /\ DOMAIN sales[s].refunds = R
        BY <1>4, <1>5 DEF Back, R
      <3>2. Back(sales'[s], p)[f] = Quantity[sales'[s].refunds[f].lines][p]
        BY <1>5 DEF Back
      <3>3. ASSUME NEW g \in R PROVE Back(sales'[s], p)[g] = Back(sales[s], p)[g]
        BY <1>5, <1>6, <3>1 DEF Back
      <3> QED
        BY <1>6, <3>1, <3>2, <3>3
    <2>3. Back(sales'[s], p) \in [R \union {f} -> Nat]
      <3>1. Quantity[req[r].lines][p] \in Nat
        BY <1>1, ConstantsAssumption
      <3>2. \A g \in R \union {f} : Back(sales'[s], p)[g] \in Nat
        BY <2>1, <2>2, <3>1
      <3> QED
        BY <2>2, <3>2 DEF Back
    <2> QED
      BY <2>1, <2>2, <2>3, TallyAdds
  <1> QED
    BY <1>7, <1>8

LEMMA WithinNext ==
  ASSUME BookedInv, Room, Within, [Next]_vars
  PROVE  Within'
  <1>0. TypeOK /\ FiniteRefunds
    BY DEF BookedInv
  <1>1. CASE UNCHANGED Stored
    BY <1>1 DEF Stored, Within, Recorded
  <1>2. CASE ~UNCHANGED Stored
    <2>1. PICK r \in Requests : SubmitRecord(r) \/ VoidRecord(r) \/ RefundRecord(r)
      BY <1>2, ReadOnlySteps
    <2> DEFINE s == req[r].sale
    <2>2. CASE SubmitRecord(r)
      <3>1. /\ Recorded' = Recorded \union {s} /\ \A x \in Recorded : sales'[x] = sales[x]
            /\ sales'[s] = [cart |-> req[r].cart, date |-> req[r].date,
                            total |-> req[r].total, void |-> NoVoid, refunds |-> <<>>]
        BY <1>0, <1>2, <2>2, SubmitWrites
      <3>2. req[r].cart \in Carts /\ req[r].total \in Nat
        BY <1>0, <2>2, HeldType DEF SubmitRecord
      <3>3. /\ Tally(Paid(sales'[s])) = 0
            /\ \A p \in Items : Tally(Back(sales'[s], p)) = 0
        <4>1. DOMAIN Paid(sales'[s]) = {} /\ \A p \in Items : DOMAIN Back(sales'[s], p) = {}
          BY <3>1 DEF Paid, Back
        <4> QED
          BY <4>1, TallyEmpty
      <3>4. /\ sales'[s].total \in Nat
            /\ \A p \in Items : Quantity[sales'[s].cart][p] \in Nat
        BY <3>1, <3>2, ConstantsAssumption
      <3> QED
        BY <3>1, <3>3, <3>4 DEF Within
    <2>3. CASE VoidRecord(r)
      <3>1. /\ s \in Recorded /\ sales[s] \in Sale /\ Recorded' = Recorded
            /\ \A x \in Recorded \ {s} : sales'[x] = sales[x]
            /\ sales'[s] = [sales[s] EXCEPT !.void = req[r].void]
        BY <1>0, <1>2, <2>3, VoidWrites, HeldType DEF VoidRecord, TypeOK
      <3>2. /\ sales'[s].refunds = sales[s].refunds /\ sales'[s].cart = sales[s].cart
            /\ sales'[s].total = sales[s].total
        BY <3>1 DEF Sale
      <3>3. Paid(sales'[s]) = Paid(sales[s]) /\ \A p : Back(sales'[s], p) = Back(sales[s], p)
        BY <3>2 DEF Paid, Back
      <3>4. \A x \in Recorded :
               /\ Paid(sales'[x]) = Paid(sales[x]) /\ \A p : Back(sales'[x], p) = Back(sales[x], p)
               /\ sales'[x].cart = sales[x].cart /\ sales'[x].total = sales[x].total
        BY <3>1, <3>2, <3>3
      <3> QED
        BY <3>1, <3>4 DEF Within
    <2>4. CASE RefundRecord(r)
      <3>1. /\ s \in Recorded /\ sales[s] \in Sale /\ Recorded' = Recorded
            /\ \A x \in Recorded \ {s} : sales'[x] = sales[x]
            /\ sales'[s].cart = sales[s].cart /\ sales'[s].total = sales[s].total
        <4>1. s \in Recorded /\ sales[s] \in Sale
          BY <1>0, <2>4, HeldType DEF RefundRecord, TypeOK
        <4>2. /\ Recorded' = Recorded /\ \A x \in Recorded \ {s} : sales'[x] = sales[x]
              /\ \E more : sales'[s] = [sales[s] EXCEPT !.refunds = more]
          BY <1>0, <1>2, <2>4, RefundWrites
        <4>3. sales'[s].cart = sales[s].cart /\ sales'[s].total = sales[s].total
          BY <4>1, <4>2 DEF Sale
        <4> QED
          BY <4>1, <4>2, <4>3
      <3>2. /\ Tally(Paid(sales'[s])) = Tally(Paid(sales[s])) + req[r].amount
            /\ \A p \in Items : Tally(Back(sales'[s], p))
                                   = Tally(Back(sales[s], p)) + Quantity[req[r].lines][p]
        BY <1>0, <1>2, <2>4, RefundTallies
      <3>3. req[r].phase = "refundChecked"
        BY <2>4 DEF RefundRecord
      <3> QED
        BY <3>1, <3>2, <3>3 DEF Within, Room
    <2> QED
      BY <2>1, <2>2, <2>3, <2>4
  <1> QED
    BY <1>1, <1>2

LEMMA RefundsInit == Init => RefundsInv
  <1> SUFFICES ASSUME Init PROVE RefundsInv
    OBVIOUS
  <1>1. BookedInv
    BY InitBooked
  <1>2. Alone /\ Fresh
    BY SerialInit DEF SerialInv
  <1>3. Room /\ Within
    BY DEF Init, Room, Within, Recorded, Idle
  <1> QED
    BY <1>1, <1>2, <1>3 DEF RefundsInv

LEMMA RefundsNext ==
  ASSUME ~AwaitYields, RefundsInv, [Next]_vars
  PROVE  RefundsInv'
  <1>1. BookedInv' /\ Alone' /\ Fresh'
    BY NextBooked, AloneNext, FreshNext DEF RefundsInv, BookedInv
  <1>2. Room' /\ Within'
    BY RoomNext, WithinNext DEF RefundsInv
  <1> QED
    BY <1>1, <1>2 DEF RefundsInv

(* While awaits do not yield, the refunds of a sale, however many and in      *)
(* whatever order, never exceed what it holds, per item and in rupiah: the    *)
(* remainders remainingRefundableByItem and the cap compute are still right    *)
(* when recordRefund writes.                                                  *)
THEOREM RefundsBounded ==
  ASSUME ~AwaitYields
  PROVE  Spec => []RefundsWithinSale
  <1>1. RefundsInv => RefundsWithinSale
    BY WithinMeans DEF RefundsInv, BookedInv
  <1> QED
    BY <1>1, RefundsInit, RefundsNext, PTL DEF Spec

-----------------------------------------------------------------------------
(* The ledger of a sale balances *)

Plus(q, t) == [i \in Items |-> q[i] + t[i]]
Quantities == [Items -> Nat]

(* The catalog in state v explodes a cart by its quantities alone, and adds up *)
(* over lines: explodeLines multiplies each line's quantity and sums.          *)
ExplodesBy(v, need) ==
    /\ need \in [Quantities -> Quantities]
    /\ \A k \in Carts : Uses[v][k] = need[Quantity[k]]
    /\ \A q, t \in Quantities : need[Plus(q, t)] = Plus(need[q], need[t])

ExplosionAdds == \A v \in Versions : \E need : ExplodesBy(v, need)

LEMMA PlusType ==
  ASSUME NEW q \in Quantities, NEW t \in Quantities
  PROVE  Plus(q, t) \in Quantities
  BY DEF Plus, Quantities

(* What is used of a cart is what explodeLines makes of its lines, of some *)
(* catalog per state, with natural quantities in its recipes.               *)
UsesExplode ==
    /\ IsFiniteSet(Items)
    /\ \A v \in Versions : \E cat :
          /\ \A p, c \in Items : Explode!PerUnit(cat, p, c) \in Nat
          /\ \A k \in Carts : Uses[v][k] = Explode!ExplodeLines(cat, Quantity[k])

Moved(cat, lines, c) == [p \in DOMAIN lines |-> lines[p] * Explode!PerUnit(cat, p, c)]

LEMMA ExplodeTally ==
  ASSUME NEW I, IsFiniteSet(I), NEW lines, DOMAIN lines = I, NEW cat, NEW c \in I,
         Moved(cat, lines, c) \in [I -> Nat]
  PROVE  Explode!ExplodeLines(cat, lines)[c] = Tally(Moved(cat, lines, c))
  <1> DEFINE f == Moved(cat, lines, c)
             Q(iter) == iter = [T \in SUBSET I |-> IF T = {} THEN 0
                                  ELSE lines[CHOOSE x \in T : TRUE]
                                          * Explode!PerUnit(cat, CHOOSE x \in T : TRUE, c)
                                       + iter[T \ {CHOOSE x \in T : TRUE}]]
  <1>1. Explode!ExplodeLines(cat, lines)[c] = (CHOOSE iter : Q(iter))[I]
    BY DEF Explode!ExplodeLines, Explode!MapThenSumSet, Explode!MapThenFoldSet
  <1>2. \A T \in SUBSET I : T # {} =>
           f[Picked(T)] = lines[CHOOSE x \in T : TRUE] * Explode!PerUnit(cat, CHOOSE x \in T : TRUE, c)
    BY DEF Picked, Moved
  <1>3. \A iter : Q(iter) <=> SumLoop(iter, f, I)
    BY <1>2 DEF SumLoop, Picked
  <1> HIDE DEF Q, f
  <1>4. \E iter : Q(iter)
    <2>1. f \in [I -> Nat]
      BY DEF f
    <2>2. \E iter : SumLoop(iter, f, I)
      BY <2>1, LoopExists
    <2> QED
      BY <1>3, <2>2
  <1>5. Q(CHOOSE iter : Q(iter))
    BY <1>4
  <1>6. Explode!ExplodeLines(cat, lines)[c] = Cardinality(Units(f, I))
    BY <1>1, <1>3, <1>5, LoopCounts DEF f
  <1> QED
    BY <1>6 DEF Tally, f, Moved

(* explodeLines of two carts together is the sum of what each explodes to. *)
LEMMA ExplosionIsLinear ==
  ASSUME IsFiniteSet(Items), NEW cat, \A p, c \in Items : Explode!PerUnit(cat, p, c) \in Nat
  PROVE  /\ \A q \in Quantities : Explode!ExplodeLines(cat, q) \in Quantities
         /\ \A q, t \in Quantities :
               Explode!ExplodeLines(cat, Plus(q, t))
                  = Plus(Explode!ExplodeLines(cat, q), Explode!ExplodeLines(cat, t))
  <1> DEFINE E(q) == Explode!ExplodeLines(cat, q)
  <1>1. ASSUME NEW q \in Quantities, NEW c \in Items
        PROVE  /\ Moved(cat, q, c) \in [Items -> Nat]
               /\ \A p \in Items : Moved(cat, q, c)[p] = q[p] * Explode!PerUnit(cat, p, c)
    BY DEF Moved, Quantities
  <1>2. ASSUME NEW q \in Quantities, NEW c \in Items
        PROVE  E(q)[c] = Tally(Moved(cat, q, c)) /\ E(q)[c] \in Nat
    <2>1. DOMAIN q = Items
      BY DEF Quantities
    <2>2. E(q)[c] = Tally(Moved(cat, q, c))
      BY <1>1, <2>1, ExplodeTally
    <2> QED
      BY <1>1, <2>2, TallyType
  <1>3. ASSUME NEW q \in Quantities PROVE E(q) \in Quantities
    <2>1. E(q) = [c \in Items |-> E(q)[c]]
      BY DEF Explode!ExplodeLines, Quantities
    <2> HIDE DEF E
    <2> QED
      BY <1>2, <2>1 DEF Quantities
  <1>4. ASSUME NEW q \in Quantities, NEW t \in Quantities
        PROVE  E(Plus(q, t)) = Plus(E(q), E(t))
    <2>1. Plus(q, t) \in Quantities /\ \A p \in Items : Plus(q, t)[p] = q[p] + t[p]
      BY PlusType DEF Plus
    <2>2. ASSUME NEW c \in Items PROVE E(Plus(q, t))[c] = E(q)[c] + E(t)[c]
      <3>1. ASSUME NEW p \in Items
            PROVE  Moved(cat, Plus(q, t), c)[p] = Moved(cat, q, c)[p] + Moved(cat, t, c)[p]
        <4>1. \A m, n, u \in Nat : (m + n) * u = m * u + n * u
          OBVIOUS
        <4>2. q[p] \in Nat /\ t[p] \in Nat
          BY DEF Quantities
        <4> QED
          BY <1>1, <2>1, <4>1, <4>2
      <3>2. Tally(Moved(cat, Plus(q, t), c)) = Tally(Moved(cat, q, c)) + Tally(Moved(cat, t, c))
        <4>1. /\ Moved(cat, Plus(q, t), c) \in [Items -> Nat]
              /\ Moved(cat, q, c) \in [Items -> Nat] /\ Moved(cat, t, c) \in [Items -> Nat]
          BY <1>1, <2>1
        <4> QED
          BY <3>1, <4>1, TallyPlus
      <3> QED
        BY <1>2, <2>1, <3>2
    <2>3. E(Plus(q, t)) \in Quantities /\ E(q) \in Quantities /\ E(t) \in Quantities
      BY <1>3, <2>1
    <2> HIDE DEF E
    <2> QED
      BY <2>2, <2>3 DEF Plus, Quantities
  <1> QED
    BY <1>3, <1>4

LEMMA ExplosionAddsUp ==
  ASSUME UsesExplode
  PROVE  ExplosionAdds
  <1> SUFFICES ASSUME NEW v \in Versions PROVE \E need : ExplodesBy(v, need)
    BY DEF ExplosionAdds
  <1>1. PICK cat : /\ \A p, c \in Items : Explode!PerUnit(cat, p, c) \in Nat
                   /\ \A k \in Carts : Uses[v][k] = Explode!ExplodeLines(cat, Quantity[k])
    BY DEF UsesExplode
  <1> DEFINE need == [q \in Quantities |-> Explode!ExplodeLines(cat, q)]
  <1>2. /\ \A q \in Quantities : Explode!ExplodeLines(cat, q) \in Quantities
        /\ \A q, t \in Quantities :
              Explode!ExplodeLines(cat, Plus(q, t))
                 = Plus(Explode!ExplodeLines(cat, q), Explode!ExplodeLines(cat, t))
    BY <1>1, ExplosionIsLinear DEF UsesExplode
  <1>3. need \in [Quantities -> Quantities]
    BY <1>2
  <1>4. \A k \in Carts : Quantity[k] \in Quantities
    BY ConstantsAssumption DEF Quantities
  <1>5. ExplodesBy(v, need)
    BY <1>1, <1>2, <1>3, <1>4, PlusType DEF ExplodesBy
  <1> QED
    BY <1>5

(* Nothing asked, nothing moved; less asked, less moved. *)
LEMMA NeedOfNothing ==
  ASSUME NEW v, NEW need, ExplodesBy(v, need), NEW q \in Quantities,
         \A p \in Items : q[p] = 0
  PROVE  \A c \in Items : need[q][c] = 0
  <1>1. Plus(q, q) = q
    BY DEF Plus, Quantities
  <1>2. need[q] = Plus(need[q], need[q]) /\ need[q] \in Quantities
    BY <1>1 DEF ExplodesBy
  <1>3. ASSUME NEW c \in Items PROVE need[q][c] = 0
    <2>1. need[q][c] = need[q][c] + need[q][c]
      BY <1>2 DEF Plus
    <2>2. need[q][c] \in Nat
      BY <1>2 DEF Quantities
    <2>3. \A n \in Nat : n = n + n => n = 0
      OBVIOUS
    <2> QED
      BY <2>1, <2>2, <2>3, Zenon
  <1> QED
    BY <1>3

LEMMA NeedGrows ==
  ASSUME NEW v, NEW need, ExplodesBy(v, need), NEW q \in Quantities, NEW t \in Quantities,
         \A p \in Items : q[p] <= t[p]
  PROVE  \A c \in Items : need[q][c] <= need[t][c]
  <1> DEFINE rest == [p \in Items |-> t[p] - q[p]]
  <1>1. rest \in Quantities
    BY DEF Quantities
  <1>2. Plus(q, rest) = t
    BY DEF Plus, Quantities
  <1> HIDE DEF rest
  <1>3. /\ need[t] = Plus(need[q], need[rest])
        /\ need[q] \in Quantities /\ need[rest] \in Quantities
    BY <1>1, <1>2 DEF ExplodesBy
  <1>4. ASSUME NEW c \in Items PROVE need[q][c] <= need[t][c]
    <2>1. need[t][c] = need[q][c] + need[rest][c]
      BY <1>3 DEF Plus
    <2>2. need[q][c] \in Nat /\ need[rest][c] \in Nat
      BY <1>3 DEF Quantities
    <2> QED
      BY <2>1, <2>2
  <1> QED
    BY <1>4

(* Of a steady item every catalog moves the same. *)
LEMMA SteadySame ==
  ASSUME NEW c \in Steady, NEW v \in Versions, NEW w \in Versions, NEW k \in Carts
  PROVE  c \in Items /\ Uses[v][k][c] = Uses[w][k][c] /\ Uses[v][k][c] \in Nat
  <1>1. c \in Items /\ Uses[v][k][c] = Uses[w][k][c]
    BY DEF Steady
  <1>2. Uses[v][k] \in [Items -> Nat]
    BY ConstantsAssumption
  <1> QED
    BY <1>1, <1>2

(* What a handler is about to move is what the catalog, in whatever state, *)
(* moves of a steady item.                                                 *)
MoveAt(r) ==
    \A v \in Versions, c \in Steady :
        /\ req[r].phase = "submitChecked" => req[r].move[c] = Uses[v][req[r].cart][c]
        /\ req[r].phase = "voidChecked" => req[r].move[c] = Uses[v][sales[req[r].sale].cart][c]
        /\ req[r].phase = "refundChecked" => req[r].move[c] = Uses[v][req[r].lines][c]

MovesRight == \A r \in Requests : MoveAt(r)

LEMMA MoveIdle ==
  ASSUME NEW r \in Requests, req'[r].phase \notin {"submitChecked", "voidChecked", "refundChecked"}
  PROVE  MoveAt(r)'
  BY DEF MoveAt

LEMMA MovesNext ==
  ASSUME ~AwaitYields, TypeOK, Alone, MovesRight, [Next]_vars
  PROVE  MovesRight'
  <1>1. ASSUME NEW r \in Requests, Handle(r) PROVE MovesRight'
    <2>1. ASSUME NEW x \in Requests \ {r} PROVE MoveAt(x)'
      <3>1. req'[x] = Idle
        BY <1>1, OthersIdle
      <3> QED
        BY <3>1, MoveIdle DEF Idle
    <2>2. ASSUME NEW s \in Sales, NEW k \in Carts, NEW d \in Dates, NEW off \in Discounts,
                 SubmitLookup(r, s, k, d, off)
          PROVE  MoveAt(r)'
      <3>1. req'[r].phase \in {"idle", "submitLooked"}
        BY <2>2 DEF SubmitLookup, Reply, Continue, Idle, TypeOK
      <3> QED
        BY <3>1, MoveIdle
    <2>3. ASSUME SubmitCheck(r) PROVE MoveAt(r)'
      <3>1. \/ req'[r].phase = "idle"
            \/ /\ req'[r].phase = "submitChecked" /\ req'[r].cart = req[r].cart
               /\ req'[r].move = Uses[catalog][req[r].cart]
        BY <2>3 DEF SubmitCheck, Reply, Continue, Idle, TypeOK
      <3>2. req[r].cart \in Carts /\ catalog \in Versions
        BY <2>3, HeldType DEF SubmitCheck, TypeOK
      <3> QED
        BY <3>1, <3>2, SteadySame DEF MoveAt
    <2>4. ASSUME NEW s \in Sales, NEW v \in VoidIds, VoidCheck(r, s, v) PROVE MoveAt(r)'
      <3>1. \/ req'[r].phase = "idle"
            \/ /\ req'[r].phase = "voidChecked" /\ req'[r].sale = s /\ s \in Recorded
               /\ req'[r].move = Uses[catalog][sales[s].cart]
        BY <2>4 DEF VoidCheck, Reply, Continue, Idle, TypeOK
      <3>2. s \in Recorded => sales[s].cart \in Carts
        BY DEF TypeOK, Sale
      <3>3. sales' = sales /\ catalog \in Versions
        BY <2>4 DEF VoidCheck, Stored, TypeOK
      <3> QED
        BY <3>1, <3>2, <3>3, SteadySame DEF MoveAt
    <2>5. ASSUME NEW s \in Sales, NEW f \in RefundIds, NEW q \in Carts, NEW a \in Amounts,
                 RefundCheck(r, s, f, q, a)
          PROVE  MoveAt(r)'
      <3>1. \/ req'[r].phase = "idle"
            \/ /\ req'[r].phase = "refundChecked" /\ req'[r].lines = q
               /\ req'[r].move = Uses[catalog][q]
        BY <2>5 DEF RefundCheck, RefundMove, Reply, Continue, Idle, TypeOK
      <3>2. catalog \in Versions
        BY DEF TypeOK
      <3> QED
        BY <3>1, <3>2, SteadySame DEF MoveAt
    <2>6. ASSUME SubmitRecord(r) \/ VoidRecord(r) \/ RefundRecord(r) PROVE MoveAt(r)'
      <3>1. req'[r].phase = "idle"
        BY <2>6 DEF SubmitRecord, VoidRecord, RefundRecord, Reply, Idle, TypeOK
      <3> QED
        BY <3>1, MoveIdle
    <2> QED
      BY <1>1, <2>1, <2>2, <2>3, <2>4, <2>5, <2>6 DEF Handle, MovesRight
  <1>2. ASSUME NEW v \in Versions, EditCatalog(v) PROVE MovesRight'
    BY <1>2 DEF EditCatalog, Stored, MovesRight, MoveAt
  <1>3. ASSUME NEW d \in Dates \union {NoShift}, MoveShift(d) PROVE MovesRight'
    BY <1>3 DEF MoveShift, Stored, MovesRight, MoveAt
  <1>4. UNCHANGED vars => MovesRight'
    BY DEF vars, MovesRight, MoveAt
  <1> QED
    BY <1>1, <1>2, <1>3, <1>4 DEF Next

(* All that came back of a sale, per item. *)
BackAll(sale) == [p \in Items |-> Tally(Back(sale, p))]

(* The batches of a sale, of steady items: what its lines move, the same again *)
(* when it is voided, and what the items that came back move.                  *)
BatchesOf(s) ==
    \A v \in Versions, c \in Steady :
        /\ s \notin Recorded => \A w \in Reasons : ledger[s][w].delta[c] = 0
        /\ s \in Recorded =>
              /\ ledger[s]["sale"].delta[c] = -Uses[v][sales[s].cart][c]
              /\ ledger[s]["sale_void"].delta[c]
                    = IF Voided(s) THEN Uses[v][sales[s].cart][c] ELSE 0
              /\ \A need : ExplodesBy(v, need) =>
                    ledger[s]["refund"].delta[c] = need[BackAll(sales[s])][c]

BatchesRight == \A s \in Sales : BatchesOf(s)

LEMMA PostDelta ==
  ASSUME TypeOK, NEW s \in Sales, NEW w \in Reasons, NEW move, Post(s, w, move),
         NEW x \in Sales, NEW u \in Reasons, NEW c \in Items
  PROVE  ledger'[x][u].delta[c]
            = IF x = s /\ u = w THEN ledger[x][u].delta[c] + move[c] ELSE ledger[x][u].delta[c]
  BY DEF Post, TypeOK, Batches

LEMMA BackAllType ==
  ASSUME TypeOK, FiniteRefunds, NEW s \in Recorded
  PROVE  BackAll(sales[s]) \in Quantities
  <1>1. ASSUME NEW p \in Items PROVE Tally(Back(sales[s], p)) \in Nat
    BY SumsAreTallies, TallyType DEF SumsRight
  <1> QED
    BY <1>1 DEF BackAll, Quantities

(* A sale the step does not touch keeps its batches. *)
LEMMA BatchesKept ==
  ASSUME NEW s \in Sales, BatchesOf(s), s \in Recorded <=> s \in Recorded',
         s \in Recorded => sales'[s] = sales[s],
         \A w \in Reasons, c \in Items : ledger'[s][w].delta[c] = ledger[s][w].delta[c]
  PROVE  BatchesOf(s)'
  <1>1. Steady \subseteq Items /\ Reasons = {"sale", "sale_void", "refund"}
    BY DEF Steady, Reasons
  <1>2. s \in Recorded => (Voided(s)' <=> Voided(s))
    BY DEF Voided
  <1> QED
    BY <1>1, <1>2 DEF BatchesOf

LEMMA SubmitBatches ==
  ASSUME BookedInv, MovesRight, BatchesRight, NEW r \in Requests, SubmitRecord(r),
         ~UNCHANGED Stored
  PROVE  BatchesRight'
  <1> DEFINE move == [c \in Items |-> -req[r].move[c]]
  <1>0. TypeOK
    BY DEF BookedInv
  <1> PICK s : s = req[r].sale
    OBVIOUS
  <1>1. s \in Sales /\ req[r].cart \in Carts /\ req[r].move \in [Items -> Nat]
    BY <1>0, HeldType DEF SubmitRecord
  <1>2. s \notin Recorded /\ Post(s, "sale", move)
    BY DEF SubmitRecord, RecordedMeanwhile
  <1>3. /\ Recorded' = Recorded \union {s} /\ \A x \in Recorded : sales'[x] = sales[x]
        /\ sales'[s] = [cart |-> req[r].cart, date |-> req[r].date,
                        total |-> req[r].total, void |-> NoVoid, refunds |-> <<>>]
    BY <1>0, <1>2, SubmitWrites
  <1>4. \A x \in Sales, u \in Reasons, c \in Items :
           ledger'[x][u].delta[c] = IF x = s /\ u = "sale" THEN ledger[x][u].delta[c] + move[c]
                                                           ELSE ledger[x][u].delta[c]
    <2> HIDE DEF move
    <2>1. ASSUME NEW x \in Sales, NEW u \in Reasons, NEW c \in Items
          PROVE  ledger'[x][u].delta[c] = IF x = s /\ u = "sale"
                                          THEN ledger[x][u].delta[c] + move[c]
                                          ELSE ledger[x][u].delta[c]
      <3>1. "sale" \in Reasons
        BY DEF Reasons
      <3> QED
        BY <1>0, <1>1, <1>2, <3>1, PostDelta
    <2> QED
      BY <2>1
  <1>5. ASSUME NEW x \in Sales, x # s PROVE BatchesOf(x)'
    BY <1>3, <1>4, <1>5, BatchesKept DEF BatchesRight
  <1>6. ASSUME NEW v \in Versions, NEW c \in Steady
        PROVE  /\ ledger'[s]["sale"].delta[c] = -Uses[v][req[r].cart][c]
               /\ ledger'[s]["sale_void"].delta[c] = 0
               /\ ledger'[s]["refund"].delta[c] = 0
    <2>1. c \in Items /\ Uses[v][req[r].cart][c] \in Nat
      BY <1>1, SteadySame
    <2>2. req[r].move[c] = Uses[v][req[r].cart][c]
      BY DEF MovesRight, MoveAt, SubmitRecord
    <2>3. \A w \in Reasons : ledger[s][w].delta[c] = 0
      BY <1>1, <1>2 DEF BatchesRight, BatchesOf
    <2>4. move[c] = -Uses[v][req[r].cart][c]
      BY <2>1, <2>2
    <2> HIDE DEF move
    <2>5. /\ ledger'[s]["sale"].delta[c] = ledger[s]["sale"].delta[c] + move[c]
          /\ ledger'[s]["sale_void"].delta[c] = ledger[s]["sale_void"].delta[c]
          /\ ledger'[s]["refund"].delta[c] = ledger[s]["refund"].delta[c]
      BY <1>1, <1>4, <2>1 DEF Reasons
    <2> QED
      BY <2>1, <2>3, <2>4, <2>5 DEF Reasons
  <1>7. /\ s \in Recorded' /\ sales'[s].cart = req[r].cart /\ sales'[s].void = NoVoid
        /\ DOMAIN sales'[s].refunds = {}
    BY <1>3
  <1>8. ASSUME NEW v \in Versions, NEW c \in Steady, NEW need, ExplodesBy(v, need)
        PROVE  need[BackAll(sales'[s])][c] = 0
    <2>1. ASSUME NEW p \in Items PROVE Tally(Back(sales'[s], p)) = 0
      <3>1. DOMAIN Back(sales'[s], p) = {}
        BY <1>7 DEF Back
      <3> QED
        BY <3>1, TallyEmpty
    <2>2. BackAll(sales'[s]) \in Quantities /\ \A p \in Items : BackAll(sales'[s])[p] = 0
      BY <2>1 DEF BackAll, Quantities
    <2>3. c \in Items
      BY DEF Steady
    <2> QED
      BY <1>8, <2>2, <2>3, NeedOfNothing
  <1>9. BatchesOf(s)'
    BY <1>6, <1>7, <1>8 DEF BatchesOf, Voided
  <1> QED
    BY <1>5, <1>9 DEF BatchesRight

LEMMA VoidBatches ==
  ASSUME BookedInv, MovesRight, BatchesRight, NEW r \in Requests, VoidRecord(r),
         ~UNCHANGED Stored
  PROVE  BatchesRight'
  <1> DEFINE move == req[r].move
  <1>0. TypeOK
    BY DEF BookedInv
  <1> PICK s : s = req[r].sale
    OBVIOUS
  <1>1. /\ s \in Sales /\ s \in Recorded /\ sales[s] \in Sale /\ req[r].void # NoVoid
    BY <1>0, HeldType, ConstantsAssumption DEF VoidRecord, TypeOK
  <1>2. ~Voided(s) /\ Post(s, "sale_void", move)
    BY DEF VoidRecord, VoidedMeanwhile
  <1>3. /\ Recorded' = Recorded /\ \A x \in Recorded \ {s} : sales'[x] = sales[x]
        /\ sales'[s] = [sales[s] EXCEPT !.void = req[r].void]
    BY <1>0, <1>2, VoidWrites
  <1>4. \A x \in Sales, u \in Reasons, c \in Items :
           ledger'[x][u].delta[c] = IF x = s /\ u = "sale_void"
                                    THEN ledger[x][u].delta[c] + move[c]
                                    ELSE ledger[x][u].delta[c]
    <2> HIDE DEF move
    <2>1. ASSUME NEW x \in Sales, NEW u \in Reasons, NEW c \in Items
          PROVE  ledger'[x][u].delta[c] = IF x = s /\ u = "sale_void"
                                          THEN ledger[x][u].delta[c] + move[c]
                                          ELSE ledger[x][u].delta[c]
      <3>1. "sale_void" \in Reasons
        BY DEF Reasons
      <3> QED
        BY <1>0, <1>1, <1>2, <3>1, PostDelta
    <2> QED
      BY <2>1
  <1>5. ASSUME NEW x \in Sales, x # s PROVE BatchesOf(x)'
    BY <1>3, <1>4, <1>5, BatchesKept DEF BatchesRight
  <1>6. /\ sales'[s].void # NoVoid /\ sales'[s].cart = sales[s].cart
        /\ sales'[s].refunds = sales[s].refunds
    BY <1>1, <1>3 DEF Sale
  <1>7. BackAll(sales'[s]) = BackAll(sales[s])
    BY <1>6 DEF BackAll, Back
  <1>8. ASSUME NEW v \in Versions, NEW c \in Steady
        PROVE  /\ ledger'[s]["sale"].delta[c] = -Uses[v][sales[s].cart][c]
               /\ ledger'[s]["sale_void"].delta[c] = Uses[v][sales[s].cart][c]
               /\ ledger'[s]["refund"].delta[c] = ledger[s]["refund"].delta[c]
    <2>1. c \in Items /\ Uses[v][sales[s].cart][c] \in Nat
      BY <1>1, SteadySame DEF Sale
    <2>2. move[c] = Uses[v][sales[s].cart][c]
      BY DEF MovesRight, MoveAt, VoidRecord
    <2>3. /\ ledger[s]["sale"].delta[c] = -Uses[v][sales[s].cart][c]
          /\ ledger[s]["sale_void"].delta[c] = 0
      BY <1>1, <1>2 DEF BatchesRight, BatchesOf
    <2>4. /\ ledger'[s]["sale"].delta[c] = ledger[s]["sale"].delta[c]
          /\ ledger'[s]["sale_void"].delta[c] = ledger[s]["sale_void"].delta[c] + move[c]
          /\ ledger'[s]["refund"].delta[c] = ledger[s]["refund"].delta[c]
      BY <1>1, <1>4, <2>1 DEF Reasons
    <2> QED
      BY <2>1, <2>2, <2>3, <2>4, SMTT(30)
  <1>9. BatchesOf(s)'
    <2>1. \A v \in Versions, c \in Steady : \A need :
             ExplodesBy(v, need) =>
                ledger[s]["refund"].delta[c] = need[BackAll(sales[s])][c]
      BY <1>1 DEF BatchesRight, BatchesOf
    <2>2. \A v \in Versions, c \in Steady : \A need :
             ExplodesBy(v, need) =>
                ledger'[s]["refund"].delta[c] = need[BackAll(sales'[s])][c]
      BY <1>7, <1>8, <2>1, SMTT(30)
    <2>3. s \in Recorded' /\ Voided(s)'
      BY <1>1, <1>3, <1>6 DEF Voided
    <2>4. ASSUME NEW v \in Versions, NEW c \in Steady
          PROVE  /\ ledger'[s]["sale"].delta[c] = -Uses[v][sales'[s].cart][c]
                 /\ ledger'[s]["sale_void"].delta[c]
                       = IF Voided(s)' THEN Uses[v][sales'[s].cart][c] ELSE 0
      BY <1>6, <1>8, <2>3, SMTT(30)
    <2> QED
      BY <2>2, <2>3, <2>4 DEF BatchesOf
  <1> QED
    BY <1>5, <1>9 DEF BatchesRight

LEMMA RefundBatches ==
  ASSUME BookedInv, MovesRight, BatchesRight, NEW r \in Requests, RefundRecord(r),
         ~UNCHANGED Stored
  PROVE  BatchesRight'
  <1> DEFINE move == req[r].move
             q == req[r].lines
  <1>0. TypeOK /\ FiniteRefunds
    BY DEF BookedInv
  <1> PICK s : s = req[r].sale
    OBVIOUS
  <1>1. s \in Sales /\ s \in Recorded /\ sales[s] \in Sale /\ q \in Carts
    BY <1>0, HeldType DEF RefundRecord, TypeOK
  <1>2. Post(s, "refund", move)
    BY DEF RefundRecord
  <1>3. /\ Recorded' = Recorded /\ \A x \in Recorded \ {s} : sales'[x] = sales[x]
        /\ \E more : sales'[s] = [sales[s] EXCEPT !.refunds = more]
    BY <1>0, RefundWrites
  <1>4. \A x \in Sales, u \in Reasons, c \in Items :
           ledger'[x][u].delta[c] = IF x = s /\ u = "refund"
                                    THEN ledger[x][u].delta[c] + move[c]
                                    ELSE ledger[x][u].delta[c]
    <2> HIDE DEF move
    <2>1. ASSUME NEW x \in Sales, NEW u \in Reasons, NEW c \in Items
          PROVE  ledger'[x][u].delta[c] = IF x = s /\ u = "refund"
                                          THEN ledger[x][u].delta[c] + move[c]
                                          ELSE ledger[x][u].delta[c]
      <3>1. "refund" \in Reasons
        BY DEF Reasons
      <3> QED
        BY <1>0, <1>1, <1>2, <3>1, PostDelta
    <2> QED
      BY <2>1
  <1>5. ASSUME NEW x \in Sales, x # s PROVE BatchesOf(x)'
    BY <1>3, <1>4, <1>5, BatchesKept DEF BatchesRight
  <1>6. sales'[s].void = sales[s].void /\ sales'[s].cart = sales[s].cart
    BY <1>1, <1>3 DEF Sale
  <1>7. BackAll(sales'[s]) = Plus(BackAll(sales[s]), Quantity[q])
    <2>1. \A p \in Items : Tally(Back(sales'[s], p)) = Tally(Back(sales[s], p)) + Quantity[q][p]
      BY <1>0, RefundTallies
    <2> QED
      BY <2>1 DEF BackAll, Plus
  <1>8. BackAll(sales[s]) \in Quantities /\ Quantity[q] \in Quantities
    BY <1>0, <1>1, BackAllType, ConstantsAssumption DEF Quantities
  <1>9. ASSUME NEW v \in Versions, NEW c \in Steady
        PROVE  /\ ledger'[s]["sale"].delta[c] = ledger[s]["sale"].delta[c]
               /\ ledger'[s]["sale_void"].delta[c] = ledger[s]["sale_void"].delta[c]
               /\ ledger'[s]["refund"].delta[c] = ledger[s]["refund"].delta[c] + Uses[v][q][c]
    <2>1. c \in Items
      BY DEF Steady
    <2>2. move[c] = Uses[v][q][c]
      BY DEF MovesRight, MoveAt, RefundRecord
    <2> QED
      BY <1>1, <1>4, <2>1, <2>2 DEF Reasons
  <1>10. ASSUME NEW v \in Versions, NEW c \in Steady, NEW need, ExplodesBy(v, need)
         PROVE  ledger'[s]["refund"].delta[c] = need[BackAll(sales'[s])][c]
    <2>1. c \in Items
      BY DEF Steady
    <2>2. ledger[s]["refund"].delta[c] = need[BackAll(sales[s])][c]
      BY <1>1, <1>10 DEF BatchesRight, BatchesOf
    <2>3. need[BackAll(sales'[s])] = Plus(need[BackAll(sales[s])], need[Quantity[q]])
      BY <1>7, <1>8, <1>10 DEF ExplodesBy
    <2>4. Uses[v][q] = need[Quantity[q]]
      BY <1>1, <1>10 DEF ExplodesBy
    <2>5. need[BackAll(sales'[s])][c] = need[BackAll(sales[s])][c] + Uses[v][q][c]
      BY <2>1, <2>3, <2>4 DEF Plus
    <2> QED
      BY <1>9, <2>2, <2>5
  <1>11. BatchesOf(s)'
    <2>1. \A v \in Versions, c \in Steady :
             /\ ledger[s]["sale"].delta[c] = -Uses[v][sales[s].cart][c]
             /\ ledger[s]["sale_void"].delta[c]
                   = IF Voided(s) THEN Uses[v][sales[s].cart][c] ELSE 0
      BY <1>1 DEF BatchesRight, BatchesOf
    <2>2. Voided(s)' <=> Voided(s)
      BY <1>6 DEF Voided
    <2>3. ASSUME NEW v \in Versions, NEW c \in Steady
          PROVE  /\ ledger'[s]["sale"].delta[c] = -Uses[v][sales'[s].cart][c]
                 /\ ledger'[s]["sale_void"].delta[c]
                       = IF Voided(s)' THEN Uses[v][sales'[s].cart][c] ELSE 0
      <3>1. sales'[s].cart = sales[s].cart
        BY <1>6
      <3>2. /\ ledger'[s]["sale"].delta[c] = -Uses[v][sales[s].cart][c]
            /\ ledger'[s]["sale_void"].delta[c]
                  = IF Voided(s) THEN Uses[v][sales[s].cart][c] ELSE 0
        BY <1>9, <2>1
      <3> QED
        BY <2>2, <3>1, <3>2
    <2>4. \A v \in Versions, c \in Steady : \A need :
             ExplodesBy(v, need) =>
                ledger'[s]["refund"].delta[c] = need[BackAll(sales'[s])][c]
      BY <1>10
    <2> QED
      BY <1>1, <1>3, <2>3, <2>4 DEF BatchesOf
  <1> QED
    BY <1>5, <1>11 DEF BatchesRight

LEMMA BatchesNext ==
  ASSUME BookedInv, MovesRight, BatchesRight, [Next]_vars
  PROVE  BatchesRight'
  <1>1. CASE UNCHANGED Stored
    <2>1. Recorded' = Recorded
      BY <1>1 DEF Stored, Recorded
    <2> QED
      BY <1>1, <2>1, BatchesKept DEF Stored, BatchesRight
  <1>2. CASE ~UNCHANGED Stored
    BY <1>2, ReadOnlySteps, SubmitBatches, VoidBatches, RefundBatches
  <1> QED
    BY <1>1, <1>2

BalanceInv == RefundsInv /\ SerialInv /\ MovesRight /\ BatchesRight

LEMMA BalanceInit == Init => BalanceInv
  <1> SUFFICES ASSUME Init PROVE BalanceInv
    OBVIOUS
  <1>1. RefundsInv /\ SerialInv
    BY RefundsInit, SerialInit
  <1>2. MovesRight
    BY DEF Init, MovesRight, MoveAt, Idle
  <1>3. ASSUME NEW s \in Sales PROVE BatchesOf(s)
    <2>1. s \notin Recorded /\ \A w \in Reasons, c \in Items : ledger[s][w].delta[c] = 0
      BY DEF Init, Recorded
    <2>2. Steady \subseteq Items
      BY DEF Steady
    <2> QED
      BY <2>1, <2>2 DEF BatchesOf
  <1> QED
    BY <1>1, <1>2, <1>3 DEF BalanceInv, BatchesRight

LEMMA BalanceNext ==
  ASSUME ~AwaitYields, BalanceInv, [Next]_vars
  PROVE  BalanceInv'
  <1>1. RefundsInv' /\ SerialInv'
    BY RefundsNext, SerialNext DEF BalanceInv
  <1>2. MovesRight' /\ BatchesRight'
    BY MovesNext, BatchesNext DEF BalanceInv, RefundsInv, SerialInv
  <1> QED
    BY <1>1, <1>2 DEF BalanceInv

LEMMA BalanceMeans ==
  ASSUME ExplosionAdds, BalanceInv
  PROVE  LedgerBalances
  <1> SUFFICES ASSUME NEW s \in Recorded, NEW c \in Steady
               PROVE  Net(s, c) <= 0 /\ (Voided(s) => Net(s, c) = 0)
    BY DEF LedgerBalances
  <1>1. TypeOK /\ FiniteRefunds /\ Within /\ VoidXorRefund /\ BatchesRight
    BY DEF BalanceInv, RefundsInv, SerialInv, BookedInv
  <1>2. s \in Sales /\ sales[s] \in Sale /\ catalog \in Versions /\ c \in Items
    BY <1>1 DEF TypeOK, Steady
  <1>3. PICK need : ExplodesBy(catalog, need)
    BY <1>2 DEF ExplosionAdds
  <1> DEFINE k == sales[s].cart
             back == BackAll(sales[s])
  <1>4. k \in Carts /\ Quantity[k] \in Quantities /\ back \in Quantities
    BY <1>1, <1>2, BackAllType, ConstantsAssumption DEF Sale, Quantities
  <1>5. \A p \in Items : back[p] <= Quantity[k][p]
    BY <1>1 DEF Within, BackAll
  <1>6. Uses[catalog][k] = need[Quantity[k]]
    BY <1>3, <1>4 DEF ExplodesBy
  <1> HIDE DEF back
  <1>7. /\ need[back][c] <= Uses[catalog][k][c]
        /\ need[back][c] \in Nat /\ Uses[catalog][k][c] \in Nat
    <2>1. need[back][c] <= need[Quantity[k]][c]
      BY <1>2, <1>3, <1>4, <1>5, NeedGrows
    <2>2. need[back] \in Quantities /\ need[Quantity[k]] \in Quantities
      BY <1>3, <1>4 DEF ExplodesBy
    <2> QED
      BY <1>2, <1>6, <2>1, <2>2 DEF Quantities
  <1>8. /\ ledger[s]["sale"].delta[c] = -Uses[catalog][k][c]
        /\ ledger[s]["sale_void"].delta[c] = IF Voided(s) THEN Uses[catalog][k][c] ELSE 0
        /\ ledger[s]["refund"].delta[c] = need[back][c]
    BY <1>1, <1>2, <1>3 DEF BatchesRight, BatchesOf, back
  <1>9. Voided(s) => need[back][c] = 0
    <2> SUFFICES ASSUME Voided(s) PROVE need[back][c] = 0
      OBVIOUS
    <2>1. Refunds(s) = {}
      BY <1>1 DEF VoidXorRefund
    <2>2. ASSUME NEW p \in Items PROVE Tally(Back(sales[s], p)) = 0
      <3>1. DOMAIN Back(sales[s], p) = {}
        BY <2>1 DEF Back, Refunds
      <3> QED
        BY <3>1, TallyEmpty
    <2>3. \A p \in Items : back[p] = 0
      BY <2>2 DEF back, BackAll
    <2> QED
      BY <1>2, <1>3, <1>4, <2>3, NeedOfNothing
  <1> QED
    BY <1>7, <1>8, <1>9 DEF Net

(* While awaits do not yield, and stock is moved by explodeLines, the ledger    *)
(* rows of a sale balance for every item whose use no edit of the catalog       *)
(* changes: a void cancels the sale to zero, refunds never put back more than   *)
(* it took, though each document explodes against the catalog of its own moment.*)
THEOREM LedgersBalance ==
  ASSUME ~AwaitYields, UsesExplode
  PROVE  Spec => []LedgerBalances
  <1>1. BalanceInv => LedgerBalances
    BY ExplosionAddsUp, BalanceMeans
  <1> QED
    BY <1>1, BalanceInit, BalanceNext, PTL DEF Spec
===============================================================================

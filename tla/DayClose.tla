------------------------------- MODULE DayClose -------------------------------
(***************************************************************************)
(* Closing one business day of one outlet: the end-of-day screen of its    *)
(* till, the handler of POST /v1/eod/close, the probe sales it balances,   *)
(* and the shift closes whose cash figure it should agree with.  Sales and *)
(* shifts of other days meet none of this: every read is by the date.      *)
(*                                                                         *)
(* The handler reads the day, balances the stock of the probes, and writes *)
(* the record: two writes, between which it may fail or another handler    *)
(* may run once a database stands behind the repositories (AwaitYields).   *)
(*                                                                         *)
(* Abstractions.  A sale's amounts depend on its kind only.  The outbox is *)
(* that of module SaleDelivery.  The opening and closing of a shift are    *)
(* one step each.  A record keeps the set of sales its breakdown and       *)
(* expected cash are computed from, the float and what was counted.        *)
(***************************************************************************)
EXTENDS Integers, FiniteSets, FiniteSetsExt

CONSTANTS
    Sales,
    Kinds,       \* how a sale is paid for
    Probes,      \* the kinds whose tenders are all synthetic
    Total,       \* per kind: what the sale comes to
    Cash,        \* per kind: the cash tendered, change included
    Other,       \* per kind: the other tenders
    Float,       \* the opening float of a shift
    Counts,      \* what a clerk may count in the drawer
    MaxShifts,   \* bound on the shifts opened that day
    Requests,    \* closes that may be under way at the server at once
    AwaitYields  \* whether another handler may run while one awaits

ASSUME ConstantsAssumption ==
    /\ Probes \subseteq Kinds
    /\ Total \in [Kinds -> Nat] /\ Cash \in [Kinds -> Nat] /\ Other \in [Kinds -> Nat]
    /\ Float \in Nat /\ Counts \subseteq Nat
    /\ MaxShifts \in Nat
    /\ AwaitYields \in BOOLEAN

VARIABLES
    sale,      \* the till's rows: a function on the sales it knows
    screen,    \* the end-of-day screen
    closure,   \* the closure the till has stored, or NotClosed
    listens,   \* the requests whose answer the tab awaits
    book,      \* the server's sales: a function on the recorded ones
    balanced,  \* per sale: the batches written to balance it as a probe
    shift,     \* per shift: what the server knows of it
    eod,       \* the record of the closed day, or NotClosed
    req        \* per request: how far its handler got, and what it holds

till == <<sale, screen, closure>>
api == <<book, balanced, shift, eod>>
vars == <<till, listens, api, req>>

Shifts == 1..MaxShifts
Idle == [at |-> "idle"]
NotClosed == [closed |-> FALSE]

Rung == DOMAIN sale
Recorded == DOMAIN book
Closed == eod.closed
WithStatus(st) == {s \in Rung : sale[s].status = st}

SetStatus(s, st) == sale' = [sale EXCEPT ![s].status = st]
With(f, x, v) == [y \in DOMAIN f \union {x} |-> IF y = x THEN v ELSE f[y]]

(* Unless awaits yield, a handler starts only when no other is under way. *)
UnderWay == {r \in Requests : req[r].at \in {"checked", "balanced"}}
Quiet == AwaitYields \/ UnderWay = {}

-----------------------------------------------------------------------------
(* Cash figures. *)

(* clampCashTaken: what of a sale stays in the drawer. *)
CashTaken(k) ==
    IF Total[k] <= Other[k] THEN 0 ELSE Total[k] - Other[k]

(* computeExpectedCash of the day's close, and computeCashSales of a shift's. *)
DayCash(S) == MapThenSumSet(LAMBDA s : CashTaken(book[s].kind), S)
ShiftCash(S) == MapThenSumSet(LAMBDA s : Cash[book[s].kind], S)

IsProbe(s) == book[s].kind \in Probes

(* The sales that figures are computed from, and those that are balanced. *)
Counted == {s \in Recorded : ~IsProbe(s) /\ ~book[s].voided}
ProbesSeen == {s \in Recorded : IsProbe(s)}

(* findShiftForBusinessDate: the float of the day's latest shift, if any. *)
DayFloat == IF \E n \in Shifts : shift[n].status # "none" THEN Float ELSE 0

-----------------------------------------------------------------------------
(* The till. *)

Ring(s, k) ==
    /\ s \notin Rung /\ s \notin Recorded
    /\ k \notin Probes
    /\ sale' = With(sale, s, [status |-> "pending", kind |-> k])
    /\ UNCHANGED <<screen, closure, api, req, listens>>

(* The outbox: a post is recorded, and its answer heard or lost, or it is *)
(* refused, which puts the row aside.                                     *)
Deliver(s, heard) ==
    /\ s \in WithStatus("pending") /\ Quiet
    /\ book' = IF s \in Recorded THEN book
               ELSE With(book, s, [kind |-> sale[s].kind, voided |-> FALSE])
    /\ SetStatus(s, IF heard THEN "synced" ELSE "pending")
    /\ UNCHANGED <<screen, closure, balanced, shift, eod, req, listens>>

PutAside(s) ==
    /\ s \in WithStatus("pending") /\ s \notin Recorded
    /\ SetStatus(s, "aside")
    /\ UNCHANGED <<screen, closure, api, req, listens>>

Requeue(s) ==
    /\ s \in WithStatus("aside")
    /\ SetStatus(s, "pending")
    /\ UNCHANGED <<screen, closure, api, req, listens>>

(* Hydration of a sale made elsewhere; probes are hidden from the till. *)
Hydrate(s) ==
    /\ s \in Recorded \ Rung /\ ~IsProbe(s)
    /\ sale' = With(sale, s, [status |-> "synced", kind |-> book[s].kind])
    /\ UNCHANGED <<screen, closure, api, req, listens>>

-----------------------------------------------------------------------------
(* The end-of-day screen. *)

(* computeEodTotals: every row, voided or not, without the float. *)
ClientCash == MapThenSumSet(LAMBDA s : CashTaken(sale[s].kind), Rung)

OutboxEmpty == WithStatus("pending") = {}

(* handleSubmit, behind the gates of canSubmit. *)
TapClose(r, count, reason) ==
    /\ screen.at \in {"idle", "mismatch"}
    /\ closure = NotClosed
    /\ OutboxEmpty
    /\ count = ClientCash \/ reason
    /\ req[r] = Idle
    /\ req' = [req EXCEPT ![r] = [at |-> "posted", ids |-> Rung, count |-> count,
                                  reason |-> reason]]
    /\ listens' = listens \union {r}
    /\ screen' = [at |-> "waiting", req |-> r]
    /\ UNCHANGED <<sale, closure, api>>

(* What the screen shows once the answer to request r is in, if it is still the *)
(* one that asked: a mismatch lists what is missing, anything else ends it.     *)
ScreenAfter(r) ==
    IF screen # [at |-> "waiting", req |-> r] THEN screen
    ELSE IF req[r].at = "replied" /\ req[r].code = "mismatch"
         THEN [at |-> "mismatch", missing |-> req[r].missing]
         ELSE Idle

(* The answer: a closed day is stored at the till. *)
Hear(r) ==
    /\ r \in listens /\ req[r].at = "replied"
    /\ closure' = IF req[r].code = "closed"
                  THEN req[r].record ELSE closure
    /\ screen' = ScreenAfter(r)
    /\ listens' = listens \ {r}
    /\ req' = [req EXCEPT ![r] = Idle]
    /\ UNCHANGED <<sale, api>>

(* A request nobody listens to any more has no answer to wait for. *)
Answerless(r) == [req EXCEPT ![r] = IF @.at = "replied" THEN Idle ELSE @]

(* The fetch rejects: its post never arrived, or its handler goes on. *)
Lost(r) ==
    /\ r \in listens
    /\ \/ req' = Answerless(r)
       \/ req[r].at = "posted" /\ req' = [req EXCEPT ![r] = Idle]
    /\ screen' = IF screen = [at |-> "waiting", req |-> r] THEN Idle ELSE screen
    /\ listens' = listens \ {r}
    /\ UNCHANGED <<sale, closure, api>>

(* The screen is left; what it awaits goes on, and it forgets a mismatch. *)
Leave ==
    /\ screen # Idle
    /\ screen' = Idle
    /\ UNCHANGED <<sale, closure, api, req, listens>>

(* handleResubmit, row by row. *)
Resubmit(s) ==
    /\ screen.at = "mismatch" /\ s \in screen.missing
    /\ SetStatus(s, "pending")
    /\ screen' = IF screen.missing = {s} THEN Idle
                 ELSE [screen EXCEPT !.missing = @ \ {s}]
    /\ UNCHANGED <<closure, api, req, listens>>

-----------------------------------------------------------------------------
(* POST /v1/eod/close *)

Reply(r, reply) ==
    req' = [req EXCEPT ![r] = IF r \in listens THEN reply ELSE Idle]

Refuse(r, code) == Reply(r, [at |-> "replied", code |-> code])

NoneMissing(ids) == {}           \* mutant: the ids are not compared
Unlisted(ids) == Recorded \ ids  \* mutant: compared the wrong way round

(* The sales the till sent that the server lacks. *)
Missing(ids) == ids \ Recorded

(* The reads and the three refusals, in the order of the code. *)
Check(r) ==
    /\ req[r].at = "posted" /\ Quiet
    /\ LET missing == Missing(req[r].ids)
           expected == DayCash(Counted) + DayFloat
           refused == req[r].count # expected /\ ~req[r].reason
       IN \/ /\ Closed
             /\ Refuse(r, "already_closed")
          \/ /\ ~Closed /\ missing # {}
             /\ Reply(r, [at |-> "replied", code |-> "mismatch", missing |-> missing])
          \/ /\ ~Closed /\ missing = {} /\ refused
             /\ Refuse(r, "variance_reason_required")
          \/ /\ ~Closed /\ missing = {} /\ ~refused
             /\ req' = [req EXCEPT ![r] =
                           [at |-> "checked", probes |-> ProbesSeen,
                            record |-> [closed |-> TRUE, ids |-> req[r].ids,
                                        counted |-> Counted, float |-> DayFloat,
                                        count |-> req[r].count]]]
    /\ UNCHANGED <<till, listens, api>>

Unchecked(s) == TRUE     \* mutant: every close balances the probe again

(* alreadyReconciled. *)
Unbalanced(s) == balanced[s] = 0

NoneToBalance(r) == {}   \* mutant: the balance is left to a later job

ToBalance(r) == {s \in req[r].probes : Unbalanced(s)}

(* reconcileSyntheticSales. *)
Balance(r) ==
    /\ req[r].at = "checked"
    /\ balanced' = [s \in Sales |-> balanced[s] + IF s \in ToBalance(r) THEN 1 ELSE 0]
    /\ req' = [req EXCEPT ![r] = [at |-> "balanced", probes |-> @.probes,
                                  record |-> @.record]]
    /\ UNCHANGED <<till, listens, book, shift, eod>>

Overwrites == FALSE      \* mutant: insert puts whatever was there before

(* insert looks at the key again. *)
AlreadyThere == Closed

(* insert: throws when another close came first. *)
Insert(r) ==
    /\ req[r].at = "balanced"
    /\ IF AlreadyThere
       THEN Refuse(r, "error") /\ UNCHANGED eod
       ELSE /\ eod' = req[r].record
            /\ Reply(r, [at |-> "replied", code |-> "closed", record |-> req[r].record])
    /\ UNCHANGED <<till, listens, book, balanced, shift>>

(* A repository call of the handler fails, which no in-memory one does. *)
Fail(r) ==
    /\ AwaitYields /\ r \in UnderWay
    /\ Refuse(r, "error")
    /\ UNCHANGED <<till, listens, api>>

-----------------------------------------------------------------------------
(* What else reaches the server.  Another handler runs between those of a close *)
(* only when awaits yield.                                                      *)

(* A sale of another device, or a probe; a closed day takes them too. *)
Elsewhere(s, k) ==
    /\ Quiet
    /\ s \notin Rung \union Recorded
    /\ book' = With(book, s, [kind |-> k, voided |-> FALSE])
    /\ UNCHANGED <<till, listens, balanced, shift, eod, req>>

OpenShift(n) ==
    /\ Quiet
    /\ shift[n].status = "none" /\ \A m \in Shifts : m < n => shift[m].status # "none"
    /\ shift' = [shift EXCEPT ![n] = [status |-> "open", counted |-> {}]]
    /\ UNCHANGED <<till, listens, book, balanced, eod, req>>

CloseShift(n) ==
    /\ Quiet
    /\ shift[n].status = "open"
    /\ shift' = [shift EXCEPT ![n].status = "closed",
                              ![n].counted = Counted]
    /\ UNCHANGED <<till, listens, book, balanced, eod, req>>

(* voidSale: while a shift of the day is open. *)
Void(s) ==
    /\ Quiet
    /\ s \in Recorded /\ ~book[s].voided
    /\ \E n \in Shifts : shift[n].status = "open"
    /\ book' = [book EXCEPT ![s].voided = TRUE]
    /\ UNCHANGED <<till, listens, balanced, shift, eod, req>>

-----------------------------------------------------------------------------
Init ==
    /\ sale = <<>>
    /\ screen = Idle
    /\ closure = NotClosed
    /\ listens = {}
    /\ book = <<>>
    /\ balanced = [s \in Sales |-> 0]
    /\ shift = [n \in Shifts |-> [status |-> "none", counted |-> {}]]
    /\ eod = NotClosed
    /\ req = [r \in Requests |-> Idle]

Till(s) ==
    \/ \E k \in Kinds : Ring(s, k)
    \/ \E heard \in BOOLEAN : Deliver(s, heard)
    \/ PutAside(s) \/ Requeue(s) \/ Hydrate(s) \/ Resubmit(s)

Close(r) ==
    \/ \E count \in Counts, reason \in BOOLEAN : TapClose(r, count, reason)
    \/ Check(r) \/ Balance(r) \/ Insert(r) \/ Fail(r)
    \/ Hear(r) \/ Lost(r)

Others ==
    \/ \E s \in Sales : Void(s) \/ \E k \in Kinds : Elsewhere(s, k)
    \/ \E n \in Shifts : OpenShift(n) \/ CloseShift(n)

Next ==
    \/ Leave
    \/ \E s \in Sales : Till(s)
    \/ \E r \in Requests : Close(r)
    \/ Others

Spec == Init /\ [][Next]_vars

-----------------------------------------------------------------------------
(* Properties *)

Records == [closed : {TRUE}, ids : SUBSET Sales, counted : SUBSET Sales,
            float : {0, Float}, count : Counts]
ReqStates ==
    {Idle}
    \union [at : {"posted"}, ids : SUBSET Sales, count : Counts, reason : BOOLEAN]
    \union [at : {"checked", "balanced"}, probes : SUBSET Sales, record : Records]
    \union [at : {"replied"}, code : {"closed"}, record : Records]
    \union [at : {"replied"}, code : {"mismatch"}, missing : SUBSET Sales]
    \union [at : {"replied"},
            code : {"already_closed", "variance_reason_required", "error"}]
ScreenStates ==
    {Idle} \union [at : {"waiting"}, req : Requests]
    \union [at : {"mismatch"}, missing : SUBSET Sales]

(* Every variable keeps its shape.  In particular a reply is there only for    *)
(* somebody to hear it, and a mismatch names rows the till has, so that each   *)
(* can be requeued.                                                            *)
TypeOK ==
    /\ Rung \subseteq Sales
    /\ sale \in [Rung -> [status : {"pending", "synced", "aside"}, kind : Kinds \ Probes]]
    /\ screen \in ScreenStates
    /\ screen.at = "mismatch" => screen.missing \subseteq Rung
    /\ closure \in {NotClosed} \union Records
    /\ listens \subseteq Requests
    /\ Recorded \subseteq Sales
    /\ book \in [Recorded -> [kind : Kinds, voided : BOOLEAN]]
    /\ balanced \in [Sales -> Nat]
    /\ shift \in [Shifts -> [status : {"none", "open", "closed"}, counted : SUBSET Sales]]
    /\ eod \in {NotClosed} \union Records
    /\ req \in [Requests -> ReqStates]
    /\ \A r \in Requests : req[r].at = "replied" => r \in listens

(* The record of the closed day names no sale of the till that the server     *)
(* lacks, though the ids are compared two writes before the record is.        *)
ClosedHoldsTill == Closed => eod.ids \subseteq Recorded

(* What the till shows of the closed day is the server's record of it,        *)
(* whichever of its closes was answered.                                      *)
ClosureIsRecord == closure # NotClosed => closure = eod

(* A probe's stock is put back once at most, however many closes are retried  *)
(* after a failure between their two writes, or run at the same time.         *)
BalancedOnce == \A s \in Sales : balanced[s] <= 1

(* The record is written by a close that has balanced every probe it saw.     *)
ProbesBalancedFirst ==
    [][~Closed /\ eod'.closed =>
          \E r \in Requests : /\ req[r].at = "balanced" /\ eod' = req[r].record
                              /\ \A s \in req[r].probes : balanced[s] = 1]_vars

(* A closed day stays closed, and its record is never rewritten.              *)
ClosedForGood == [][Closed => eod' = eod]_vars

(* "so the shift close and the EOD close land on the same number": when both  *)
(* count the same sales and the same float, their expected cash is the same.  *)
SameNumber ==
    \A n \in Shifts :
        /\ Closed /\ eod.float = Float
        /\ shift[n].status = "closed" /\ shift[n].counted = eod.counted
        => ShiftCash(shift[n].counted) = DayCash(eod.counted)
=============================================================================

------------------------------- MODULE TillDay -------------------------------
(***************************************************************************)
(* The working day of one till: opening and closing shifts, ringing sales  *)
(* and voiding them, the outboxes of shift events and voids, the order in  *)
(* which a push drains them, and what the API makes of the posts.          *)
(*                                                                         *)
(* A push is one call of runPush: shift events, then sales, then voids. The *)
(* runner's cycle makes one at a time; a screen's triggerPush starts       *)
(* another beside it.  The screens post the row they just enqueued         *)
(* themselves as well.                                                     *)
(*                                                                         *)
(* Abstractions.  The rows of pending_shift_events and pending_voids are   *)
(* one function, by the order of their creation; the kind tells the table. *)
(* The statuses queued and error, which every drain treats alike, are      *)
(* "queued".  Sales reach the server as module SaleDelivery says.  A cash  *)
(* figure is the set of sales whose cash it adds; the opening float, which *)
(* both sides add, is left out.  Refunds are made elsewhere.               *)
(***************************************************************************)
EXTENDS Naturals, FiniteSets

CONSTANTS
    Sales,      \* the sales the till may ring
    MaxShifts,  \* bound on the shifts the till opens
    MaxRows,    \* bound on the shift events and voids the till enqueues
    MaxDate,    \* bound on the business dates, which are 1..MaxDate
    Cycle,      \* the push of the sync cycle
    Pushes,     \* the pushes triggerPush may have under way
    TabMayDie

ASSUME ConstantsAssumption ==
    /\ MaxShifts \in Nat /\ MaxRows \in Nat /\ MaxDate \in Nat \ {0}
    /\ Cycle \notin Pushes
    /\ TabMayDie \in BOOLEAN

Shifts == 1..MaxShifts
Ids == 1..MaxRows
Dates == 1..MaxDate
Tasks == {Cycle} \union Pushes

VARIABLES
    today,     \* the business date of the till's clock
    row,       \* the outboxes: per id, a shift event, a void, or Unused
    shift,     \* the shift_state singleton, or NoShift
    sale,      \* per sale: status of its row, whether it knows its server id,
               \* its date, and the void it is marked with
    task,      \* per push: how far it got
    screen,    \* what the screen that is open has loaded, or awaits
    recorded,  \* the sales the server has
    voided,    \* those it has voided
    server,    \* per shift: what the server knows of it
    steady     \* the link stays up and the tab alive from now on

till == <<today, row, shift, sale, screen>>
api == <<recorded, voided, server>>
vars == <<till, task, api, steady>>

Statuses == {"queued", "sending", "synced", "needs_attention"}
Unused == [kind |-> "unused"]
NoShift == [number |-> 0]
NoVoid == 0
Idle == [at |-> "idle"]

Kinds(table) == IF table = "events" THEN {"open", "close"} ELSE {"void"}
Table(table) == {i \in Ids : row[i].kind \in Kinds(table)}
Drainable(table) == {i \in Table(table) : row[i].status = "queued"}
Used == {i \in Ids : row[i] # Unused}
Opened == {row[i].shift : i \in {j \in Ids : row[j].kind = "open"}}
Closed == {row[i].shift : i \in {j \in Ids : row[j].kind = "close"}}
WithStatus(sts) == {s \in Sales : sale[s].status \in sts}

Current == shift # NoShift /\ ~shift.closed  \* getCurrentShift # null

SetStatus(i, st) == row' = [row EXCEPT ![i].status = st]
Go(t, state) == task' = [task EXCEPT ![t] = state]

-----------------------------------------------------------------------------
(* The screens.  Each enqueues its row, stamps the local state, posts the row *)
(* and reads the answer; one screen at a time is open.                        *)

(* A row of the outbox is put, and the screen that put it goes on to stamp. *)
Put(r) ==
    /\ \E i \in Ids \ Used :
          /\ \A j \in Ids \ Used : i <= j
          /\ row' = [row EXCEPT ![i] = r]
          /\ screen' = [at |-> "stamp", id |-> i]
    /\ UNCHANGED <<today, shift, sale, task, api, steady>>

(* enqueueOpenShift; the route's guard has found no open shift. *)
TapOpen ==
    /\ screen = Idle /\ ~Current
    /\ \E n \in Shifts \ Opened :
          /\ \A m \in Shifts \ Opened : n <= m
          /\ Put([kind |-> "open", shift |-> n, date |-> today, status |-> "queued"])

(* sumCashTenders: the sales of the date, unless they need attention. *)
ShownAtClose ==
    {s \in WithStatus({"queued", "synced"}) : sale[s].date = shift.date}

(* enqueueCloseShift, with the figure the screen shows. *)
TapClose ==
    /\ screen = Idle /\ Current
    /\ Put([kind |-> "close", shift |-> shift.number, shown |-> ShownAtClose,
            status |-> "queued"])

VoidAtOnce(s) == Current  \* mutant: a sale may be voided before it is synced

(* What handleSubmit checks, of the shift and the sale that loadSale read. *)
MayVoid(s) ==
    /\ Current /\ shift.date = sale[s].date
    /\ sale[s].void = NoVoid
    /\ sale[s].id

(* The void screen loads a sale; of one that may not be voided nothing comes. *)
LoadVoid(s) ==
    /\ screen = Idle
    /\ sale[s].status # "absent" /\ MayVoid(s)
    /\ screen' = [at |-> "loaded", sale |-> s]
    /\ UNCHANGED <<today, row, shift, sale, task, api, steady>>

LeaveScreen ==
    /\ screen.at = "loaded"
    /\ screen' = Idle
    /\ UNCHANGED <<today, row, shift, sale, task, api, steady>>

(* enqueueVoid, with a manager's PIN that is right or not. *)
TapVoid(pin) ==
    /\ screen.at = "loaded"
    /\ Put([kind |-> "void", sale |-> screen.sale, pin |-> pin, status |-> "queued"])

(* The second write of the enqueue functions, in a transaction of its own: the *)
(* singleton is put, closed if it is still there, or the sale marked.          *)
Stamp ==
    /\ screen.at = "stamp"
    /\ LET r == row[screen.id]
       IN /\ shift' = CASE r.kind = "open" ->
                              [number |-> r.shift, date |-> r.date, closed |-> FALSE]
                        [] r.kind = "close" /\ shift # NoShift ->
                              [shift EXCEPT !.closed = TRUE]
                        [] OTHER -> shift
          /\ sale' = IF r.kind = "void" THEN [sale EXCEPT ![r.sale].void = screen.id]
                                        ELSE sale
    /\ screen' = [at |-> "posted", id |-> screen.id]
    /\ UNCHANGED <<today, row, task, api, steady>>

(* The post failed, or was answered 408, 429 or 5xx: the row stays queued. *)
ScreenLost ==
    /\ screen.at \in {"posted", "answered"} /\ ~steady
    /\ screen' = Idle
    /\ UNCHANGED <<today, row, shift, sale, task, api, steady>>

(* The shift screens ignore the answer: the drain will hear the same.  The void *)
(* screen settles the row, or undoes the mark it made and parks the row.        *)
ScreenAnswered ==
    /\ screen.at = "answered"
    /\ LET i == screen.id
           r == row[i]
       IN IF r.kind # "void"
          THEN UNCHANGED <<row, sale>>
          ELSE IF screen.ok
               THEN SetStatus(i, "synced") /\ UNCHANGED sale
               ELSE /\ SetStatus(i, "needs_attention")
                    /\ sale' = [sale EXCEPT ![r.sale].void =
                                   IF @ = i THEN NoVoid ELSE @]
    /\ screen' = Idle
    /\ UNCHANGED <<today, shift, task, api, steady>>

(* The finalise functions; the cart's route requires an open shift. *)
Ring(s) ==
    /\ Current /\ sale[s].status = "absent"
    /\ sale' = [sale EXCEPT ![s] = [status |-> "queued", id |-> FALSE, date |-> today,
                                    void |-> NoVoid]]
    /\ UNCHANGED <<today, row, shift, screen, task, api, steady>>

(* "Coba kirim ulang" in /admin; shift events and voids have no such button. *)
AdminRetry(s) ==
    /\ sale[s].status = "needs_attention"
    /\ sale' = [sale EXCEPT ![s].status = "queued"]
    /\ UNCHANGED <<today, row, shift, screen, task, api, steady>>

(* A row that the drain, whose answer could not be read, or nobody gave the  *)
(* server id gets it from a lookup of the receipt (upsertSyncedFromRemote).  *)
(* What a lookup makes of a row that has it: module FindSale.                *)
Hydrate(s) ==
    /\ s \in recorded /\ ~sale[s].id /\ sale[s].status \in {"synced", "needs_attention"}
    /\ sale' = [sale EXCEPT ![s].status = "synced", ![s].id = TRUE]
    /\ UNCHANGED <<today, row, shift, screen, task, api, steady>>

Midnight ==
    /\ today < MaxDate
    /\ today' = today + 1
    /\ UNCHANGED <<row, shift, sale, screen, task, api, steady>>

-----------------------------------------------------------------------------
(* The server. *)

(* findOpenShiftForOutlet: the open shift that was opened last. *)
InOpenShift(s) ==
    \E n \in Shifts :
        /\ server[n].status = "open" /\ server[n].date = sale[s].date
        /\ \A m \in Shifts : m > n => server[m].status # "open"

(* computeCashSales. *)
CashSales(date) == {s \in recorded \ voided : sale[s].date = date}

(* POST /v1/shifts/open; the id is never reused with another payload. *)
ServeOpen(r, ok) ==
    /\ ok
    /\ server' = IF server[r.shift].status = "none"
                 THEN [server EXCEPT ![r.shift] =
                          [status |-> "open", date |-> r.date, counted |-> {}]]
                 ELSE server
    /\ UNCHANGED <<recorded, voided>>

(* POST /v1/shifts/close: 404 unless the shift is known.  A replay is answered *)
(* 200 and a second close 409, which the drain does not tell apart.            *)
ServeClose(r, ok) ==
    /\ ok = (server[r.shift].status # "none")
    /\ server' = IF server[r.shift].status = "open"
                 THEN [server EXCEPT ![r.shift].status = "closed",
                                     ![r.shift].counted = CashSales(server[r.shift].date)]
                 ELSE server
    /\ UNCHANGED <<recorded, voided>>

(* POST /v1/sales/:saleId/void: module SalesService, without refunds. *)
ServeVoid(r, ok) ==
    /\ ok = (r.pin /\ (r.sale \in voided \/ InOpenShift(r.sale)))
    /\ voided' = IF ok THEN voided \union {r.sale} ELSE voided
    /\ UNCHANGED <<recorded, server>>

(* One post of row i; ok says whether it is answered 2xx, or 409 to an event. *)
Serve(i, ok) ==
    \/ row[i].kind = "open" /\ ServeOpen(row[i], ok)
    \/ row[i].kind = "close" /\ ServeClose(row[i], ok)
    \/ row[i].kind = "void" /\ ServeVoid(row[i], ok)

ServeScreen ==
    /\ screen.at = "posted"
    /\ \E ok \in BOOLEAN :
          /\ Serve(screen.id, ok)
          /\ screen' = [at |-> "answered", id |-> screen.id, ok |-> ok]
    /\ UNCHANGED <<today, row, shift, sale, task, steady>>

-----------------------------------------------------------------------------
(* A push. *)

LeftInFlight(table) == row  \* mutant: rows left "sending" stay so

(* resetInFlight of one table. *)
Reset(table) ==
    [i \in Ids |-> IF i \in Table(table) /\ row[i].status = "sending"
                   THEN [row[i] EXCEPT !.status = "queued"] ELSE row[i]]

Begin(t) ==
    /\ task[t] = Idle
    /\ row' = Reset("events")
    /\ Go(t, [at |-> "list", table |-> "events"])
    /\ UNCHANGED <<today, shift, sale, screen, api, steady>>

List(t) ==
    /\ task[t].at = "list"
    /\ Go(t, [at |-> "next", table |-> task[t].table, todo |-> Drainable(task[t].table)])
    /\ UNCHANGED <<till, api, steady>>

(* markSending and the fetch, in the order of creation. *)
Send(t) ==
    /\ task[t].at = "next"
    /\ \E i \in task[t].todo :
          /\ \A j \in task[t].todo : i <= j
          /\ SetStatus(i, "sending")
          /\ Go(t, [at |-> "posted", table |-> task[t].table, id |-> i,
                    todo |-> task[t].todo \ {i}])
    /\ UNCHANGED <<today, shift, sale, screen, api, steady>>

ServePush(t) ==
    /\ task[t].at = "posted"
    /\ \E ok \in BOOLEAN :
          /\ Serve(task[t].id, ok)
          /\ Go(t, [at |-> "answered", table |-> task[t].table, id |-> task[t].id,
                    todo |-> task[t].todo, ok |-> ok])
    /\ UNCHANGED <<till, steady>>

AnyAnswer(t) == TRUE  \* mutant: every answer settles the row

(* What the drain takes for settled: 2xx, and 409 for a shift event. *)
Settles(t) == task[t].ok

(* The row is settled or parked, and the hook of its kind runs: an open writes *)
(* serverShiftId, which nothing reads; a close drops the singleton, whichever  *)
(* shift it holds; a void marks the sale again.                                *)
Answered(t) ==
    /\ task[t].at = "answered"
    /\ LET i == task[t].id
           r == row[i]
           ok == Settles(t)
       IN /\ SetStatus(i, IF ok THEN "synced" ELSE "needs_attention")
          /\ shift' = IF ok /\ r.kind = "close" THEN NoShift ELSE shift
          /\ sale' = IF ok /\ r.kind = "void" THEN [sale EXCEPT ![r.sale].void = i]
                                              ELSE sale
    /\ Go(t, [at |-> "next", table |-> task[t].table, todo |-> task[t].todo])
    /\ UNCHANGED <<today, screen, api, steady>>

(* The drain of a table ends: the sales come after the events, then the voids. *)
(* runPush goes on whatever the drain's result was.                            *)
Leave(t) ==
    IF task[t].table = "events"
    THEN Go(t, [at |-> "sales", todo |-> WithStatus({"queued"})])
    ELSE Go(t, Idle)

EndTable(t) ==
    /\ task[t].at = "next"
    /\ task[t].todo = {} \/ ~steady
    /\ Leave(t)
    /\ UNCHANGED <<till, api, steady>>

KeepGoing(t) ==  \* mutant: the drain goes on with the next row
    Go(t, [at |-> "next", table |-> task[t].table, todo |-> task[t].todo])

(* A lost or retriable answer halts the drain of the table. *)
Halt(t) == Leave(t)

Lost(t) ==
    /\ task[t].at \in {"posted", "answered"} /\ ~steady
    /\ SetStatus(task[t].id, "queued")
    /\ Halt(t)
    /\ UNCHANGED <<today, shift, sale, screen, api, steady>>

(* The sale drain's next row: delivered, with its server id if the answer can *)
(* be read, put aside, or its answer lost, which halts the drain, before or   *)
(* after the server recorded the sale.                                        *)
PushSale(t) ==
    /\ task[t].at = "sales"
    /\ \E s \in task[t].todo :
          \/ /\ recorded' = recorded \union {s}
             /\ \E read \in BOOLEAN :
                  sale' = [sale EXCEPT ![s].status = "synced", ![s].id = @ \/ read]
             /\ Go(t, [at |-> "sales", todo |-> task[t].todo \ {s}])
          \/ /\ s \notin recorded
             /\ sale' = [sale EXCEPT ![s].status = "needs_attention"]
             /\ Go(t, [at |-> "sales", todo |-> task[t].todo \ {s}])
             /\ UNCHANGED recorded
          \/ /\ ~steady
             /\ recorded' \in {recorded, recorded \union {s}}
             /\ sale' = [sale EXCEPT ![s].status = "queued"]
             /\ Go(t, [at |-> "sales", todo |-> {}])
    /\ UNCHANGED <<today, row, shift, screen, voided, server, steady>>

BeginVoids(t) ==
    /\ task[t].at = "sales" /\ task[t].todo = {}
    /\ row' = Reset("voids")
    /\ Go(t, [at |-> "list", table |-> "voids"])
    /\ UNCHANGED <<today, shift, sale, screen, api, steady>>

-----------------------------------------------------------------------------
(* The tab dies, with every push and screen under way. *)
TabDies ==
    /\ TabMayDie /\ ~steady
    /\ task' = [t \in Tasks |-> Idle]
    /\ screen' = Idle
    /\ UNCHANGED <<today, row, shift, sale, api, steady>>

Settle ==
    /\ ~steady
    /\ steady' = TRUE
    /\ UNCHANGED <<till, task, api>>

Init ==
    /\ today = 1
    /\ row = [i \in Ids |-> Unused]
    /\ shift = NoShift
    /\ sale = [s \in Sales |-> [status |-> "absent", id |-> FALSE, date |-> 1, void |-> NoVoid]]
    /\ task = [t \in Tasks |-> Idle]
    /\ screen = Idle
    /\ recorded = {} /\ voided = {}
    /\ server = [n \in Shifts |-> [status |-> "none", date |-> 1, counted |-> {}]]
    /\ steady = FALSE

Tap ==
    \/ TapOpen \/ TapClose \/ Midnight \/ LeaveScreen
    \/ \E pin \in BOOLEAN : TapVoid(pin)
    \/ \E s \in Sales : LoadVoid(s) \/ Ring(s) \/ AdminRetry(s) \/ Hydrate(s)

Screen == Stamp \/ ServeScreen \/ ScreenAnswered

Step(t) ==
    \/ List(t) \/ Send(t) \/ ServePush(t) \/ Answered(t) \/ EndTable(t)
    \/ PushSale(t) \/ BeginVoids(t)

Next ==
    \/ Tap \/ Screen \/ ScreenLost
    \/ \E t \in Tasks : Begin(t) \/ Step(t) \/ Lost(t)
    \/ TabDies \/ Settle

Spec == Init /\ [][Next]_vars

(* The interval timer starts the cycle again and again, and what a push awaits *)
(* comes back.  Nothing is assumed of the cashier, the screens or the link.    *)
FairSpec ==
    /\ Spec
    /\ WF_vars(Begin(Cycle))
    /\ \A t \in Tasks : WF_vars(Step(t))

-----------------------------------------------------------------------------
(* Properties *)

Rows ==
    {Unused}
    \union [kind : {"open"}, shift : Shifts, date : Dates, status : Statuses]
    \union [kind : {"close"}, shift : Shifts, shown : SUBSET Sales, status : Statuses]
    \union [kind : {"void"}, sale : Sales, pin : BOOLEAN, status : Statuses]

Tables == {"events", "voids"}
TaskStates ==
    {Idle}
    \union [at : {"list"}, table : Tables]
    \union [at : {"next"}, table : Tables, todo : SUBSET Ids]
    \union [at : {"posted"}, table : Tables, id : Ids, todo : SUBSET Ids]
    \union [at : {"answered"}, table : Tables, id : Ids, todo : SUBSET Ids, ok : BOOLEAN]
    \union [at : {"sales"}, todo : SUBSET Sales]
ScreenStates ==
    {Idle} \union [at : {"loaded"}, sale : Sales]
    \union [at : {"stamp", "posted"}, id : Ids]
    \union [at : {"answered"}, id : Ids, ok : BOOLEAN]

(* Every variable keeps its shape.  In particular every void the till enqueues *)
(* is of a sale the server has, and so never answered 404; and the server      *)
(* never voids a sale it lacks.                                                *)
TypeOK ==
    /\ today \in Dates
    /\ row \in [Ids -> Rows]
    /\ \A i \in Table("voids") : row[i].sale \in recorded
    /\ shift \in {NoShift} \union [number : Shifts, date : Dates, closed : BOOLEAN]
    /\ sale \in [Sales -> [status : {"absent", "queued", "synced", "needs_attention"},
                           id : BOOLEAN, date : Dates, void : Ids \union {NoVoid}]]
    /\ task \in [Tasks -> TaskStates]
    /\ screen \in ScreenStates
    /\ recorded \subseteq Sales /\ voided \subseteq recorded
    /\ server \in [Shifts -> [status : {"none", "open", "closed"}, date : Dates,
                              counted : SUBSET Sales]]
    /\ steady \in BOOLEAN

(* The post of row i has had its effect: the server knows the shift, has closed *)
(* it, has voided the sale.                                                    *)
Served(i) ==
    /\ row[i].kind = "open" => server[row[i].shift].status # "none"
    /\ row[i].kind = "close" => server[row[i].shift].status = "closed"
    /\ row[i].kind = "void" => row[i].sale \in voided

(* A row marked synced, which nothing will post again, has had its effect,     *)
(* whichever of the screen and the pushes settled it and in whatever order.    *)
SyncedIsServed == \A i \in Used : row[i].status = "synced" => Served(i)

(* The drain posts events in the order the cashier made them and halts when an *)
(* answer is lost, so that a close is never turned down for want of its open,  *)
(* after which nothing would ever close the shift.                             *)
CloseNeverParked ==
    \A i \in Ids : row[i].kind = "close" => row[i].status # "needs_attention"

(* Once the link stays up, every shift the cashier closed is closed on the     *)
(* server, whatever was lost and wherever the tab died before.                 *)
ShiftsReachServer ==
    \A n \in Shifts : steady /\ n \in Closed ~> server[n].status = "closed"

(* "a second open attempt cannot create a duplicate row": of the shifts the    *)
(* cashier opened, one at most is not closed.                                  *)
OneShiftOpen == Cardinality(Opened \ Closed) <= 1

(* "Roll back an optimistic void mark when the server later rejected the void": *)
(* no sale stays marked with a void that was refused.                          *)
RefusedVoidRolledBack ==
    \A s \in Sales : sale[s].void # NoVoid =>
        row[sale[s].void].status # "needs_attention"

(* "the same number the server will record": the figure shown at a close is    *)
(* the one the server computes for the shift.                                  *)
ShownIsRecorded ==
    \A i \in Ids : row[i].kind = "close" /\ server[row[i].shift].status = "closed" =>
        row[i].shown = server[row[i].shift].counted
==============================================================================

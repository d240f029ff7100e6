---------------------------- MODULE TillDayProofs ----------------------------
(***************************************************************************)
(* Theorems about TillDay, for any number of sales, shifts, dates and rows, *)
(* and whichever pushes overlap and whether or not the tab may die.        *)
(***************************************************************************)
EXTENDS TillDay, TLAPS

-----------------------------------------------------------------------------
(* The inductive invariant *)

OpenRows == [kind : {"open"}, shift : Shifts, date : Dates, status : Statuses]
CloseRows == [kind : {"close"}, shift : Shifts, shown : SUBSET Sales, status : Statuses]
VoidRows == [kind : {"void"}, sale : Sales, pin : BOOLEAN, status : Statuses]
ShiftStates == {NoShift} \union [number : Shifts, date : Dates, closed : BOOLEAN]
SaleStates == [status : {"absent", "queued", "synced", "needs_attention"},
               id : BOOLEAN, date : Dates, void : Ids \union {NoVoid}]
ServerStates == [status : {"none", "open", "closed"}, date : Dates, counted : SUBSET Sales]

(* A sale that knows its server id is recorded. *)
IdIsRecorded == \A s \in Sales : sale[s].id => s \in recorded

(* A push holds rows of the outbox only, and the answer by which it is about to *)
(* settle a row, whatever has become of the row since, is true.                 *)
PushSound(t) ==
    /\ task[t].at \in {"next", "posted", "answered"} => task[t].todo \subseteq Used
    /\ task[t].at \in {"posted", "answered"} => task[t].id \in Used
    /\ task[t].at = "answered" /\ task[t].ok => Served(task[t].id)

(* So does the screen that is submitting, and the one that has loaded a sale   *)
(* to void has one the server has.                                             *)
ScreenSound ==
    /\ screen.at \in {"stamp", "posted", "answered"} => screen.id \in Used
    /\ screen.at = "loaded" => screen.sale \in recorded
    /\ screen.at = "answered" /\ screen.ok => Served(screen.id)

TillInv ==
    /\ TypeOK
    /\ SyncedIsServed
    /\ IdIsRecorded
    /\ \A t \in Tasks : PushSound(t)
    /\ ScreenSound

-----------------------------------------------------------------------------
(* What every step keeps *)

(* Rows stay in the outbox and change in nothing but their status. *)
SameRow(i) ==
    /\ row'[i].kind = row[i].kind
    /\ row[i].kind \in {"open", "close"} => row'[i].shift = row[i].shift
    /\ row[i].kind = "void" => row'[i].sale = row[i].sale
RowsKept ==
    /\ row' \in [Ids -> Rows]
    /\ \A i \in Used : SameRow(i)

(* What the server has done, it does not undo. *)
ServerGrows ==
    /\ recorded \subseteq recorded' /\ voided \subseteq voided'
    /\ \A n \in Shifts :
          /\ server[n].status # "none" => server'[n].status # "none"
          /\ server[n].status = "closed" => server'[n].status = "closed"

(* What a step shows to have kept. *)
Kept == TillInv' /\ RowsKept /\ ServerGrows

(* No row is synced anew but those of S. *)
SyncedOnly(S) ==
    \A i \in Ids : row'[i].status = "synced" => row[i].status = "synced" \/ i \in S

LEMMA RowShapes ==
  ASSUME TypeOK, NEW i \in Ids
  PROVE  /\ row[i] \in Rows
         /\ i \notin Used => row[i] = Unused
         /\ i \in Used => row[i] \in OpenRows \union CloseRows \union VoidRows
         /\ row[i].kind = "open" => i \in Used /\ row[i] \in OpenRows
         /\ row[i].kind = "close" => i \in Used /\ row[i] \in CloseRows
         /\ row[i].kind = "void" => i \in Used /\ row[i] \in VoidRows
         /\ i \in Used => row[i].kind \in {"open", "close", "void"} /\ row[i].status \in Statuses
  <1>1. row[i] \in Rows
    BY DEF TypeOK
  <1>2. row[i] = Unused \/ row[i] \in OpenRows \/ row[i] \in CloseRows \/ row[i] \in VoidRows
    BY <1>1 DEF Rows, OpenRows, CloseRows, VoidRows
  <1>3. Unused.kind = "unused"
    BY DEF Unused
  <1>4. \A r \in OpenRows : r.kind = "open" /\ r.status \in Statuses
    BY DEF OpenRows
  <1>5. \A r \in CloseRows : r.kind = "close" /\ r.status \in Statuses
    BY DEF CloseRows
  <1>6. \A r \in VoidRows : r.kind = "void" /\ r.status \in Statuses
    BY DEF VoidRows
  <1>7. i \in Used <=> row[i] # Unused
    BY DEF Used
  <1> HIDE DEF Unused
  <1> QED
    BY <1>1, <1>2, <1>3, <1>4, <1>5, <1>6, <1>7

LEMMA StatusOfRow ==
  ASSUME NEW r \in OpenRows \union CloseRows \union VoidRows, NEW st \in Statuses
  PROVE  LET q == [r EXCEPT !.status = st]
         IN  /\ q \in Rows /\ q # Unused /\ q.kind = r.kind /\ q.status = st
             /\ r.kind \in {"open", "close"} => q.shift = r.shift
             /\ r.kind = "void" => q.sale = r.sale
  <1> DEFINE q == [r EXCEPT !.status = st]
  <1>1. CASE r \in OpenRows
    <2>1. q \in OpenRows /\ q.kind = "open" /\ q.shift = r.shift /\ q.status = st /\ r.kind = "open"
      BY <1>1 DEF OpenRows
    <2> QED
      BY <2>1 DEF Rows, OpenRows, Unused
  <1>2. CASE r \in CloseRows
    <2>1. q \in CloseRows /\ q.kind = "close" /\ q.shift = r.shift /\ q.status = st /\ r.kind = "close"
      BY <1>2 DEF CloseRows
    <2> QED
      BY <2>1 DEF Rows, CloseRows, Unused
  <1>3. CASE r \in VoidRows
    <2>1. q \in VoidRows /\ q.kind = "void" /\ q.sale = r.sale /\ q.status = st /\ r.kind = "void"
      BY <1>3 DEF VoidRows
    <2> QED
      BY <2>1 DEF Rows, VoidRows, Unused
  <1> QED
    BY <1>1, <1>2, <1>3

(* Setting a status keeps the rows, and syncs none but the one it is set of. *)
LEMMA StatusSet ==
  ASSUME TypeOK, NEW i \in Used, NEW st \in Statuses, SetStatus(i, st)
  PROVE  /\ RowsKept /\ Used' = Used
         /\ SyncedOnly({i}) /\ (st # "synced" => SyncedOnly({}))
  <1> DEFINE q == [row[i] EXCEPT !.status = st]
  <1>1. i \in Ids /\ row \in [Ids -> Rows]
    BY DEF Used, TypeOK
  <1>2. row' = [row EXCEPT ![i] = q]
    BY DEF SetStatus
  <1>3. row[i] \in OpenRows \union CloseRows \union VoidRows /\ row[i] # Unused
    BY <1>1, RowShapes DEF Used
  <1>4. /\ q \in Rows /\ q # Unused /\ q.kind = row[i].kind /\ q.status = st
        /\ row[i].kind \in {"open", "close"} => q.shift = row[i].shift
        /\ row[i].kind = "void" => q.sale = row[i].sale
    BY <1>3, StatusOfRow
  <1> HIDE DEF q
  <1>5. row' \in [Ids -> Rows] /\ row'[i] = q /\ \A j \in Ids \ {i} : row'[j] = row[j]
    BY <1>1, <1>2, <1>4
  <1>6. \A j \in Used : SameRow(j)
    BY <1>4, <1>5 DEF SameRow, Used
  <1>7. Used' = Used
    BY <1>3, <1>4, <1>5 DEF Used
  <1>8. SyncedOnly({i}) /\ (st # "synced" => SyncedOnly({}))
    BY <1>4, <1>5 DEF SyncedOnly
  <1> QED
    BY <1>5, <1>6, <1>7, <1>8 DEF RowsKept

(* So a row may be settled once it has been served. *)
LEMMA Settling ==
  ASSUME TypeOK, NEW i \in Used, NEW st \in Statuses, SetStatus(i, st),
         st = "synced" => Served(i)
  PROVE  \E S \in SUBSET Used : SyncedOnly(S) /\ \A j \in S : Served(j)
  <1>1. CASE st = "synced"
    <2>1. SyncedOnly({i}) /\ {i} \in SUBSET Used /\ \A j \in {i} : Served(j)
      BY <1>1, StatusSet
    <2> QED
      BY <2>1
  <1>2. CASE st # "synced"
    <2>1. SyncedOnly({})
      BY <1>2, StatusSet
    <2>2. {} \in SUBSET Used /\ \A j \in {} : Served(j)
      OBVIOUS
    <2> QED
      BY <2>1, <2>2
  <1> QED
    BY <1>1, <1>2

(* resetInFlight keeps the rows and syncs none. *)
LEMMA ResetKeeps ==
  ASSUME TypeOK, NEW table, row' = Reset(table)
  PROVE  RowsKept /\ SyncedOnly({}) /\ Used' = Used
  <1>1. row \in [Ids -> Rows]
    BY DEF TypeOK
  <1>2. ASSUME NEW j \in Ids
        PROVE  /\ row'[j] \in Rows
               /\ j \in Used => SameRow(j)
               /\ j \in Used <=> j \in Used'
               /\ row'[j].status = "synced" => row[j].status = "synced"
    <2>1. CASE j \in Table(table) /\ row[j].status = "sending"
      <3> DEFINE q == [row[j] EXCEPT !.status = "queued"]
      <3>1. row'[j] = q
        BY <2>1 DEF Reset
      <3>2. row[j].kind \in {"open", "close", "void"}
        BY <2>1 DEF Table, Kinds
      <3>3. row[j] \in OpenRows \union CloseRows \union VoidRows /\ j \in Used
        BY <3>2, RowShapes
      <3>4. "queued" \in Statuses
        BY DEF Statuses
      <3>5. /\ q \in Rows /\ q # Unused /\ q.kind = row[j].kind /\ q.status = "queued"
            /\ row[j].kind \in {"open", "close"} => q.shift = row[j].shift
            /\ row[j].kind = "void" => q.sale = row[j].sale
        BY <3>3, <3>4, StatusOfRow
      <3> HIDE DEF q
      <3> QED
        BY <3>1, <3>3, <3>5 DEF SameRow, Used
    <2>2. CASE ~(j \in Table(table) /\ row[j].status = "sending")
      <3>1. row'[j] = row[j]
        BY <2>2 DEF Reset
      <3> QED
        BY <1>1, <3>1 DEF SameRow, Used
    <2> QED
      BY <2>1, <2>2
  <1>3. row' \in [Ids -> Rows]
    BY <1>2 DEF Reset
  <1>4. Used' = Used /\ \A j \in Used : SameRow(j)
    BY <1>2 DEF Used
  <1> QED
    BY <1>2, <1>3, <1>4 DEF RowsKept, SyncedOnly

(* Rows that are left alone are kept. *)
LEMMA RowsAlone ==
  ASSUME TypeOK, UNCHANGED row
  PROVE  RowsKept /\ SyncedOnly({}) /\ Used' = Used
  BY DEF TypeOK, RowsKept, SameRow, SyncedOnly, Used

LEMMA ServerAlone ==
  ASSUME UNCHANGED api
  PROVE  ServerGrows
  BY DEF api, ServerGrows

(* The effect of a post is never undone. *)
LEMMA ServedKept ==
  ASSUME TypeOK, RowsKept, ServerGrows
  PROVE  /\ Used \subseteq Used'
         /\ \A i \in Used : Served(i) => Served(i)'
  <1> SUFFICES ASSUME NEW i \in Used
               PROVE  i \in Used' /\ (Served(i) => Served(i)')
    OBVIOUS
  <1>1. i \in Ids /\ SameRow(i) /\ row'[i] \in Rows
    BY DEF Used, RowsKept
  <1>2. row[i] \in OpenRows \union CloseRows \union VoidRows /\ row[i].kind \in {"open", "close", "void"}
    BY <1>1, RowShapes
  <1>3. row[i].kind \in {"open", "close"} => row[i].shift \in Shifts
    BY <1>2 DEF OpenRows, CloseRows, VoidRows
  <1>4. Unused.kind = "unused"
    BY DEF Unused
  <1>5. i \in Used'
    BY <1>1, <1>2, <1>4 DEF Used, SameRow
  <1> QED
    BY <1>1, <1>3, <1>5 DEF Served, SameRow, ServerGrows

(* Whoever does not move keeps what it was sound about. *)
LEMMA BystandersSound ==
  ASSUME TillInv, RowsKept, ServerGrows
  PROVE  /\ \A u \in Tasks : task'[u] = task[u] => PushSound(u)'
         /\ UNCHANGED screen => ScreenSound'
  <1>1. Used \subseteq Used' /\ \A i \in Used : Served(i) => Served(i)'
    BY ServedKept DEF TillInv
  <1>2. ASSUME NEW u \in Tasks, task'[u] = task[u]
        PROVE  PushSound(u)'
    BY <1>1, <1>2 DEF TillInv, PushSound
  <1>3. ASSUME UNCHANGED screen PROVE ScreenSound'
    BY <1>1, <1>3 DEF TillInv, ScreenSound, ServerGrows
  <1> QED
    BY <1>2, <1>3

(* The frame of every step: what it has to show for the invariant to hold again. *)
LEMMA StepKeeps ==
  ASSUME TillInv, RowsKept, ServerGrows,
         NEW S \in SUBSET Used, SyncedOnly(S), \A i \in S : Served(i),
         \A i \in Ids \ Used : row'[i] # row[i] => row'[i].status = "queued",
         \A i \in Ids \ Used : row'[i].kind = "void" => row'[i].sale \in recorded,
         today' \in Dates, shift' \in ShiftStates, sale' \in [Sales -> SaleStates],
         recorded' \subseteq Sales, voided' \subseteq recorded',
         server' \in [Shifts -> ServerStates], steady' \in BOOLEAN,
         IdIsRecorded',
         task' \in [Tasks -> TaskStates], \A t \in Tasks : PushSound(t)',
         screen' \in ScreenStates, ScreenSound'
  PROVE  Kept
  <1>1. Used \subseteq Used' /\ \A i \in Used : Served(i) => Served(i)'
    BY ServedKept DEF TillInv
  <1>2. ASSUME NEW i \in Used', row'[i].status = "synced"
        PROVE  Served(i)'
    <2>1. i \in Ids
      BY DEF Used
    <2>2. i \in Used
      <3> SUFFICES ASSUME i \notin Used PROVE FALSE
        OBVIOUS
      <3>1. row[i] = Unused
        BY <2>1 DEF Used
      <3>2. row'[i] # Unused
        BY DEF Used
      <3> QED
        BY <1>2, <2>1, <3>1, <3>2
    <2>3. row[i].status = "synced" \/ i \in S
      BY <1>2, <2>1 DEF SyncedOnly
    <2>4. Served(i)
      BY <2>2, <2>3 DEF TillInv, SyncedIsServed
    <2> QED
      BY <1>1, <2>2, <2>4
  <1>3. ASSUME NEW i \in Ids, row'[i].kind = "void"
        PROVE  row'[i].sale \in recorded'
    <2>1. CASE i \in Used
      <3>1. row[i].kind = "void" /\ row'[i].sale = row[i].sale
        BY <1>3, <2>1 DEF RowsKept, SameRow
      <3>2. row[i].sale \in recorded
        BY <3>1 DEF TillInv, TypeOK, Table, Kinds
      <3> QED
        BY <3>1, <3>2 DEF ServerGrows
    <2>2. CASE i \notin Used
      BY <1>3, <2>2 DEF ServerGrows
    <2> QED
      BY <2>1, <2>2
  <1>4. \A i \in Table("voids")' : row'[i].sale \in recorded'
    BY <1>3 DEF Table, Kinds
  <1>5. TypeOK'
    BY <1>4 DEF TypeOK, RowsKept, ShiftStates, SaleStates, ServerStates
  <1> QED
    BY <1>2, <1>5 DEF Kept, TillInv, SyncedIsServed

(* A step that enqueues nothing and asks nothing of the server. *)
LEMMA LocalStep ==
  ASSUME TillInv, RowsKept, Used' = Used, UNCHANGED <<api, steady>>,
         NEW S \in SUBSET Used, SyncedOnly(S), \A i \in S : Served(i),
         today' \in Dates, shift' \in ShiftStates, sale' \in [Sales -> SaleStates],
         IdIsRecorded',
         task' \in [Tasks -> TaskStates], \A t \in Tasks : PushSound(t)',
         screen' \in ScreenStates, ScreenSound'
  PROVE  Kept
  <1>1. \A i \in Ids \ Used : row'[i] = row[i] /\ row'[i].kind = "unused"
    BY DEF Used, Unused
  <1>2. ServerGrows
    BY ServerAlone
  <1>3. /\ recorded' \subseteq Sales /\ voided' \subseteq recorded'
        /\ server' \in [Shifts -> ServerStates] /\ steady' \in BOOLEAN
    BY DEF TillInv, TypeOK, api, ServerStates
  <1> QED
    BY <1>1, <1>2, <1>3, StepKeeps

(* A step of one push leaves the others sound. *)
LEMMA PushMoves ==
  ASSUME TillInv, RowsKept, ServerGrows, NEW t \in Tasks, NEW d \in TaskStates, Go(t, d)
  PROVE  /\ task' \in [Tasks -> TaskStates] /\ task'[t] = d
         /\ \A u \in Tasks \ {t} : PushSound(u)'
  <1>1. /\ task' \in [Tasks -> TaskStates] /\ task'[t] = d
        /\ \A u \in Tasks \ {t} : task'[u] = task[u]
    BY DEF TillInv, TypeOK, Go
  <1> QED
    BY <1>1, BystandersSound

(* What a push and the screen hold at each of their steps. *)
LEMMA PushShape ==
  ASSUME TypeOK, NEW t \in Tasks
  PROVE  /\ task[t] \in TaskStates
         /\ task[t].at = "list" => task[t].table \in Tables
         /\ task[t].at = "next" => task[t].table \in Tables /\ task[t].todo \subseteq Ids
         /\ task[t].at \in {"posted", "answered"} =>
               task[t].table \in Tables /\ task[t].todo \subseteq Ids /\ task[t].id \in Ids
         /\ task[t].at = "answered" => task[t].ok \in BOOLEAN
         /\ task[t].at = "sales" => task[t].todo \subseteq Sales
  <1>1. task[t] \in TaskStates
    BY DEF TypeOK
  <1> QED
    BY <1>1 DEF TaskStates, Idle

LEMMA ScreenShape ==
  ASSUME TypeOK
  PROVE  /\ screen \in ScreenStates
         /\ screen.at \in {"stamp", "posted", "answered"} => screen.id \in Ids
         /\ screen.at = "answered" => screen.ok \in BOOLEAN
  <1>1. screen \in ScreenStates
    BY DEF TypeOK
  <1> QED
    BY <1>1 DEF ScreenStates, Idle

-----------------------------------------------------------------------------
(* The screens *)

LEMMA PutKeeps ==
  ASSUME TillInv, NEW r \in Rows, r # Unused, r.status = "queued",
         r.kind = "void" => r.sale \in recorded, Put(r)
  PROVE  Kept
  <1>1. PICK i \in Ids \ Used : /\ row' = [row EXCEPT ![i] = r]
                               /\ screen' = [at |-> "stamp", id |-> i]
    BY DEF Put
  <1>2. row \in [Ids -> Rows]
    BY DEF TillInv, TypeOK
  <1>3. row' \in [Ids -> Rows] /\ row'[i] = r /\ \A j \in Ids \ {i} : row'[j] = row[j]
    BY <1>1, <1>2
  <1>4. RowsKept
    BY <1>3 DEF RowsKept, SameRow, Used
  <1>5. SyncedOnly({})
    BY <1>3 DEF SyncedOnly
  <1>6. /\ \A j \in Ids \ Used : row'[j] # row[j] => row'[j].status = "queued"
        /\ \A j \in Ids \ Used : row'[j].kind = "void" => row'[j].sale \in recorded
    BY <1>3 DEF Used, Unused
  <1>7. i \in Used'
    BY <1>3 DEF Used
  <1>8. screen' \in ScreenStates /\ ScreenSound'
    BY <1>1, <1>7 DEF ScreenStates, ScreenSound
  <1>9. UNCHANGED <<today, shift, sale, task, api, steady>>
    BY DEF Put
  <1>10. /\ today' \in Dates /\ shift' \in ShiftStates /\ sale' \in [Sales -> SaleStates]
         /\ recorded' \subseteq Sales /\ voided' \subseteq recorded'
         /\ server' \in [Shifts -> ServerStates] /\ steady' \in BOOLEAN
         /\ IdIsRecorded' /\ task' \in [Tasks -> TaskStates]
    BY <1>9 DEF TillInv, TypeOK, api, ShiftStates, SaleStates, ServerStates, IdIsRecorded
  <1>11. ServerGrows /\ \A t \in Tasks : PushSound(t)'
    BY <1>4, <1>9, ServerAlone, BystandersSound
  <1>12. {} \in SUBSET Used /\ \A j \in {} : Served(j)
    OBVIOUS
  <1> QED
    BY <1>4, <1>5, <1>6, <1>8, <1>10, <1>11, <1>12, StepKeeps

LEMMA TapKeeps ==
  ASSUME TillInv, TapOpen \/ TapClose \/ \E pin \in BOOLEAN : TapVoid(pin)
  PROVE  Kept
  <1>1. today \in Dates /\ shift \in ShiftStates /\ "queued" \in Statuses
    BY DEF TillInv, TypeOK, ShiftStates, Statuses
  <1>2. CASE TapOpen
    <2>1. PICK n \in Shifts :
             Put([kind |-> "open", shift |-> n, date |-> today, status |-> "queued"])
      BY <1>2 DEF TapOpen
    <2> DEFINE r == [kind |-> "open", shift |-> n, date |-> today, status |-> "queued"]
    <2>2. r \in Rows /\ r # Unused /\ r.status = "queued" /\ r.kind # "void"
      BY <1>1 DEF Rows, Unused
    <2>3. Put(r)
      BY <2>1
    <2> HIDE DEF r
    <2> QED
      BY <2>2, <2>3, PutKeeps
  <1>3. CASE TapClose
    <2>1. shift.number \in Shifts
      BY <1>1, <1>3 DEF TapClose, Current, ShiftStates
    <2> DEFINE r == [kind |-> "close", shift |-> shift.number, shown |-> ShownAtClose,
                     status |-> "queued"]
    <2>2. ShownAtClose \subseteq Sales
      BY DEF ShownAtClose, WithStatus
    <2>3. r \in Rows /\ r # Unused /\ r.status = "queued" /\ r.kind # "void"
      BY <1>1, <2>1, <2>2 DEF Rows, Unused
    <2>4. Put(r)
      BY <1>3 DEF TapClose
    <2> HIDE DEF r
    <2> QED
      BY <2>3, <2>4, PutKeeps
  <1>4. CASE \E pin \in BOOLEAN : TapVoid(pin)
    <2>1. PICK pin \in BOOLEAN : TapVoid(pin)
      BY <1>4
    <2>2. screen.sale \in recorded /\ recorded \subseteq Sales
      BY <2>1 DEF TapVoid, TillInv, TypeOK, ScreenSound
    <2> DEFINE r == [kind |-> "void", sale |-> screen.sale, pin |-> pin, status |-> "queued"]
    <2>3. r \in Rows /\ r # Unused /\ r.status = "queued" /\ r.sale \in recorded
      BY <1>1, <2>2 DEF Rows, Unused
    <2>4. Put(r)
      BY <2>1 DEF TapVoid
    <2> HIDE DEF r
    <2> QED
      BY <2>3, <2>4, PutKeeps
  <1> QED
    BY <1>2, <1>3, <1>4

LEMMA LocalState ==
  ASSUME TillInv
  PROVE  shift \in ShiftStates /\ sale \in [Sales -> SaleStates]
  BY DEF TillInv, TypeOK, ShiftStates, SaleStates

LEMMA StampKeeps ==
  ASSUME TillInv, Stamp
  PROVE  Kept
  <1>1. screen.id \in Ids /\ screen.id \in Used
    BY ScreenShape DEF Stamp, TillInv, ScreenSound
  <1> DEFINE r == row[screen.id]
  <1>2. /\ r \in OpenRows \union CloseRows \union VoidRows
        /\ r.kind = "open" => r \in OpenRows
        /\ r.kind = "void" => r \in VoidRows
    BY <1>1, RowShapes DEF TillInv
  <1>3. shift \in ShiftStates /\ sale \in [Sales -> SaleStates]
    BY DEF TillInv, TypeOK, ShiftStates, SaleStates
  <1>4. shift' \in ShiftStates
    <2>1. CASE r.kind = "open"
      <3>1. shift' = [number |-> r.shift, date |-> r.date, closed |-> FALSE]
        BY <2>1 DEF Stamp
      <3>2. r.shift \in Shifts /\ r.date \in Dates
        BY <1>2, <2>1 DEF OpenRows
      <3> QED
        BY <3>1, <3>2 DEF ShiftStates
    <2>2. CASE r.kind = "close" /\ shift # NoShift
      <3>1. shift' = [shift EXCEPT !.closed = TRUE]
        BY <2>2 DEF Stamp
      <3> QED
        BY <1>3, <2>2, <3>1 DEF ShiftStates
    <2>3. CASE r.kind # "open" /\ ~(r.kind = "close" /\ shift # NoShift)
      BY <1>3, <2>3 DEF Stamp
    <2> QED
      BY <2>1, <2>2, <2>3
  <1>5. sale' \in [Sales -> SaleStates] /\ \A s \in Sales : sale'[s].id = sale[s].id
    <2>1. CASE r.kind = "void"
      <3>1. sale' = [sale EXCEPT ![r.sale].void = screen.id]
        BY <2>1 DEF Stamp
      <3> QED
        BY <1>1, <1>3, <3>1 DEF SaleStates
    <2>2. CASE r.kind # "void"
      BY <1>3, <2>2 DEF Stamp
    <2> QED
      BY <2>1, <2>2
  <1>6. UNCHANGED <<today, row, task, api, steady>>
    BY DEF Stamp
  <1>7. RowsKept /\ SyncedOnly({}) /\ Used' = Used /\ ServerGrows
    BY <1>6, RowsAlone, ServerAlone DEF TillInv
  <1>8. screen' \in ScreenStates /\ ScreenSound'
    BY <1>1, <1>7 DEF Stamp, ScreenStates, ScreenSound
  <1>9. IdIsRecorded'
    BY <1>5, <1>6 DEF TillInv, IdIsRecorded, api
  <1>10. \A t \in Tasks : PushSound(t)'
    BY <1>6, <1>7, BystandersSound
  <1>11. today' \in Dates /\ task' \in [Tasks -> TaskStates]
    BY <1>6 DEF TillInv, TypeOK
  <1> QED
    BY <1>4, <1>5, <1>6, <1>7, <1>8, <1>9, <1>10, <1>11, LocalStep

(* A step of the till that touches neither its rows nor its pushes nor the server. *)
LEMMA TillStep ==
  ASSUME TillInv, UNCHANGED <<row, task, api, steady>>, screen' \in {screen, Idle},
         today' \in Dates, shift' \in ShiftStates, sale' \in [Sales -> SaleStates],
         \A s \in Sales : sale'[s].id => sale[s].id \/ s \in recorded
  PROVE  Kept
  <1>1. RowsKept /\ SyncedOnly({}) /\ Used' = Used /\ ServerGrows
    BY RowsAlone, ServerAlone DEF TillInv
  <1>2. screen' \in ScreenStates /\ ScreenSound'
    <2>1. CASE UNCHANGED screen
      BY <1>1, <2>1, BystandersSound DEF TillInv, TypeOK
    <2>2. CASE screen' = Idle
      BY <2>2 DEF ScreenStates, ScreenSound, Idle
    <2> QED
      BY <2>1, <2>2
  <1>3. IdIsRecorded'
    BY DEF TillInv, IdIsRecorded, api
  <1>4. task' \in [Tasks -> TaskStates] /\ \A t \in Tasks : PushSound(t)'
    BY <1>1, BystandersSound DEF TillInv, TypeOK
  <1> QED
    BY <1>1, <1>2, <1>3, <1>4, LocalStep

LEMMA RingKeeps ==
  ASSUME TillInv, NEW s \in Sales, Ring(s) \/ AdminRetry(s) \/ Hydrate(s)
  PROVE  Kept
  <1>1. today \in Dates /\ shift \in ShiftStates /\ sale \in [Sales -> SaleStates]
    BY DEF TillInv, TypeOK, ShiftStates, SaleStates
  <1>2. /\ sale' \in [Sales -> SaleStates]
        /\ \A x \in Sales : sale'[x].id => sale[x].id \/ x \in recorded
    <2>1. CASE Ring(s)
      <3> DEFINE r == [status |-> "queued", id |-> FALSE, date |-> today, void |-> NoVoid]
      <3>1. sale' = [sale EXCEPT ![s] = r]
        BY <2>1 DEF Ring
      <3>2. r \in SaleStates /\ ~r.id
        BY <1>1 DEF SaleStates
      <3> HIDE DEF r
      <3> QED
        BY <1>1, <3>1, <3>2
    <2>2. CASE AdminRetry(s)
      BY <1>1, <2>2 DEF AdminRetry, SaleStates
    <2>3. CASE Hydrate(s)
      BY <1>1, <2>3 DEF Hydrate, SaleStates
    <2> QED
      BY <2>1, <2>2, <2>3
  <1> QED
    BY <1>1, <1>2, TillStep DEF Ring, AdminRetry, Hydrate

LEMMA ClockKeeps ==
  ASSUME TillInv, Midnight \/ LeaveScreen \/ ScreenLost
  PROVE  Kept
  <1>1. today \in Dates /\ shift \in ShiftStates /\ sale \in [Sales -> SaleStates]
    BY DEF TillInv, TypeOK, ShiftStates, SaleStates
  <1>2. today' \in Dates
    BY <1>1, ConstantsAssumption DEF Midnight, LeaveScreen, ScreenLost, Dates
  <1> QED
    BY <1>1, <1>2, TillStep DEF Midnight, LeaveScreen, ScreenLost

LEMMA LoadKeeps ==
  ASSUME TillInv, NEW s \in Sales, LoadVoid(s)
  PROVE  Kept
  <1>1. UNCHANGED <<today, row, shift, sale, task, api, steady>>
    BY DEF LoadVoid
  <1>2. RowsKept /\ SyncedOnly({}) /\ Used' = Used /\ ServerGrows
    BY <1>1, RowsAlone, ServerAlone DEF TillInv
  <1>3. s \in recorded
    BY DEF LoadVoid, MayVoid, TillInv, IdIsRecorded
  <1>4. screen' \in ScreenStates /\ ScreenSound'
    BY <1>1, <1>3 DEF LoadVoid, ScreenStates, ScreenSound, api
  <1>5. \A t \in Tasks : PushSound(t)'
    BY <1>1, <1>2, BystandersSound
  <1>6. today' \in Dates /\ task' \in [Tasks -> TaskStates] /\ IdIsRecorded'
    BY <1>1 DEF TillInv, TypeOK, IdIsRecorded, api
  <1>7. {} \in SUBSET Used /\ \A j \in {} : Served(j)
    OBVIOUS
  <1> QED
    BY <1>1, <1>2, <1>4, <1>5, <1>6, <1>7, LocalState, LocalStep

LEMMA ScreenAnsweredKeeps ==
  ASSUME TillInv, ScreenAnswered
  PROVE  Kept
  <1> DEFINE i == screen.id
             r == row[i]
  <1>1. i \in Ids /\ i \in Used /\ screen.ok \in BOOLEAN
    BY ScreenShape DEF ScreenAnswered, TillInv, ScreenSound
  <1>2. UNCHANGED <<today, shift, task, api, steady>> /\ screen' = Idle
    BY DEF ScreenAnswered
  <1>3. today' \in Dates /\ shift' \in ShiftStates /\ sale \in [Sales -> SaleStates]
    BY <1>2 DEF TillInv, TypeOK, ShiftStates, SaleStates
  <1>4. CASE r.kind # "void"
    BY <1>2, <1>3, <1>4, TillStep DEF ScreenAnswered
  <1>5. CASE r.kind = "void"
    <2>1. PICK st \in Statuses : SetStatus(i, st) /\ (st = "synced" => screen.ok)
      BY <1>5 DEF ScreenAnswered, Statuses
    <2>2. sale' \in [Sales -> SaleStates] /\ \A s \in Sales : sale'[s].id = sale[s].id
      <3>1. CASE screen.ok
        BY <1>3, <1>5, <3>1 DEF ScreenAnswered
      <3>2. CASE ~screen.ok
        <4>1. sale' = [sale EXCEPT ![r.sale].void = IF @ = i THEN NoVoid ELSE @]
          BY <1>5, <3>2 DEF ScreenAnswered
        <4> QED
          BY <1>3, <4>1, ZenonT(30) DEF SaleStates
      <3> QED
        BY <3>1, <3>2
    <2>3. RowsKept /\ Used' = Used
      BY <1>1, <2>1, StatusSet DEF TillInv
    <2>4. st = "synced" => Served(i)
      BY <1>1, <2>1 DEF TillInv, ScreenSound, ScreenAnswered
    <2>5. PICK S \in SUBSET Used : SyncedOnly(S) /\ \A j \in S : Served(j)
      BY <1>1, <2>1, <2>4, Settling DEF TillInv
    <2>6. IdIsRecorded'
      BY <1>2, <2>2 DEF TillInv, IdIsRecorded, api
    <2>7. screen' \in ScreenStates /\ ScreenSound'
      BY <1>2 DEF ScreenStates, ScreenSound, Idle
    <2>8. ServerGrows /\ task' \in [Tasks -> TaskStates]
      BY <1>2, ServerAlone DEF TillInv, TypeOK
    <2>9. \A t \in Tasks : PushSound(t)'
      BY <1>2, <2>3, <2>8, BystandersSound
    <2>10. UNCHANGED <<api, steady>>
      BY <1>2
    <2> QED
      BY <1>3, <2>2, <2>3, <2>5, <2>6, <2>7, <2>8, <2>9, <2>10, LocalStep
  <1> QED
    BY <1>4, <1>5

-----------------------------------------------------------------------------
(* The server *)

LEMMA ServeEffect ==
  ASSUME TillInv, NEW i \in Used, NEW ok \in BOOLEAN, Serve(i, ok), UNCHANGED row
  PROVE  /\ ServerGrows /\ recorded' = recorded /\ voided' \subseteq recorded
         /\ server' \in [Shifts -> ServerStates]
         /\ ok => Served(i)'
  <1>1. /\ server \in [Shifts -> ServerStates]
        /\ recorded \subseteq Sales /\ voided \subseteq recorded
    BY DEF TillInv, TypeOK, ServerStates
  <1>2. i \in Ids /\ row'[i] = row[i]
    BY DEF Used
  <1>3. CASE row[i].kind = "open" /\ ServeOpen(row[i], ok)
    <2>1. row[i].shift \in Shifts /\ row[i].date \in Dates
      BY <1>2, <1>3, RowShapes DEF OpenRows, TillInv
    <2>2. [status |-> "open", date |-> row[i].date, counted |-> {}] \in ServerStates
      BY <2>1 DEF ServerStates
    <2>3. server' \in [Shifts -> ServerStates] /\ server'[row[i].shift].status # "none"
      BY <1>1, <1>3, <2>1, <2>2 DEF ServeOpen
    <2>4. \A n \in Shifts : server[n].status # "none" => server'[n] = server[n]
      BY <1>1, <1>3, <2>1 DEF ServeOpen
    <2>5. UNCHANGED <<recorded, voided>>
      BY <1>3 DEF ServeOpen
    <2>6. ServerGrows
      BY <2>4, <2>5 DEF ServerGrows
    <2>7. Served(i)'
      BY <1>2, <1>3, <2>3 DEF Served
    <2> QED
      BY <1>1, <2>3, <2>5, <2>6, <2>7
  <1>4. CASE row[i].kind = "close" /\ ServeClose(row[i], ok)
    <2> DEFINE n == row[i].shift
               counted == CashSales(server[n].date)
    <2>1. n \in Shifts
      BY <1>2, <1>4, RowShapes DEF CloseRows, TillInv
    <2>2. counted \in SUBSET Sales
      BY <1>1 DEF CashSales
    <2>3. UNCHANGED <<recorded, voided>>
      BY <1>4 DEF ServeClose
    <2>4. server' \in [Shifts -> ServerStates]
      BY <1>1, <1>4, <2>1, <2>2, SMTT(30) DEF ServeClose, ServerStates
    <2>5. ServerGrows
      BY <1>1, <1>4, <2>1, <2>2, <2>3 DEF ServeClose, ServerGrows, ServerStates
    <2>6. ok => Served(i)'
      BY <1>1, <1>2, <1>4, <2>1 DEF ServeClose, Served, ServerStates
    <2> QED
      BY <1>1, <2>3, <2>4, <2>5, <2>6
  <1>5. CASE row[i].kind = "void" /\ ServeVoid(row[i], ok)
    <2>1. row[i].sale \in recorded
      BY <1>2, <1>5 DEF TillInv, TypeOK, Table, Kinds
    <2>2. UNCHANGED <<recorded, server>> /\ voided' \in {voided, voided \union {row[i].sale}}
      BY <1>5 DEF ServeVoid
    <2>3. ServerGrows
      BY <2>2 DEF ServerGrows
    <2>4. ok => Served(i)'
      BY <1>2, <1>5 DEF ServeVoid, Served
    <2> QED
      BY <1>1, <2>1, <2>2, <2>3, <2>4
  <1> QED
    BY <1>3, <1>4, <1>5 DEF Serve

(* A post is served: the server grows, and whoever made it learns the truth. *)
LEMMA ServeStep ==
  ASSUME TillInv, NEW i \in Used, NEW ok \in BOOLEAN, Serve(i, ok),
         UNCHANGED <<today, row, shift, sale, steady>>,
         task' \in [Tasks -> TaskStates], \A t \in Tasks : PushSound(t)',
         screen' \in ScreenStates, ScreenSound'
  PROVE  Kept
  <1>1. /\ ServerGrows /\ recorded' = recorded /\ voided' \subseteq recorded
        /\ server' \in [Shifts -> ServerStates]
    BY ServeEffect
  <1>2. RowsKept /\ SyncedOnly({})
    BY RowsAlone DEF TillInv
  <1>3. /\ today' \in Dates /\ shift' \in ShiftStates /\ sale' \in [Sales -> SaleStates]
        /\ recorded' \subseteq Sales /\ voided' \subseteq recorded' /\ steady' \in BOOLEAN
        /\ IdIsRecorded'
    BY <1>1 DEF TillInv, TypeOK, ShiftStates, SaleStates, IdIsRecorded
  <1>4. /\ \A j \in Ids \ Used : row'[j] # row[j] => row'[j].status = "queued"
        /\ \A j \in Ids \ Used : row'[j].kind = "void" => row'[j].sale \in recorded
    BY DEF Used, Unused
  <1>5. {} \in SUBSET Used /\ \A j \in {} : Served(j)
    OBVIOUS
  <1> QED
    BY <1>1, <1>2, <1>3, <1>4, <1>5, StepKeeps

LEMMA ServeScreenKeeps ==
  ASSUME TillInv, ServeScreen
  PROVE  Kept
  <1>1. PICK i \in Used : i = screen.id
    BY ScreenShape DEF ServeScreen, TillInv, ScreenSound
  <1>2. PICK ok \in BOOLEAN : /\ Serve(i, ok)
                              /\ screen' = [at |-> "answered", id |-> i, ok |-> ok]
    BY <1>1 DEF ServeScreen
  <1>3. UNCHANGED <<today, row, shift, sale, task, steady>>
    BY DEF ServeScreen
  <1>4. RowsKept /\ Used' = Used /\ ServerGrows /\ (ok => Served(i)')
    BY <1>2, <1>3, RowsAlone, ServeEffect DEF TillInv
  <1>5. \A t \in Tasks : PushSound(t)'
    BY <1>3, <1>4, BystandersSound
  <1>6. screen' \in ScreenStates
    BY <1>2 DEF ScreenStates, Used
  <1>7. ScreenSound'
    BY <1>2, <1>4 DEF ScreenSound
  <1>8. task' \in [Tasks -> TaskStates]
    BY <1>3 DEF TillInv, TypeOK
  <1> QED
    BY <1>2, <1>3, <1>5, <1>6, <1>7, <1>8, ServeStep

-----------------------------------------------------------------------------
(* The pushes *)

(* A step of one push that reads and writes the outbox and the local state. *)
LEMMA PushStep ==
  ASSUME TillInv, NEW t \in Tasks, NEW d \in TaskStates, Go(t, d),
         d.at \in {"idle", "list", "next", "posted", "sales"},
         d.at \in {"next", "posted"} => d.todo \subseteq Used,
         d.at = "posted" => d.id \in Used,
         RowsKept, Used' = Used,
         NEW S \in SUBSET Used, SyncedOnly(S), \A i \in S : Served(i),
         UNCHANGED <<today, screen, api, steady>>,
         shift' \in ShiftStates, sale' \in [Sales -> SaleStates],
         \A s \in Sales : sale'[s].id = sale[s].id
  PROVE  Kept
  <1>1. ServerGrows
    BY ServerAlone
  <1>2. /\ task' \in [Tasks -> TaskStates] /\ task'[t] = d
        /\ \A u \in Tasks \ {t} : PushSound(u)'
    BY <1>1, PushMoves
  <1>3. PushSound(t)'
    BY <1>2 DEF PushSound
  <1>4. ScreenSound' /\ screen' \in ScreenStates /\ today' \in Dates
    BY <1>1, BystandersSound DEF TillInv, TypeOK
  <1>5. IdIsRecorded'
    BY DEF TillInv, IdIsRecorded, api
  <1>6. \A u \in Tasks : PushSound(u)'
    BY <1>2, <1>3
  <1>7. UNCHANGED <<api, steady>>
    OBVIOUS
  <1> QED
    BY <1>2, <1>4, <1>5, <1>6, <1>7, LocalStep

(* Where a push stands when it leaves the drain of a table. *)
LEMMA LeaveState ==
  ASSUME TillInv, NEW t \in Tasks, Leave(t)
  PROVE  \E d \in TaskStates : d.at \in {"idle", "sales"} /\ Go(t, d)
  <1> DEFINE d == [at |-> "sales", todo |-> WithStatus({"queued"})]
  <1>1. d \in TaskStates /\ d.at = "sales"
    BY DEF TaskStates, WithStatus
  <1>2. Idle \in TaskStates /\ Idle.at = "idle"
    BY DEF TaskStates, Idle
  <1>3. Go(t, d) \/ Go(t, Idle)
    BY DEF Leave
  <1> HIDE DEF d
  <1> QED
    BY <1>1, <1>2, <1>3

LEMMA BeginKeeps ==
  ASSUME TillInv, NEW t \in Tasks, Begin(t) \/ BeginVoids(t)
  PROVE  Kept
  <1>1. PICK table \in Tables : row' = Reset(table) /\ Go(t, [at |-> "list", table |-> table])
    BY DEF Begin, BeginVoids, Tables
  <1>2. RowsKept /\ SyncedOnly({}) /\ Used' = Used
    BY <1>1, ResetKeeps DEF TillInv
  <1> DEFINE d == [at |-> "list", table |-> table]
  <1>3. d \in TaskStates /\ d.at = "list" /\ Go(t, d)
    BY <1>1 DEF TaskStates
  <1>4. UNCHANGED <<today, shift, sale, screen, api, steady>>
    BY DEF Begin, BeginVoids
  <1>5. {} \in SUBSET Used /\ \A j \in {} : Served(j)
    OBVIOUS
  <1> HIDE DEF d
  <1> QED
    BY <1>2, <1>3, <1>4, <1>5, LocalState, PushStep

LEMMA ListKeeps ==
  ASSUME TillInv, NEW t \in Tasks, List(t) \/ EndTable(t)
  PROVE  Kept
  <1>1. UNCHANGED <<today, row, shift, sale, screen, api, steady>>
    BY DEF List, EndTable, till
  <1>2. RowsKept /\ SyncedOnly({}) /\ Used' = Used
    BY <1>1, RowsAlone DEF TillInv
  <1>3. {} \in SUBSET Used /\ \A j \in {} : Served(j)
    OBVIOUS
  <1>4. CASE List(t)
    <2> DEFINE d == [at |-> "next", table |-> task[t].table, todo |-> Drainable(task[t].table)]
    <2>1. task[t].table \in Tables
      BY <1>4, PushShape DEF List, TillInv
    <2>2. Drainable(task[t].table) \subseteq Used
      BY DEF Drainable, Table, Kinds, Used, Unused
    <2>3. d \in TaskStates /\ d.at = "next" /\ d.todo \subseteq Used /\ Go(t, d)
      BY <1>4, <2>1, <2>2 DEF TaskStates, List, Used
    <2> HIDE DEF d
    <2> QED
      BY <1>1, <1>2, <1>3, <2>3, LocalState, PushStep
  <1>5. CASE EndTable(t)
    <2>1. PICK d \in TaskStates : d.at \in {"idle", "sales"} /\ Go(t, d)
      BY <1>5, LeaveState DEF EndTable
    <2> QED
      BY <1>1, <1>2, <1>3, <2>1, LocalState, PushStep
  <1> QED
    BY <1>4, <1>5

LEMMA SendKeeps ==
  ASSUME TillInv, NEW t \in Tasks, Send(t)
  PROVE  Kept
  <1>1. task[t].table \in Tables /\ task[t].todo \subseteq Ids /\ task[t].todo \subseteq Used
    BY PushShape DEF Send, TillInv, PushSound
  <1>2. PICK i \in task[t].todo :
           /\ SetStatus(i, "sending")
           /\ Go(t, [at |-> "posted", table |-> task[t].table, id |-> i,
                     todo |-> task[t].todo \ {i}])
    BY DEF Send
  <1> DEFINE d == [at |-> "posted", table |-> task[t].table, id |-> i,
                   todo |-> task[t].todo \ {i}]
  <1>3. /\ d \in TaskStates /\ d.at = "posted" /\ d.todo \subseteq Used /\ d.id \in Used
        /\ Go(t, d)
    BY <1>1, <1>2 DEF TaskStates
  <1>4. RowsKept /\ SyncedOnly({}) /\ Used' = Used
    BY <1>1, <1>2, StatusSet DEF TillInv, Statuses
  <1>5. UNCHANGED <<today, shift, sale, screen, api, steady>>
    BY DEF Send
  <1>6. {} \in SUBSET Used /\ \A j \in {} : Served(j)
    OBVIOUS
  <1> HIDE DEF d
  <1> QED
    BY <1>3, <1>4, <1>5, <1>6, LocalState, PushStep

LEMMA ServePushKeeps ==
  ASSUME TillInv, NEW t \in Tasks, ServePush(t)
  PROVE  Kept
  <1>1. /\ task[t].table \in Tables /\ task[t].todo \subseteq Ids /\ task[t].todo \subseteq Used
        /\ task[t].id \in Ids /\ task[t].id \in Used
    BY PushShape DEF ServePush, TillInv, PushSound
  <1>2. PICK i \in Used : i = task[t].id
    BY <1>1
  <1>3. PICK ok \in BOOLEAN :
           /\ Serve(i, ok)
           /\ Go(t, [at |-> "answered", table |-> task[t].table, id |-> i,
                     todo |-> task[t].todo, ok |-> ok])
    BY <1>2 DEF ServePush
  <1>4. UNCHANGED <<today, row, shift, sale, screen, steady>>
    BY DEF ServePush, till
  <1>5. RowsKept /\ Used' = Used /\ ServerGrows /\ (ok => Served(i)')
    BY <1>3, <1>4, RowsAlone, ServeEffect DEF TillInv
  <1> DEFINE d == [at |-> "answered", table |-> task[t].table, id |-> i,
                   todo |-> task[t].todo, ok |-> ok]
  <1>6. /\ d \in TaskStates /\ Go(t, d)
        /\ d.at = "answered" /\ d.todo \subseteq Used /\ d.id = i /\ d.ok = ok
    BY <1>1, <1>2, <1>3 DEF TaskStates
  <1> HIDE DEF d
  <1>7. /\ task' \in [Tasks -> TaskStates] /\ task'[t] = d
        /\ \A u \in Tasks \ {t} : PushSound(u)'
    BY <1>5, <1>6, PushMoves
  <1>8. PushSound(t)'
    BY <1>5, <1>6, <1>7 DEF PushSound
  <1>9. screen' \in ScreenStates /\ ScreenSound'
    BY <1>4, <1>5, BystandersSound DEF TillInv, TypeOK
  <1>10. \A u \in Tasks : PushSound(u)'
    BY <1>7, <1>8
  <1> QED
    BY <1>3, <1>4, <1>7, <1>9, <1>10, ServeStep

LEMMA AnsweredKeeps ==
  ASSUME TillInv, NEW t \in Tasks, Answered(t)
  PROVE  Kept
  <1>1. /\ task[t].table \in Tables /\ task[t].todo \subseteq Ids /\ task[t].todo \subseteq Used
        /\ task[t].id \in Ids /\ task[t].id \in Used
    BY PushShape DEF Answered, TillInv, PushSound
  <1>2. PICK i \in Used : i = task[t].id
    BY <1>1
  <1>3. PICK st \in Statuses : SetStatus(i, st) /\ (st = "synced" => task[t].ok)
    BY <1>2 DEF Answered, Settles, Statuses
  <1>4. st = "synced" => Served(i)
    BY <1>2, <1>3 DEF Answered, TillInv, PushSound
  <1>5. RowsKept /\ Used' = Used
    BY <1>3, StatusSet DEF TillInv
  <1>6. PICK S \in SUBSET Used : SyncedOnly(S) /\ \A j \in S : Served(j)
    BY <1>3, <1>4, Settling DEF TillInv
  <1>7. shift' \in ShiftStates
    BY LocalState DEF Answered, ShiftStates
  <1>8. sale' \in [Sales -> SaleStates] /\ \A s \in Sales : sale'[s].id = sale[s].id
    <2>1. \/ sale' = sale
          \/ sale' = [sale EXCEPT ![row[i].sale].void = i]
      BY <1>2 DEF Answered
    <2>2. i \in Ids
      BY DEF Used
    <2> QED
      BY <2>1, <2>2, LocalState DEF SaleStates
  <1>9. UNCHANGED <<today, screen, api, steady>>
    BY DEF Answered
  <1> DEFINE d == [at |-> "next", table |-> task[t].table, todo |-> task[t].todo]
  <1>10. d \in TaskStates /\ d.at = "next" /\ d.todo \subseteq Used /\ Go(t, d)
    BY <1>1 DEF TaskStates, Answered
  <1> HIDE DEF d
  <1> QED
    BY <1>5, <1>6, <1>7, <1>8, <1>9, <1>10, PushStep

LEMMA LostKeeps ==
  ASSUME TillInv, NEW t \in Tasks, Lost(t)
  PROVE  Kept
  <1>1. task[t].id \in Used
    BY DEF Lost, TillInv, PushSound
  <1>2. PICK i \in Used : SetStatus(i, "queued")
    BY <1>1 DEF Lost
  <1>3. RowsKept /\ SyncedOnly({}) /\ Used' = Used
    BY <1>2, StatusSet DEF TillInv, Statuses
  <1>4. PICK d \in TaskStates : d.at \in {"idle", "sales"} /\ Go(t, d)
    BY LeaveState DEF Lost, Halt
  <1>5. UNCHANGED <<today, shift, sale, screen, api, steady>>
    BY DEF Lost
  <1>6. {} \in SUBSET Used /\ \A j \in {} : Served(j)
    OBVIOUS
  <1> QED
    BY <1>3, <1>4, <1>5, <1>6, LocalState, PushStep

LEMMA PushSaleKeeps ==
  ASSUME TillInv, NEW t \in Tasks, PushSale(t)
  PROVE  Kept
  <1>1. task[t].todo \subseteq Sales
    BY PushShape DEF PushSale, TillInv
  <1>2. PICK s \in task[t].todo, st \in {"queued", "synced", "needs_attention"},
             todo \in SUBSET Sales :
           /\ \/ sale' = [sale EXCEPT ![s].status = st]
              \/ /\ s \in recorded'
                 /\ \E read \in BOOLEAN :
                      sale' = [sale EXCEPT ![s].status = st, ![s].id = @ \/ read]
           /\ recorded' \in {recorded, recorded \union {s}}
           /\ Go(t, [at |-> "sales", todo |-> todo])
    <2>1. PICK s \in task[t].todo :
             \/ /\ recorded' = recorded \union {s}
                /\ \E read \in BOOLEAN :
                     sale' = [sale EXCEPT ![s].status = "synced", ![s].id = @ \/ read]
                /\ Go(t, [at |-> "sales", todo |-> task[t].todo \ {s}])
             \/ /\ sale' = [sale EXCEPT ![s].status = "needs_attention"]
                /\ Go(t, [at |-> "sales", todo |-> task[t].todo \ {s}])
                /\ UNCHANGED recorded
             \/ /\ recorded' \in {recorded, recorded \union {s}}
                /\ sale' = [sale EXCEPT ![s].status = "queued"]
                /\ Go(t, [at |-> "sales", todo |-> {}])
      BY DEF PushSale
    <2>2. task[t].todo \ {s} \in SUBSET Sales /\ {} \in SUBSET Sales
      BY <1>1
    <2> QED
      BY <2>1, <2>2
  <1>3. UNCHANGED <<today, row, shift, screen, voided, server, steady>>
    BY DEF PushSale
  <1>4. /\ sale' \in [Sales -> SaleStates]
        /\ sale'[s].id => sale[s].id \/ s \in recorded'
        /\ \A x \in Sales \ {s} : sale'[x] = sale[x]
    BY <1>1, <1>2, LocalState DEF SaleStates
  <1>5. recorded \subseteq recorded' /\ recorded' \subseteq Sales
    BY <1>1, <1>2 DEF TillInv, TypeOK
  <1>6. IdIsRecorded'
    BY <1>2, <1>4, <1>5 DEF TillInv, IdIsRecorded
  <1>7. ServerGrows
    BY <1>3, <1>5 DEF ServerGrows
  <1>8. RowsKept /\ SyncedOnly({})
    BY <1>3, RowsAlone DEF TillInv
  <1> DEFINE d == [at |-> "sales", todo |-> todo]
  <1>9. d \in TaskStates /\ d.at = "sales" /\ Go(t, d)
    BY <1>2 DEF TaskStates
  <1> HIDE DEF d
  <1>10. /\ task' \in [Tasks -> TaskStates] /\ task'[t] = d
         /\ \A u \in Tasks \ {t} : PushSound(u)'
    BY <1>7, <1>8, <1>9, PushMoves
  <1>11. \A u \in Tasks : PushSound(u)'
    BY <1>9, <1>10 DEF PushSound
  <1>12. ScreenSound'
    BY <1>3, <1>7, <1>8, BystandersSound
  <1>13. /\ today' \in Dates /\ shift' \in ShiftStates /\ voided' \subseteq recorded'
         /\ server' \in [Shifts -> ServerStates] /\ steady' \in BOOLEAN
         /\ screen' \in ScreenStates
    BY <1>3, <1>5, LocalState DEF TillInv, TypeOK, ServerStates
  <1>14. /\ \A j \in Ids \ Used : row'[j] # row[j] => row'[j].status = "queued"
         /\ \A j \in Ids \ Used : row'[j].kind = "void" => row'[j].sale \in recorded
    BY <1>3 DEF Used, Unused
  <1>15. {} \in SUBSET Used /\ \A j \in {} : Served(j)
    OBVIOUS
  <1> QED
    BY <1>4, <1>5, <1>6, <1>7, <1>8, <1>10, <1>11, <1>12, <1>13, <1>14, <1>15, StepKeeps

-----------------------------------------------------------------------------
(* The tab and the link *)

LEMMA TabDiesKeeps ==
  ASSUME TillInv, TabDies
  PROVE  Kept
  <1>1. UNCHANGED <<today, row, shift, sale, api, steady>>
    BY DEF TabDies
  <1>2. RowsKept /\ SyncedOnly({}) /\ Used' = Used
    BY <1>1, RowsAlone DEF TillInv
  <1>3. task' \in [Tasks -> TaskStates] /\ \A t \in Tasks : PushSound(t)'
    BY DEF TabDies, TaskStates, PushSound, Idle
  <1>4. screen' \in ScreenStates /\ ScreenSound'
    BY DEF TabDies, ScreenStates, ScreenSound, Idle
  <1>5. today' \in Dates /\ IdIsRecorded'
    BY <1>1 DEF TillInv, TypeOK, IdIsRecorded, api
  <1>6. {} \in SUBSET Used /\ \A j \in {} : Served(j)
    OBVIOUS
  <1> QED
    BY <1>1, <1>2, <1>3, <1>4, <1>5, <1>6, LocalState, LocalStep

LEMMA StillKeeps ==
  ASSUME TillInv, UNCHANGED <<till, task, api>>, steady' \in BOOLEAN
  PROVE  Kept
  <1>1. TypeOK'
    BY DEF TillInv, TypeOK, till, api, Table
  <1>2. SyncedIsServed' /\ IdIsRecorded'
    BY DEF TillInv, SyncedIsServed, IdIsRecorded, Served, Used, till, api
  <1>3. (\A t \in Tasks : PushSound(t)') /\ ScreenSound'
    BY DEF TillInv, PushSound, ScreenSound, Served, Used, till, api
  <1>4. RowsKept /\ ServerGrows
    BY RowsAlone, ServerAlone DEF TillInv, till
  <1> QED
    BY <1>1, <1>2, <1>3, <1>4 DEF Kept, TillInv

-----------------------------------------------------------------------------
(* The theorems *)

LEMMA InitTill == Init => TillInv
  <1> SUFFICES ASSUME Init PROVE TillInv
    OBVIOUS
  <1>1. Used = {} /\ Table("voids") = {}
    BY DEF Init, Used, Table, Kinds, Unused
  <1>2. row \in [Ids -> Rows]
    BY DEF Init, Rows
  <1>3. today \in Dates /\ 1 \in Dates
    BY ConstantsAssumption DEF Init, Dates
  <1>4. task \in [Tasks -> TaskStates] /\ \A t \in Tasks : PushSound(t)
    BY DEF Init, TaskStates, PushSound, Idle
  <1>5. screen \in ScreenStates /\ ScreenSound
    BY DEF Init, ScreenStates, ScreenSound, Idle
  <1>6. /\ sale \in [Sales -> SaleStates] /\ IdIsRecorded
        /\ server \in [Shifts -> ServerStates]
    BY <1>3 DEF Init, SaleStates, ServerStates, IdIsRecorded
  <1>7. TypeOK
    BY <1>1, <1>2, <1>3, <1>4, <1>5, <1>6 DEF Init, TypeOK, SaleStates, ServerStates
  <1> QED
    BY <1>1, <1>4, <1>5, <1>6, <1>7 DEF TillInv, SyncedIsServed

LEMMA NextKeeps ==
  ASSUME TillInv, [Next]_vars
  PROVE  Kept
  <1>1. CASE Tap
    BY <1>1, TapKeeps, LoadKeeps, RingKeeps, ClockKeeps DEF Tap
  <1>2. CASE Screen \/ ScreenLost
    BY <1>2, StampKeeps, ServeScreenKeeps, ScreenAnsweredKeeps, ClockKeeps DEF Screen
  <1>3. ASSUME NEW t \in Tasks, Begin(t) \/ Step(t) \/ Lost(t)
        PROVE  Kept
    BY <1>3, BeginKeeps, ListKeeps, SendKeeps, ServePushKeeps, AnsweredKeeps, PushSaleKeeps,
       LostKeeps DEF Step
  <1>4. CASE TabDies
    BY <1>4, TabDiesKeeps
  <1>5. CASE Settle
    BY <1>5, StillKeeps DEF Settle
  <1>6. CASE UNCHANGED vars
    <2>1. steady' \in BOOLEAN
      BY <1>6 DEF vars, TillInv, TypeOK
    <2> QED
      BY <1>6, <2>1, StillKeeps DEF vars
  <1> QED
    BY <1>1, <1>2, <1>3, <1>4, <1>5, <1>6 DEF Next

LEMMA AlwaysTill == Spec => []TillInv
  <1>1. TillInv /\ [Next]_vars => TillInv'
    BY NextKeeps DEF Kept
  <1> QED
    BY <1>1, InitTill, PTL DEF Spec

(* Whatever the cashier, the screens, the pushes and the link do, the till, its *)
(* outboxes and the server keep their shape: no void is enqueued of a sale the *)
(* server lacks, so that none is ever answered 404.                            *)
THEOREM TypeCorrect == Spec => []TypeOK
  <1>1. TillInv => TypeOK
    BY DEF TillInv
  <1> QED
    BY <1>1, AlwaysTill, PTL

(* A shift event or void marked synced has had its effect on the server, with  *)
(* any number of overlapping pushes beside the screens' own posts, and tabs    *)
(* that die anywhere.                                                          *)
THEOREM SyncedServed == Spec => []SyncedIsServed
  <1>1. TillInv => SyncedIsServed
    BY DEF TillInv
  <1> QED
    BY <1>1, AlwaysTill, PTL
-----------------------------------------------------------------------------
(* The order of events, with one push at a time *)

Opens(o, n) == row[o].kind = "open" /\ row[o].shift = n
Known(n) == server[n].status # "none"

(* Rows are created in the order of their ids, and a close after its open. *)
CreatedInOrder ==
    /\ \A i, j \in Ids : i < j /\ j \in Used => i \in Used
    /\ shift # NoShift => \E o \in Ids : Opens(o, shift.number)
    /\ \A c \in Ids : row[c].kind = "close" => \E o \in Ids : o < c /\ Opens(o, row[c].shift)

EventsNotParked ==
    \A i \in Used : row[i].status = "needs_attention" => row[i].kind = "void"

(* Row c, which closes shift n, is not posted before its open has been served: *)
(* the open is ahead of it in the list, or the row under way, or is served.    *)
Ahead(t, c, n) ==
    \/ Known(n)
    \/ \E o \in task[t].todo : o < c /\ Opens(o, n)
    \/ task[t].at \in {"posted", "answered"} /\ Opens(task[t].id, n)

(* Of a push: no event is left in flight when it lists them, each close in its *)
(* list has its open ahead, and an event it posts is answered well.            *)
PushOrdered(t) ==
    /\ task[t].at = "list" /\ task[t].table = "events" =>
          \A i \in Table("events") : row[i].status # "sending"
    /\ task[t].at \in {"next", "posted", "answered"} =>
          \A c \in task[t].todo : row[c].kind = "close" => Ahead(t, c, row[c].shift)
    /\ task[t].at = "posted" /\ row[task[t].id].kind = "close" =>
          Known(row[task[t].id].shift)
    /\ task[t].at = "answered" /\ row[task[t].id].kind # "void" => task[t].ok

OrderInv ==
    /\ TillInv
    /\ CreatedInOrder
    /\ EventsNotParked
    /\ \A t \in Tasks : PushOrdered(t)

(* A row that opens or closes a shift does so after a step too. *)
LEMMA RowsSame ==
  ASSUME TillInv, Kept
  PROVE  /\ Used \subseteq Used'
         /\ \A i \in Used : row'[i].kind = row[i].kind
         /\ \A i \in Used : row[i].kind = "close" => row'[i].shift = row[i].shift
         /\ \A i \in Used : \A n : Opens(i, n) <=> Opens(i, n)'
         /\ \A i \in Ids : \A n : Opens(i, n) => i \in Used /\ n \in Shifts
         /\ \A i \in Ids : row[i].kind = "close" => i \in Used /\ row[i].shift \in Shifts
         /\ \A n \in Shifts : Known(n) => Known(n)'
  <1>1. Used \subseteq Used'
    BY ServedKept DEF Kept, TillInv
  <1>2. \A i \in Used : SameRow(i)
    BY DEF Kept, RowsKept
  <1>3. \A n \in Shifts : Known(n) => Known(n)'
    BY DEF Kept, ServerGrows, Known
  <1>4. ASSUME NEW i \in Ids, NEW n, Opens(i, n)
        PROVE  i \in Used /\ n \in Shifts
    BY <1>4, RowShapes DEF Opens, OpenRows, TillInv
  <1>5. ASSUME NEW i \in Ids, row[i].kind = "close"
        PROVE  i \in Used /\ row[i].shift \in Shifts
    BY <1>5, RowShapes DEF CloseRows, TillInv
  <1>6. ASSUME NEW i \in Used, NEW n
        PROVE  Opens(i, n) <=> Opens(i, n)'
    BY <1>2 DEF Opens, SameRow
  <1> QED
    BY <1>1, <1>2, <1>3, <1>4, <1>5, <1>6 DEF SameRow

(* A step that enqueues nothing and opens no shift keeps the order of creation. *)
LEMMA SameCreation ==
  ASSUME OrderInv, Kept, Used' = Used,
         shift' # NoShift => shift # NoShift /\ shift'.number = shift.number
  PROVE  CreatedInOrder'
  <1>1. \A i, j \in Ids : i < j /\ j \in Used' => i \in Used'
    BY DEF OrderInv, CreatedInOrder
  <1>2. ASSUME NEW o \in Ids, NEW n, Opens(o, n)
        PROVE  row'[o].kind = "open" /\ row'[o].shift = n
    BY <1>2, RowsSame DEF OrderInv, Opens
  <1>3. ASSUME shift' # NoShift
        PROVE  \E o \in Ids : row'[o].kind = "open" /\ row'[o].shift = shift'.number
    <2>1. PICK o \in Ids : Opens(o, shift.number)
      BY <1>3 DEF OrderInv, CreatedInOrder
    <2> QED
      BY <1>2, <1>3, <2>1
  <1>4. ASSUME NEW c \in Ids, row'[c].kind = "close"
        PROVE  \E o \in Ids : o < c /\ row'[o].kind = "open" /\ row'[o].shift = row'[c].shift
    <2>1. c \in Used
      BY <1>4 DEF Used, Unused
    <2>2. row[c].kind = "close" /\ row'[c].shift = row[c].shift
      BY <1>4, <2>1, RowsSame DEF OrderInv
    <2>3. PICK o \in Ids : o < c /\ Opens(o, row[c].shift)
      BY <2>2 DEF OrderInv, CreatedInOrder
    <2> QED
      BY <1>2, <2>2, <2>3
  <1> QED
    BY <1>1, <1>3, <1>4 DEF CreatedInOrder, Opens

LEMMA AheadKept ==
  ASSUME OrderInv, Kept, NEW t \in Tasks, task'[t] = task[t], NEW c \in Ids, NEW n \in Shifts,
         Ahead(t, c, n), task[t].at \in {"next", "posted", "answered"}
  PROVE  Ahead(t, c, n)'
  <1>1. \A o \in Used : Opens(o, n) => Opens(o, n)'
    BY RowsSame DEF OrderInv
  <1>2. /\ task[t].todo \subseteq Used
        /\ task[t].at \in {"posted", "answered"} => task[t].id \in Used
    BY DEF OrderInv, TillInv, PushSound
  <1>3. Known(n) => Known(n)'
    BY RowsSame DEF OrderInv
  <1> QED
    BY <1>1, <1>2, <1>3 DEF Ahead, Opens

(* A push that does not move stays in order, if no event is put in flight. *)
LEMMA OthersOrdered ==
  ASSUME OrderInv, Kept, NEW t \in Tasks, task'[t] = task[t],
         \A i \in Ids : row'[i].kind \in {"open", "close"} /\ row'[i].status = "sending" =>
             i \in Used /\ row[i].status = "sending"
  PROVE  PushOrdered(t)'
  <1>1. /\ task[t].at \in {"next", "posted", "answered"} => task[t].todo \subseteq Used
        /\ task[t].at \in {"posted", "answered"} => task[t].id \in Used
        /\ PushOrdered(t)
    BY DEF OrderInv, TillInv, PushSound
  <1>2. ASSUME task[t].at = "list", task[t].table = "events",
               NEW i \in Table("events")', row'[i].status = "sending"
        PROVE  FALSE
    <2>1. i \in Ids /\ row'[i].kind \in {"open", "close"}
      BY DEF Table, Kinds
    <2>2. i \in Used /\ row[i].status = "sending" /\ row[i].kind \in {"open", "close"}
      BY <1>2, <2>1, RowsSame DEF OrderInv
    <2>3. i \in Table("events")
      BY <2>1, <2>2 DEF Table, Kinds
    <2> QED
      BY <1>1, <1>2, <2>2, <2>3 DEF PushOrdered
  <1>3. ASSUME task[t].at \in {"next", "posted", "answered"},
               NEW c \in task[t].todo, row'[c].kind = "close",
               NEW n, n = row'[c].shift
        PROVE  Ahead(t, c, n)'
    <2>1. c \in Used /\ c \in Ids /\ row[c].kind = "close" /\ n = row[c].shift /\ n \in Shifts
      BY <1>1, <1>3, RowsSame DEF OrderInv, Used
    <2>2. Ahead(t, c, n)
      BY <1>1, <1>3, <2>1 DEF PushOrdered
    <2> QED
      BY <1>3, <2>1, <2>2, AheadKept
  <1>4. ASSUME task[t].at = "posted", row'[task[t].id].kind = "close"
        PROVE  server'[row'[task[t].id].shift].status # "none"
    <2>1. PICK c \in Used : c = task[t].id
      BY <1>1, <1>4
    <2>2. c \in Ids /\ row[c].kind = "close" /\ row'[c].shift = row[c].shift
      BY <1>4, <2>1, RowsSame DEF OrderInv, Used
    <2>3. PICK n \in Shifts : n = row[c].shift
      BY <2>2, RowsSame DEF OrderInv
    <2>4. Known(n)
      BY <1>1, <1>4, <2>1, <2>2, <2>3 DEF PushOrdered
    <2> QED
      BY <2>1, <2>2, <2>3, <2>4, RowsSame DEF OrderInv, Known
  <1>5. task[t].at = "answered" /\ row'[task[t].id].kind # "void" => task[t].ok
    BY <1>1, RowsSame DEF OrderInv, PushOrdered
  <1>6. task[t].at \in {"next", "posted", "answered"} =>
           \A c \in task[t].todo : row'[c].kind = "close" =>
              \/ server'[row'[c].shift].status # "none"
              \/ \E o \in task[t].todo :
                    o < c /\ row'[o].kind = "open" /\ row'[o].shift = row'[c].shift
              \/ /\ task[t].at \in {"posted", "answered"}
                 /\ row'[task[t].id].kind = "open" /\ row'[task[t].id].shift = row'[c].shift
    BY <1>3 DEF Ahead, Known, Opens
  <1> QED
    BY <1>2, <1>4, <1>5, <1>6 DEF PushOrdered, Ahead, Known, Opens

(* A step that enqueues nothing and leaves the pushes alone. *)
LEMMA StillOrdered ==
  ASSUME OrderInv, Kept, Used' = Used, UNCHANGED task,
         shift' # NoShift => shift # NoShift /\ shift'.number = shift.number,
         \A i \in Used : row'[i].kind \in {"open", "close"} => row'[i].status = row[i].status
  PROVE  OrderInv'
  <1>1. CreatedInOrder'
    BY SameCreation
  <1>2. EventsNotParked'
    <2> SUFFICES ASSUME NEW i \in Used, row'[i].status = "needs_attention",
                        row'[i].kind # "void"
                 PROVE  FALSE
      BY DEF EventsNotParked
    <2>1. row[i].kind \in {"open", "close"} /\ row'[i].kind = row[i].kind
      BY RowShapes, RowsSame DEF OrderInv, TillInv, Used
    <2> QED
      BY <2>1 DEF OrderInv, EventsNotParked
  <1>3. \A t \in Tasks : PushOrdered(t)'
    <2>1. \A i \in Ids : row'[i].kind \in {"open", "close"} /\ row'[i].status = "sending" =>
             i \in Used /\ row[i].status = "sending"
      BY DEF Used, Unused
    <2> QED
      BY <2>1, OthersOrdered
  <1> QED
    BY <1>1, <1>2, <1>3 DEF Kept, OrderInv

LEMMA PutOrdered ==
  ASSUME OrderInv, Kept, NEW r \in Rows, r # Unused, r.status = "queued", Put(r),
         r.kind = "close" => \E o \in Ids : Opens(o, r.shift)
  PROVE  OrderInv'
  <1>1. PICK i \in Ids \ Used : /\ \A j \in Ids \ Used : i <= j
                               /\ row' = [row EXCEPT ![i] = r]
    BY DEF Put
  <1>2. row'[i] = r /\ \A j \in Ids \ {i} : row'[j] = row[j]
    BY <1>1 DEF OrderInv, TillInv, TypeOK
  <1>3. Used' = Used \union {i} /\ Ids \subseteq Nat
    BY <1>1, <1>2 DEF Used, Ids
  <1>4. \A j, k \in Ids : j < k /\ k \in Used' => j \in Used'
    BY <1>1, <1>3 DEF OrderInv, CreatedInOrder
  <1>5. ASSUME NEW o \in Ids, NEW n, Opens(o, n)
        PROVE  row'[o].kind = "open" /\ row'[o].shift = n /\ o < i
    <2>1. o \in Used
      BY <1>5, RowsSame DEF OrderInv
    <2>2. o # i /\ ~(i < o)
      BY <1>1, <2>1 DEF OrderInv, CreatedInOrder
    <2>3. o < i
      BY <1>1, <1>3, <2>2
    <2> QED
      BY <1>2, <1>5, <2>2, <2>3 DEF Opens
  <1>6. CreatedInOrder'
    <2>1. ASSUME NEW c \in Ids, row'[c].kind = "close"
          PROVE  \E o \in Ids : o < c /\ row'[o].kind = "open" /\ row'[o].shift = row'[c].shift
      <3>1. CASE c = i
        BY <1>2, <1>5, <2>1, <3>1
      <3>2. CASE c # i
        BY <1>2, <1>5, <2>1, <3>2 DEF OrderInv, CreatedInOrder
      <3> QED
        BY <3>1, <3>2
    <2>2. shift' # NoShift =>
            \E o \in Ids : row'[o].kind = "open" /\ row'[o].shift = shift'.number
      BY <1>5 DEF Put, OrderInv, CreatedInOrder
    <2> QED
      BY <1>4, <2>1, <2>2 DEF CreatedInOrder, Opens
  <1>7. EventsNotParked'
    BY <1>2, <1>3 DEF OrderInv, EventsNotParked, Used
  <1>8. \A t \in Tasks : PushOrdered(t)'
    <2>1. \A j \in Ids : row'[j].kind \in {"open", "close"} /\ row'[j].status = "sending" =>
             j \in Used /\ row[j].status = "sending"
      BY <1>2 DEF Used, Unused
    <2> QED
      BY <2>1, OthersOrdered DEF Put
  <1> QED
    BY <1>6, <1>7, <1>8 DEF Kept, OrderInv

LEMMA TapOrdered ==
  ASSUME OrderInv, Kept, Tap
  PROVE  OrderInv'
  <1>1. CASE TapOpen
    <2>1. PICK n \in Shifts :
             Put([kind |-> "open", shift |-> n, date |-> today, status |-> "queued"])
      BY <1>1 DEF TapOpen
    <2> DEFINE r == [kind |-> "open", shift |-> n, date |-> today, status |-> "queued"]
    <2>2. r \in Rows /\ r # Unused /\ r.status = "queued" /\ r.kind = "open"
      BY DEF Rows, Unused, Statuses, OrderInv, TillInv, TypeOK
    <2>3. Put(r)
      BY <2>1
    <2> HIDE DEF r
    <2> QED
      BY <2>2, <2>3, PutOrdered
  <1>2. CASE TapClose
    <2> DEFINE r == [kind |-> "close", shift |-> shift.number, shown |-> ShownAtClose,
                     status |-> "queued"]
    <2>1. shift # NoShift /\ shift.number \in Shifts
      BY <1>2 DEF TapClose, Current, OrderInv, TillInv, TypeOK
    <2>2. r \in Rows /\ r # Unused /\ r.status = "queued" /\ r.shift = shift.number
      BY <2>1 DEF Rows, Unused, Statuses, ShownAtClose, WithStatus
    <2>3. Put(r)
      BY <1>2 DEF TapClose
    <2>4. \E o \in Ids : Opens(o, r.shift)
      BY <2>1, <2>2 DEF OrderInv, CreatedInOrder
    <2> HIDE DEF r
    <2> QED
      BY <2>2, <2>3, <2>4, PutOrdered
  <1>3. CASE \E pin \in BOOLEAN : TapVoid(pin)
    <2>1. PICK pin \in BOOLEAN : TapVoid(pin)
      BY <1>3
    <2>2. screen.sale \in Sales
      BY <2>1 DEF TapVoid, OrderInv, TillInv, TypeOK, ScreenSound
    <2> DEFINE r == [kind |-> "void", sale |-> screen.sale, pin |-> pin, status |-> "queued"]
    <2>3. r \in Rows /\ r # Unused /\ r.status = "queued" /\ r.kind = "void"
      BY <2>2 DEF Rows, Unused, Statuses
    <2>4. Put(r)
      BY <2>1 DEF TapVoid
    <2> HIDE DEF r
    <2> QED
      BY <2>3, <2>4, PutOrdered
  <1>4. CASE \/ Midnight \/ LeaveScreen
             \/ \E s \in Sales : LoadVoid(s) \/ Ring(s) \/ AdminRetry(s) \/ Hydrate(s)
    <2>1. UNCHANGED <<row, shift, task>>
      BY <1>4 DEF Midnight, LeaveScreen, LoadVoid, Ring, AdminRetry, Hydrate
    <2>2. Used' = Used
      BY <2>1 DEF Used
    <2> QED
      BY <2>1, <2>2, StillOrdered
  <1> QED
    BY <1>1, <1>2, <1>3, <1>4 DEF Tap

LEMMA ScreenOrdered ==
  ASSUME OrderInv, Kept, Screen \/ ScreenLost
  PROVE  OrderInv'
  <1>1. CASE Stamp
    <2>1. UNCHANGED <<row, task>> /\ Used' = Used
      BY <1>1 DEF Stamp, Used
    <2>2. screen.id \in Ids
      BY <1>1, ScreenShape DEF Stamp, OrderInv, TillInv
    <2>3. CASE row[screen.id].kind = "open"
      <3>1. shift' = [number |-> row[screen.id].shift, date |-> row[screen.id].date,
                      closed |-> FALSE]
        BY <1>1, <2>3 DEF Stamp
      <3>2. \E o \in Ids : row'[o].kind = "open" /\ row'[o].shift = shift'.number
        BY <2>1, <2>2, <2>3, <3>1
      <3>3. CreatedInOrder'
        BY <2>1, <3>2 DEF OrderInv, CreatedInOrder, Opens
      <3>4. EventsNotParked'
        BY <2>1 DEF OrderInv, EventsNotParked
      <3>5. \A t \in Tasks : PushOrdered(t)'
        <4>1. \A i \in Ids : row'[i].kind \in {"open", "close"} /\ row'[i].status = "sending" =>
                 i \in Used /\ row[i].status = "sending"
          BY <2>1 DEF Used, Unused
        <4> QED
          BY <2>1, <4>1, OthersOrdered
      <3> QED
        BY <3>3, <3>4, <3>5 DEF Kept, OrderInv
    <2>4. CASE row[screen.id].kind # "open"
      <3>1. shift' # NoShift => shift # NoShift /\ shift'.number = shift.number
        <4>1. \/ shift' = shift
              \/ shift # NoShift /\ shift' = [shift EXCEPT !.closed = TRUE]
          BY <1>1, <2>4 DEF Stamp
        <4>2. shift # NoShift => shift \in [number : Shifts, date : Dates, closed : BOOLEAN]
          BY DEF OrderInv, TillInv, TypeOK
        <4> QED
          BY <4>1, <4>2
      <3> QED
        BY <2>1, <3>1, StillOrdered
    <2> QED
      BY <2>3, <2>4
  <1>2. CASE ServeScreen \/ ScreenLost
    <2>1. UNCHANGED <<row, shift, task>>
      BY <1>2 DEF ServeScreen, ScreenLost
    <2>2. Used' = Used
      BY <2>1 DEF Used
    <2> QED
      BY <2>1, <2>2, StillOrdered
  <1>3. CASE ScreenAnswered
    <2>1. screen.id \in Ids /\ screen.id \in Used /\ UNCHANGED <<shift, task>>
      BY <1>3, ScreenShape DEF ScreenAnswered, OrderInv, TillInv, ScreenSound
    <2>2. PICK i \in Used : i = screen.id
      BY <2>1
    <2>3. CASE row[i].kind # "void"
      <3>1. UNCHANGED row /\ Used' = Used
        BY <1>3, <2>2, <2>3 DEF ScreenAnswered, Used
      <3> QED
        BY <2>1, <3>1, StillOrdered
    <2>4. CASE row[i].kind = "void"
      <3>1. PICK st \in Statuses : SetStatus(i, st)
        BY <1>3, <2>2, <2>4 DEF ScreenAnswered, Statuses
      <3>2. Used' = Used
        BY <3>1, StatusSet DEF OrderInv, TillInv
      <3>3. \A j \in Used : row'[j].kind \in {"open", "close"} => row'[j].status = row[j].status
        BY <2>4, <3>1, RowsSame DEF OrderInv, SetStatus, TillInv, TypeOK, Used
      <3> QED
        BY <2>1, <3>2, <3>3, StillOrdered
    <2> QED
      BY <2>3, <2>4
  <1> QED
    BY <1>1, <1>2, <1>3 DEF Screen

LEMMA TabOrdered ==
  ASSUME OrderInv, Kept, TabDies \/ Settle \/ UNCHANGED vars
  PROVE  OrderInv'
  <1>1. UNCHANGED <<row, shift>> /\ Used' = Used
    BY DEF TabDies, Settle, till, vars, Used
  <1>2. CASE UNCHANGED task
    BY <1>1, <1>2, StillOrdered
  <1>3. CASE TabDies
    <2>1. CreatedInOrder'
      BY <1>1, SameCreation
    <2>2. EventsNotParked'
      BY <1>1 DEF OrderInv, EventsNotParked
    <2>3. \A t \in Tasks : PushOrdered(t)'
      BY <1>3 DEF TabDies, PushOrdered, Idle
    <2> QED
      BY <2>1, <2>2, <2>3 DEF Kept, OrderInv
  <1> QED
    BY <1>2, <1>3 DEF Settle, vars

(* A step of the only push. *)
LEMMA OnlyPush ==
  ASSUME Pushes = {}, OrderInv, Kept, NEW t \in Tasks, PushOrdered(t)', Used' = Used,
         shift' \in {shift, NoShift},
         \A i \in Used : row'[i].status = "needs_attention" =>
             row[i].status = "needs_attention" \/ row[i].kind = "void"
  PROVE  OrderInv'
  <1>1. CreatedInOrder'
    BY SameCreation
  <1>2. EventsNotParked'
    BY RowsSame DEF OrderInv, EventsNotParked
  <1>3. \A u \in Tasks : PushOrdered(u)'
    BY DEF Tasks
  <1> QED
    BY <1>1, <1>2, <1>3 DEF Kept, OrderInv

LEMMA BeginOrdered ==
  ASSUME Pushes = {}, OrderInv, Kept, NEW t \in Tasks, Begin(t) \/ BeginVoids(t)
  PROVE  OrderInv'
  <1>1. PICK table \in Tables :
           row' = Reset(table) /\ task'[t] = [at |-> "list", table |-> table]
    BY DEF Begin, BeginVoids, Tables, Go, OrderInv, TillInv, TypeOK
  <1>2. Used' = Used
    BY <1>1, ResetKeeps DEF OrderInv, TillInv
  <1>3. ASSUME NEW i \in Used
        PROVE  /\ row'[i].status # row[i].status => row'[i].status = "queued"
               /\ i \in Table(table) => row'[i].status # "sending"
    <2>1. i \in Ids /\ row[i] \in OpenRows \union CloseRows \union VoidRows
      BY RowShapes DEF Used, OrderInv, TillInv
    <2>2. [row[i] EXCEPT !.status = "queued"].status = "queued"
      BY <2>1, StatusOfRow DEF Statuses
    <2> QED
      BY <1>1, <2>1, <2>2 DEF Reset
  <1>4. PushOrdered(t)'
    <2>1. ASSUME table = "events", NEW i \in Ids, row'[i].kind \in {"open", "close"}
          PROVE  row'[i].status # "sending"
      <3>1. i \in Used
        BY <1>2, <2>1 DEF Used, Unused
      <3>2. i \in Table(table)
        BY <2>1, <3>1, RowsSame DEF Table, Kinds, OrderInv
      <3> QED
        BY <1>3, <3>1, <3>2
    <2> QED
      BY <1>1, <2>1 DEF PushOrdered, Table, Kinds
  <1>5. shift' \in {shift, NoShift}
    BY DEF Begin, BeginVoids
  <1> QED
    BY <1>2, <1>3, <1>4, <1>5, OnlyPush

LEMMA ListOrdered ==
  ASSUME Pushes = {}, OrderInv, Kept, NEW t \in Tasks, List(t)
  PROVE  OrderInv'
  <1>1. UNCHANGED <<row, shift, server>> /\ Used' = Used
    BY DEF List, till, api, Used
  <1> DEFINE todo == Drainable(task[t].table)
  <1>2. task'[t] = [at |-> "next", table |-> task[t].table, todo |-> todo]
    BY DEF List, Go, OrderInv, TillInv, TypeOK
  <1>3. ASSUME NEW c \in todo, row[c].kind = "close"
        PROVE  \/ Known(row[c].shift)
               \/ \E o \in todo : o < c /\ Opens(o, row[c].shift)
    <2>1. c \in Ids /\ task[t].table = "events"
      BY <1>3, PushShape DEF Drainable, Table, Kinds, List, OrderInv, TillInv, Tables
    <2>2. PICK o \in Ids : o < c /\ Opens(o, row[c].shift)
      BY <1>3, <2>1 DEF OrderInv, CreatedInOrder
    <2>3. o \in Used /\ row[o].kind = "open" /\ row[o].status \in Statuses /\ o \in Table("events")
      BY <2>2, RowShapes DEF Opens, OrderInv, TillInv, Table, Kinds
    <2>4. row[o].status \in {"queued", "synced"}
      <3>1. row[o].status # "sending"
        BY <2>1, <2>3 DEF List, OrderInv, PushOrdered
      <3>2. row[o].status # "needs_attention"
        BY <2>3 DEF OrderInv, EventsNotParked
      <3> QED
        BY <2>3, <3>1, <3>2 DEF Statuses
    <2>5. CASE row[o].status = "queued"
      BY <2>1, <2>2, <2>3, <2>5 DEF Drainable
    <2>6. CASE row[o].status = "synced"
      <3>1. Served(o)
        BY <2>3, <2>6 DEF OrderInv, TillInv, SyncedIsServed
      <3> QED
        BY <2>2, <2>3, <3>1 DEF Served, Opens, Known
    <2> QED
      BY <2>4, <2>5, <2>6
  <1> HIDE DEF todo
  <1>4. PushOrdered(t)'
    BY <1>1, <1>2, <1>3 DEF PushOrdered, Ahead, Known, Opens
  <1> QED
    BY <1>1, <1>4, OnlyPush

LEMMA SendOrdered ==
  ASSUME Pushes = {}, OrderInv, Kept, NEW t \in Tasks, Send(t)
  PROVE  OrderInv'
  <1>1. task[t].todo \subseteq Used /\ task[t].todo \subseteq Ids /\ PushOrdered(t)
    BY DEF Send, OrderInv, TillInv, PushSound, Used
  <1>2. PICK i \in task[t].todo :
           /\ \A j \in task[t].todo : i <= j
           /\ SetStatus(i, "sending")
           /\ task'[t] = [at |-> "posted", table |-> task[t].table, id |-> i,
                          todo |-> task[t].todo \ {i}]
    BY DEF Send, Go, OrderInv, TillInv, TypeOK
  <1>3. Used' = Used
    BY <1>1, <1>2, StatusSet DEF OrderInv, TillInv, Statuses
  <1>4. \A j \in Used : row'[j].status = "needs_attention" => row[j].status = "needs_attention"
    <2>1. row \in [Ids -> Rows] /\ i \in Ids
      BY <1>1 DEF OrderInv, TillInv, TypeOK
    <2>2. row[i] \in OpenRows \union CloseRows \union VoidRows
      BY <1>1, <2>1, RowShapes DEF OrderInv, TillInv
    <2>3. [row[i] EXCEPT !.status = "sending"].status = "sending"
      BY <2>2, StatusOfRow DEF Statuses
    <2> QED
      BY <1>2, <2>1, <2>3 DEF SetStatus, Used
  <1>5. ASSUME NEW c \in task[t].todo, row'[c].kind = "close"
        PROVE  /\ row[c].kind = "close" /\ row'[c].shift = row[c].shift
               /\ Ahead(t, c, row[c].shift)
    <2>1. row[c].kind = "close" /\ row'[c].shift = row[c].shift
      BY <1>1, <1>5, RowsSame DEF OrderInv
    <2> QED
      BY <1>1, <2>1 DEF PushOrdered, Send
  <1>6. server' = server
    BY DEF Send, api
  <1>7. \A j \in Ids : \A n : Opens(j, n) => row'[j].kind = "open" /\ row'[j].shift = n
    BY RowsSame DEF OrderInv, Opens
  <1>8. ASSUME NEW c \in task[t].todo \ {i}, row'[c].kind = "close"
        PROVE  \/ server'[row'[c].shift].status # "none"
               \/ \E o \in task[t].todo \ {i} :
                     o < c /\ row'[o].kind = "open" /\ row'[o].shift = row'[c].shift
               \/ row'[i].kind = "open" /\ row'[i].shift = row'[c].shift
    BY <1>1, <1>5, <1>6, <1>7, <1>8 DEF Ahead, Known, Send
  <1>9. ASSUME row'[i].kind = "close"
        PROVE  server'[row'[i].shift].status # "none"
    <2>1. Ahead(t, i, row[i].shift) /\ row'[i].shift = row[i].shift
      BY <1>5, <1>9
    <2>2. ~ \E o \in task[t].todo : o < i
      BY <1>1, <1>2 DEF Ids
    <2> QED
      BY <1>6, <2>1, <2>2 DEF Ahead, Known, Send
  <1>10. PushOrdered(t)'
    BY <1>2, <1>8, <1>9 DEF PushOrdered, Ahead, Known, Opens
  <1>11. shift' = shift
    BY DEF Send
  <1> QED
    BY <1>3, <1>4, <1>10, <1>11, OnlyPush

(* The events a push posts in this order are answered well. *)
LEMMA ServeOrdered ==
  ASSUME Pushes = {}, OrderInv, Kept, NEW t \in Tasks, ServePush(t)
  PROVE  OrderInv'
  <1>1. /\ task[t].todo \subseteq Used /\ task[t].todo \subseteq Ids
        /\ task[t].id \in Used /\ PushOrdered(t)
    BY DEF ServePush, OrderInv, TillInv, PushSound, Used
  <1>2. PICK i \in Used : i = task[t].id
    BY <1>1
  <1>3. PICK ok \in BOOLEAN :
           /\ Serve(i, ok)
           /\ task'[t] = [at |-> "answered", table |-> task[t].table, id |-> i,
                          todo |-> task[t].todo, ok |-> ok]
    BY <1>2 DEF ServePush, Go, OrderInv, TillInv, TypeOK
  <1>4. UNCHANGED <<row, shift>> /\ Used' = Used
    BY DEF ServePush, till, Used
  <1>5. row[i].kind # "void" => ok
    BY <1>1, <1>2, <1>3 DEF Serve, ServeOpen, ServeClose, PushOrdered, Known, ServePush
  <1>6. ASSUME NEW c \in task[t].todo, row[c].kind = "close"
        PROVE  \/ server'[row[c].shift].status # "none"
               \/ \E o \in task[t].todo : o < c /\ Opens(o, row[c].shift)
               \/ Opens(i, row[c].shift)
    <2>1. Ahead(t, c, row[c].shift)
      BY <1>1, <1>6 DEF PushOrdered, ServePush
    <2>2. row[c].shift \in Shifts
      BY <1>1, <1>6, RowsSame DEF OrderInv
    <2>3. PICK n \in Shifts : n = row[c].shift
      BY <2>2
    <2>4. Known(n) => server'[n].status # "none"
      BY RowsSame DEF OrderInv, Known
    <2> QED
      BY <1>2, <2>1, <2>3, <2>4 DEF Ahead
  <1>7. PushOrdered(t)'
    BY <1>3, <1>4, <1>5, <1>6 DEF PushOrdered, Ahead, Known, Opens
  <1> QED
    BY <1>4, <1>7, OnlyPush

LEMMA AnsweredOrdered ==
  ASSUME Pushes = {}, OrderInv, Kept, NEW t \in Tasks, Answered(t)
  PROVE  OrderInv'
  <1>1. /\ task[t].todo \subseteq Used /\ task[t].todo \subseteq Ids
        /\ task[t].id \in Used /\ PushOrdered(t) /\ PushSound(t)
    BY DEF Answered, OrderInv, TillInv, PushSound, Used
  <1>2. PICK i \in Used : i = task[t].id
    BY <1>1
  <1>3. PICK st \in Statuses : SetStatus(i, st) /\ (st = "needs_attention" => ~task[t].ok)
    BY <1>2 DEF Answered, Settles, Statuses
  <1>4. Used' = Used
    BY <1>3, StatusSet DEF OrderInv, TillInv
  <1>5. ASSUME NEW j \in Used, row'[j].status = "needs_attention"
        PROVE  row[j].status = "needs_attention" \/ row[j].kind = "void"
    <2>1. row \in [Ids -> Rows] /\ i \in Ids /\ j \in Ids
      BY DEF OrderInv, TillInv, TypeOK, Used
    <2>2. CASE j = i
      <3>1. row[i] \in OpenRows \union CloseRows \union VoidRows
        BY <2>1, RowShapes DEF OrderInv, TillInv
      <3>2. [row[i] EXCEPT !.status = st].status = st
        BY <3>1, StatusOfRow
      <3>3. ~task[t].ok
        BY <1>3, <1>5, <2>1, <2>2, <3>2 DEF SetStatus
      <3> QED
        BY <1>1, <1>2, <2>2, <3>3 DEF PushOrdered, Answered
    <2>3. CASE j # i
      BY <1>3, <1>5, <2>1, <2>3 DEF SetStatus
    <2> QED
      BY <2>2, <2>3
  <1>6. task'[t] = [at |-> "next", table |-> task[t].table, todo |-> task[t].todo]
    BY DEF Answered, Go, OrderInv, TillInv, TypeOK
  <1>7. ASSUME NEW c \in task[t].todo, row'[c].kind = "close"
        PROVE  \/ server'[row'[c].shift].status # "none"
               \/ \E o \in task[t].todo :
                     o < c /\ row'[o].kind = "open" /\ row'[o].shift = row'[c].shift
    <2>1. row[c].kind = "close" /\ row'[c].shift = row[c].shift
      BY <1>1, <1>7, RowsSame DEF OrderInv
    <2>2. PICK n \in Shifts : n = row[c].shift
      BY <1>1, <2>1, RowsSame DEF OrderInv
    <2>3. Ahead(t, c, n)
      BY <1>1, <2>1, <2>2 DEF PushOrdered, Answered
    <2>4. Opens(i, n) => Known(n)
      BY <1>1, <1>2 DEF Opens, PushOrdered, PushSound, Answered, Served, Known
    <2>5. server' = server
      BY DEF Answered, api
    <2>6. \A o \in task[t].todo : Opens(o, n) => row'[o].kind = "open" /\ row'[o].shift = n
      BY <1>1, RowsSame DEF OrderInv, Opens
    <2> QED
      BY <1>2, <2>1, <2>2, <2>3, <2>4, <2>5, <2>6 DEF Ahead, Known
  <1>8. PushOrdered(t)'
    BY <1>6, <1>7 DEF PushOrdered, Ahead, Known, Opens
  <1>9. shift' \in {shift, NoShift}
    BY DEF Answered
  <1> QED
    BY <1>4, <1>5, <1>8, <1>9, OnlyPush

LEMMA LeaveOrdered ==
  ASSUME Pushes = {}, OrderInv, Kept, NEW t \in Tasks,
         EndTable(t) \/ Lost(t) \/ PushSale(t)
  PROVE  OrderInv'
  <1>1. PushOrdered(t)'
    <2>1. task'[t].at \in {"idle", "sales"}
      <3>1. CASE EndTable(t) \/ Lost(t)
        <4>1. PICK d \in TaskStates : d.at \in {"idle", "sales"} /\ Go(t, d)
          BY <3>1, LeaveState DEF EndTable, Lost, Halt, OrderInv
        <4> QED
          BY <4>1 DEF Go, OrderInv, TillInv, TypeOK
      <3>2. CASE PushSale(t)
        BY <3>2 DEF PushSale, Go, OrderInv, TillInv, TypeOK
      <3> QED
        BY <3>1, <3>2
    <2> QED
      BY <2>1 DEF PushOrdered
  <1>2. CASE EndTable(t) \/ PushSale(t)
    <2>1. UNCHANGED <<row, shift>> /\ Used' = Used
      BY <1>2 DEF EndTable, PushSale, till, Used
    <2> QED
      BY <1>1, <2>1, OnlyPush
  <1>3. CASE Lost(t)
    <2>1. PICK i \in Used : SetStatus(i, "queued")
      BY <1>3 DEF Lost, OrderInv, TillInv, PushSound
    <2>2. Used' = Used
      BY <2>1, StatusSet DEF OrderInv, TillInv, Statuses
    <2>3. \A j \in Used : row'[j].status = "needs_attention" => row[j].status = "needs_attention"
      <3>1. row \in [Ids -> Rows] /\ i \in Ids
        BY DEF OrderInv, TillInv, TypeOK, Used
      <3>2. row[i] \in OpenRows \union CloseRows \union VoidRows
        BY <3>1, RowShapes DEF OrderInv, TillInv
      <3>3. [row[i] EXCEPT !.status = "queued"].status = "queued"
        BY <3>2, StatusOfRow DEF Statuses
      <3> QED
        BY <2>1, <3>1, <3>3 DEF SetStatus, Used
    <2>4. shift' = shift
      BY <1>3 DEF Lost
    <2> QED
      BY <1>1, <2>2, <2>3, <2>4, OnlyPush
  <1> QED
    BY <1>2, <1>3

LEMMA InitOrder == Init => OrderInv
  <1> SUFFICES ASSUME Init PROVE OrderInv
    OBVIOUS
  <1>1. \A i \in Ids : i \notin Used /\ row[i].kind = "unused"
    BY DEF Init, Used, Unused
  <1>2. CreatedInOrder /\ EventsNotParked
    BY <1>1 DEF Init, CreatedInOrder, EventsNotParked, Used
  <1>3. \A t \in Tasks : PushOrdered(t)
    BY DEF Init, PushOrdered, Idle
  <1> QED
    BY <1>2, <1>3, InitTill DEF OrderInv

LEMMA NextOrder ==
  ASSUME Pushes = {}
  PROVE  OrderInv /\ [Next]_vars => OrderInv'
  <1> SUFFICES ASSUME OrderInv, [Next]_vars PROVE OrderInv'
    OBVIOUS
  <1>1. Kept
    BY NextKeeps DEF OrderInv
  <1>2. ASSUME NEW t \in Tasks, Begin(t) \/ Step(t) \/ Lost(t)
        PROVE  OrderInv'
    BY <1>1, <1>2, BeginOrdered, ListOrdered, SendOrdered, ServeOrdered, AnsweredOrdered,
       LeaveOrdered DEF Step
  <1> QED
    BY <1>1, <1>2, TapOrdered, ScreenOrdered, TabOrdered DEF Next

(* With one push at a time, and the screens' own posts beside it, no close is  *)
(* ever parked: the drain posts the events in the order they were made, stops  *)
(* at the first that is lost and begins again from there, so that the server   *)
(* knows the shift of every close it is sent.                                  *)
THEOREM ClosesDelivered ==
  ASSUME Pushes = {}
  PROVE  Spec => []CloseNeverParked
  <1>1. OrderInv => CloseNeverParked
    BY RowShapes DEF OrderInv, TillInv, EventsNotParked, CloseNeverParked
  <1> QED
    BY <1>1, InitOrder, NextOrder, PTL DEF Spec
==============================================================================

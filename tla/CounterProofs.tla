----------------------------- MODULE CounterProofs -----------------------------
(***************************************************************************)
(* Theorems about DayClose, for any sales, shifts and closes of the day,   *)
(* and whether or not handlers interleave.                                 *)
(***************************************************************************)
EXTENDS DayClose, Counter, ReceiptPrint, Sums

-----------------------------------------------------------------------------
(* The inductive invariant *)

SaleRows == [status : {"pending", "synced", "aside"}, kind : Kinds \ Probes]
BookRows == [kind : Kinds, voided : BOOLEAN]
ShiftRows == [status : {"none", "open", "closed"}, counted : SUBSET Sales]

Posted == [at : {"posted"}, ids : SUBSET Sales, count : Counts, reason : BOOLEAN]
InHand == [at : {"checked", "balanced"}, probes : SUBSET Sales, record : Records]
Accepted == [at : {"replied"}, code : {"closed"}, record : Records]
Mismatched == [at : {"replied"}, code : {"mismatch"}, missing : SUBSET Sales]
Refused == [at : {"replied"},
            code : {"already_closed", "variance_reason_required", "error"}]

(* What a handler holds stays true until it writes it: sales are never        *)
(* forgotten by the server, and a balanced probe is never balanced again.     *)
InHandSound(r) ==
    /\ req[r].at \in {"checked", "balanced"} => req[r].record.ids \subseteq Recorded
    /\ req[r].at = "balanced" => \A s \in req[r].probes : balanced[s] = 1

(* A close that was answered with a record was answered with the day's.       *)
AnswerSound(r) ==
    req[r].at = "replied" /\ req[r].code = "closed" => eod = req[r].record

(* A close asks about rows of the till, and is told about rows of the till.   *)
AskSound(r) ==
    /\ req[r].at = "posted" => req[r].ids \subseteq Rung
    /\ req[r].at = "replied" /\ req[r].code = "mismatch" => req[r].missing \subseteq Rung

DayInv ==
    /\ TypeOK
    /\ ClosedHoldsTill
    /\ ClosureIsRecord
    /\ BalancedOnce
    /\ \A r \in Requests : InHandSound(r) /\ AnswerSound(r) /\ AskSound(r)

(* A request of which nothing is left to keep but what it asks or is told. *)
Bare(r) ==
    /\ req[r].at \notin {"checked", "balanced"}
    /\ req[r].at = "replied" => req[r].code # "closed"
    /\ AskSound(r)

-----------------------------------------------------------------------------
(* Shapes *)

LEMMA ReqShapes ==
  ASSUME TypeOK, NEW r \in Requests
  PROVE  /\ req[r] \in ReqStates
         /\ req[r].at = "posted" => req[r] \in Posted
         /\ req[r].at \in {"checked", "balanced"} => req[r] \in InHand
         /\ req[r].at = "replied" => req[r] \in Accepted \union Mismatched \union Refused
         /\ req[r].at = "replied" /\ req[r].code = "closed" => req[r] \in Accepted
         /\ req[r].at = "replied" /\ req[r].code = "mismatch" => req[r] \in Mismatched
  <1>1. req[r] \in ReqStates
    BY DEF TypeOK
  <1>2. \/ req[r] = Idle \/ req[r] \in Posted \/ req[r] \in InHand
        \/ req[r] \in Accepted \/ req[r] \in Mismatched \/ req[r] \in Refused
    BY <1>1 DEF ReqStates, Posted, InHand, Accepted, Mismatched, Refused
  <1>3. /\ Idle.at = "idle"
        /\ \A q \in Posted : q.at = "posted"
        /\ \A q \in InHand : q.at \in {"checked", "balanced"}
        /\ \A q \in Accepted : q.at = "replied" /\ q.code = "closed"
        /\ \A q \in Mismatched : q.at = "replied" /\ q.code = "mismatch"
        /\ \A q \in Refused : q.at = "replied" /\ q.code \notin {"closed", "mismatch"}
    BY DEF Idle, Posted, InHand, Accepted, Mismatched, Refused
  <1> QED
    BY <1>1, <1>2, <1>3

LEMMA RecordShape ==
  ASSUME NEW rec \in Records
  PROVE  /\ rec.closed = TRUE
         /\ rec.ids \subseteq Sales
         /\ rec # NotClosed
  <1>1. rec.closed = TRUE /\ rec.ids \subseteq Sales
    BY DEF Records
  <1>2. NotClosed.closed = FALSE
    BY DEF NotClosed
  <1> QED
    BY <1>1, <1>2

(* The rows after a status is set, and after one is added. *)
LEMMA StatusSet ==
  ASSUME TypeOK, NEW s \in Rung, NEW st \in {"pending", "synced", "aside"},
         SetStatus(s, st)
  PROVE  Rung' = Rung /\ sale' \in [Rung' -> SaleRows]
  <1>1. sale \in [Rung -> SaleRows]
    BY DEF TypeOK, SaleRows
  <1>2. sale' = [sale EXCEPT ![s] = [sale[s] EXCEPT !.status = st]]
    BY DEF SetStatus
  <1>3. [sale[s] EXCEPT !.status = st] \in SaleRows
    BY <1>1 DEF SaleRows
  <1> QED
    BY <1>1, <1>2, <1>3 DEF Rung

LEMMA Added ==
  ASSUME NEW f, NEW R, f \in [DOMAIN f -> R], NEW x, NEW v \in R
  PROVE  /\ DOMAIN With(f, x, v) = DOMAIN f \union {x}
         /\ With(f, x, v) \in [DOMAIN f \union {x} -> R]
  BY DEF With

(* A reply is there for whoever listens. *)
LEMMA Replied ==
  ASSUME TypeOK, NEW r \in Requests, NEW reply, Reply(r, reply),
         reply \in Accepted \union Mismatched \union Refused,
         UNCHANGED listens
  PROVE  /\ req' \in [Requests -> ReqStates]
         /\ \A q \in Requests : req'[q].at = "replied" => q \in listens'
         /\ \A q \in Requests \ {r} : req'[q] = req[q]
         /\ req'[r] \in {reply, Idle}
  <1>1. reply \in ReqStates /\ Idle \in ReqStates
    BY DEF ReqStates, Accepted, Mismatched, Refused
  <1>2. req \in [Requests -> ReqStates]
    BY DEF TypeOK
  <1>3. req' \in [Requests -> ReqStates]
    BY <1>1, <1>2 DEF Reply
  <1>4. /\ \A q \in Requests \ {r} : req'[q] = req[q]
        /\ req'[r] = IF r \in listens THEN reply ELSE Idle
    BY <1>2 DEF Reply
  <1>5. Idle.at # "replied"
    BY DEF Idle
  <1>6. \A q \in Requests : req[q].at = "replied" => q \in listens
    BY DEF TypeOK
  <1>7. \A q \in Requests : req'[q].at = "replied" => q \in listens'
    BY <1>4, <1>5, <1>6
  <1> QED
    BY <1>3, <1>4, <1>7

(* Replying with anything but a record leaves nothing to keep. *)
LEMMA RepliedBare ==
  ASSUME TypeOK, NEW r \in Requests, NEW reply \in Mismatched \union Refused,
         Reply(r, reply), UNCHANGED listens, Rung' = Rung,
         reply.code = "mismatch" => reply.missing \subseteq Rung
  PROVE  /\ req' \in [Requests -> ReqStates]
         /\ \A q \in Requests : req'[q].at = "replied" => q \in listens'
         /\ \A q \in Requests : req'[q] = req[q] \/ Bare(q)'
  <1>1. /\ req' \in [Requests -> ReqStates]
        /\ \A q \in Requests : req'[q].at = "replied" => q \in listens'
        /\ \A q \in Requests \ {r} : req'[q] = req[q]
        /\ req'[r] \in {reply, Idle}
    BY Replied
  <1>2. reply.at = "replied" /\ reply.code # "closed"
    BY DEF Mismatched, Refused
  <1>3. Bare(r)'
    BY <1>1, <1>2 DEF Bare, Idle, AskSound
  <1> QED
    BY <1>1, <1>3

-----------------------------------------------------------------------------
(* A step that writes neither record, balance nor closure, and forgets no sale, *)
(* keeps the invariant if it keeps the types.                                   *)
LEMMA StillSound ==
  ASSUME DayInv, TypeOK', Recorded \subseteq Recorded', Rung \subseteq Rung',
         UNCHANGED <<closure, balanced, eod>>,
         \A r \in Requests : req'[r] = req[r] \/ Bare(r)'
  PROVE  DayInv'
  <1>1. ClosedHoldsTill' /\ ClosureIsRecord' /\ BalancedOnce'
    BY DEF DayInv, ClosedHoldsTill, ClosureIsRecord, BalancedOnce, Closed
  <1>2. ASSUME NEW r \in Requests
        PROVE  InHandSound(r)' /\ AnswerSound(r)' /\ AskSound(r)'
    <2>1. CASE Bare(r)'
      BY <2>1 DEF Bare, InHandSound, AnswerSound, AskSound
    <2>2. CASE req'[r] = req[r]
      BY <2>2 DEF DayInv, InHandSound, AnswerSound, AskSound
    <2> QED
      BY <2>1, <2>2
  <1> QED
    BY <1>1, <1>2 DEF DayInv

LEMMA SetRow ==
  ASSUME DayInv, NEW s \in Rung, NEW st \in {"pending", "synced", "aside"},
         SetStatus(s, st), UNCHANGED <<closure, api, req, listens>>,
         screen' \in ScreenStates,
         screen'.at = "mismatch" => screen'.missing \subseteq Rung
  PROVE  DayInv'
  <1>1. TypeOK
    BY DEF DayInv
  <1>2. Rung' = Rung /\ sale' \in [Rung' -> SaleRows]
    BY <1>1, StatusSet
  <1>3. TypeOK'
    BY <1>1, <1>2 DEF TypeOK, SaleRows, api, Recorded
  <1> QED
    BY <1>2, <1>3, StillSound DEF api, Recorded

LEMMA AddRow ==
  ASSUME DayInv, NEW s \in Sales, NEW v \in SaleRows,
         sale' = With(sale, s, v), UNCHANGED <<screen, closure, api, req, listens>>
  PROVE  DayInv'
  <1>1. TypeOK
    BY DEF DayInv
  <1>2. Rung' = Rung \union {s} /\ sale' \in [Rung' -> SaleRows]
    <2>1. sale \in [DOMAIN sale -> SaleRows]
      BY <1>1 DEF TypeOK, SaleRows, Rung
    <2>2. /\ DOMAIN With(sale, s, v) = DOMAIN sale \union {s}
          /\ With(sale, s, v) \in [DOMAIN sale \union {s} -> SaleRows]
      BY <2>1, Added
    <2> QED
      BY <2>2 DEF Rung
  <1>3. TypeOK'
    BY <1>1, <1>2 DEF TypeOK, SaleRows, api, Recorded
  <1> QED
    BY <1>2, <1>3, StillSound DEF api, Recorded

(* The book after a sale is added to it. *)
LEMMA BookAdded ==
  ASSUME TypeOK, NEW s \in Sales, NEW v \in BookRows, book' = With(book, s, v)
  PROVE  /\ Recorded \subseteq Recorded' /\ Recorded' \subseteq Sales
         /\ book' \in [Recorded' -> BookRows]
  <1>1. book \in [DOMAIN book -> BookRows] /\ DOMAIN book \subseteq Sales
    BY DEF TypeOK, BookRows, Recorded
  <1>2. /\ DOMAIN With(book, s, v) = DOMAIN book \union {s}
        /\ With(book, s, v) \in [DOMAIN book \union {s} -> BookRows]
    BY <1>1, Added
  <1> QED
    BY <1>1, <1>2 DEF Recorded

(* A write to the book which keeps what is there, and nothing else of the server. *)
LEMMA BookKeeps ==
  ASSUME DayInv, UNCHANGED <<screen, closure, balanced, shift, eod, req, listens>>,
         Rung' = Rung, sale' \in [Rung' -> SaleRows],
         Recorded \subseteq Recorded', Recorded' \subseteq Sales,
         book' \in [Recorded' -> BookRows]
  PROVE  DayInv'
  <1>1. TypeOK
    BY DEF DayInv
  <1>2. TypeOK'
    BY <1>1 DEF TypeOK, SaleRows, BookRows
  <1> QED
    BY <1>2, StillSound

LEMMA LeaveKeeps ==
  ASSUME DayInv, Leave
  PROVE  DayInv'
  <1>1. TypeOK
    BY DEF DayInv
  <1>2. Idle \in ScreenStates /\ Idle.at # "mismatch"
    BY DEF ScreenStates, Idle
  <1>3. TypeOK'
    BY <1>1, <1>2 DEF Leave, TypeOK, api, Rung, Recorded
  <1> QED
    BY <1>3, StillSound DEF Leave, api, Recorded, Rung

LEMMA TillKeeps ==
  ASSUME DayInv, NEW s \in Sales, Till(s)
  PROVE  DayInv'
  <1>0. TypeOK /\ sale \in [Rung -> SaleRows] /\ book \in [Recorded -> BookRows]
    BY DEF DayInv, TypeOK, SaleRows, BookRows
  <1>1. ASSUME NEW k \in Kinds, Ring(s, k)
        PROVE  DayInv'
    <2>1. [status |-> "pending", kind |-> k] \in SaleRows
      BY <1>1 DEF Ring, SaleRows
    <2> QED
      BY <1>1, <2>1, AddRow DEF Ring
  <1>2. ASSUME NEW heard \in BOOLEAN, Deliver(s, heard)
        PROVE  DayInv'
    <2>1. s \in Rung
      BY <1>2 DEF Deliver, WithStatus
    <2>2. Rung' = Rung /\ sale' \in [Rung' -> SaleRows]
      <3>1. PICK st \in {"pending", "synced", "aside"} : SetStatus(s, st)
        BY <1>2 DEF Deliver
      <3> QED
        BY <1>0, <2>1, <3>1, StatusSet
    <2>3. /\ Recorded \subseteq Recorded' /\ Recorded' \subseteq Sales
          /\ book' \in [Recorded' -> BookRows]
      <3>1. CASE s \in Recorded
        BY <1>0, <1>2, <3>1 DEF Deliver, Recorded, TypeOK
      <3>2. CASE s \notin Recorded
        <4>1. [kind |-> sale[s].kind, voided |-> FALSE] \in BookRows
          BY <1>0, <2>1, ConstantsAssumption DEF SaleRows, BookRows
        <4>2. book' = With(book, s, [kind |-> sale[s].kind, voided |-> FALSE])
          BY <1>2, <3>2 DEF Deliver
        <4> QED
          BY <1>0, <4>1, <4>2, BookAdded
      <3> QED
        BY <3>1, <3>2
    <2> QED
      BY <1>2, <2>2, <2>3, BookKeeps DEF Deliver
  <1>3. CASE PutAside(s)
    BY <1>0, <1>3, SetRow DEF PutAside, WithStatus, TypeOK
  <1>4. CASE Requeue(s)
    BY <1>0, <1>4, SetRow DEF Requeue, WithStatus, TypeOK
  <1>5. CASE Hydrate(s)
    <2>1. [status |-> "synced", kind |-> book[s].kind] \in SaleRows
      BY <1>0, <1>5 DEF Hydrate, IsProbe, SaleRows, BookRows
    <2> QED
      BY <1>5, <2>1, AddRow DEF Hydrate
  <1>6. CASE Resubmit(s)
    <2>1. screen.at = "mismatch" /\ screen.missing \subseteq Rung /\ screen \in ScreenStates
      BY <1>0, <1>6 DEF Resubmit, TypeOK
    <2>2. screen \in [at : {"mismatch"}, missing : SUBSET Sales]
      BY <2>1 DEF ScreenStates, Idle
    <2>3. /\ screen' \in ScreenStates
          /\ screen'.at = "mismatch" => screen'.missing \subseteq Rung
      <3>1. CASE screen' = Idle
        BY <3>1 DEF ScreenStates, Idle
      <3>2. CASE screen' = [screen EXCEPT !.missing = screen.missing \ {s}]
        BY <2>1, <2>2, <3>2 DEF ScreenStates
      <3> QED
        BY <1>6, <3>1, <3>2 DEF Resubmit
    <2> QED
      BY <1>6, <2>1, <2>3, SetRow DEF Resubmit
  <1> QED
    BY <1>1, <1>2, <1>3, <1>4, <1>5, <1>6 DEF Till

LEMMA OthersKeep ==
  ASSUME DayInv, Others
  PROVE  DayInv'
  <1>0. TypeOK /\ sale \in [Rung -> SaleRows] /\ book \in [Recorded -> BookRows]
    BY DEF DayInv, TypeOK, SaleRows, BookRows
  <1>1. ASSUME NEW s \in Sales, NEW k \in Kinds, Elsewhere(s, k)
        PROVE  DayInv'
    <2>1. [kind |-> k, voided |-> FALSE] \in BookRows
      BY DEF BookRows
    <2>2. /\ Recorded \subseteq Recorded' /\ Recorded' \subseteq Sales
          /\ book' \in [Recorded' -> BookRows]
      BY <1>0, <1>1, <2>1, BookAdded DEF Elsewhere
    <2> QED
      BY <1>0, <1>1, <2>2, BookKeeps DEF Elsewhere, till, Rung
  <1>2. ASSUME NEW s \in Sales, Void(s)
        PROVE  DayInv'
    <2>1. Recorded' = Recorded /\ book' \in [Recorded' -> BookRows]
      <3>1. s \in Recorded /\ book' = [book EXCEPT ![s] = [book[s] EXCEPT !.voided = TRUE]]
        BY <1>2 DEF Void
      <3>2. [book[s] EXCEPT !.voided = TRUE] \in BookRows
        BY <1>0, <3>1 DEF BookRows
      <3> QED
        BY <1>0, <3>1, <3>2 DEF Recorded
    <2> QED
      BY <1>0, <1>2, <2>1, BookKeeps DEF Void, till, Rung, TypeOK
  <1>3. ASSUME NEW n \in Shifts, OpenShift(n) \/ CloseShift(n)
        PROVE  DayInv'
    <2>1. shift \in [Shifts -> ShiftRows]
      BY <1>0 DEF TypeOK, ShiftRows
    <2>2. shift' \in [Shifts -> ShiftRows]
      <3>1. CASE OpenShift(n)
        BY <2>1, <3>1 DEF OpenShift, ShiftRows
      <3>2. CASE CloseShift(n)
        <4>1. shift' = [shift EXCEPT ![n] =
                          [[shift[n] EXCEPT !.status = "closed"] EXCEPT !.counted = Counted]]
          BY <2>1, <3>2 DEF CloseShift
        <4>2. Counted \in SUBSET Sales
          BY <1>0 DEF Counted, TypeOK
        <4>3. [[shift[n] EXCEPT !.status = "closed"] EXCEPT !.counted = Counted] \in ShiftRows
          BY <2>1, <4>2 DEF ShiftRows
        <4> QED
          BY <2>1, <4>1, <4>3
      <3> QED
        BY <1>3, <3>1, <3>2
    <2>3. UNCHANGED <<till, listens, book, balanced, eod, req>>
      BY <1>3 DEF OpenShift, CloseShift
    <2>4. TypeOK'
      BY <1>0, <2>2, <2>3 DEF TypeOK, till, Rung, Recorded, ShiftRows
    <2> QED
      BY <2>3, <2>4, StillSound DEF till, Recorded, Rung
  <1> QED
    BY <1>1, <1>2, <1>3 DEF Others

-----------------------------------------------------------------------------
(* The close *)

(* A step of request r alone, which leaves it with nothing to keep. *)
LEMMA BareStep ==
  ASSUME DayInv, NEW r \in Requests,
         req' \in [Requests -> ReqStates],
         \A q \in Requests : req'[q].at = "replied" => q \in listens',
         \A q \in Requests : req'[q] = req[q] \/ Bare(q)',
         listens' \subseteq Requests, screen' \in ScreenStates,
         screen'.at = "mismatch" => screen'.missing \subseteq Rung,
         UNCHANGED <<sale, closure, api>>
  PROVE  DayInv'
  <1>1. TypeOK
    BY DEF DayInv
  <1>2. TypeOK'
    BY <1>1 DEF TypeOK, api, Rung, Recorded
  <1> QED
    BY <1>2, StillSound DEF api, Recorded, Rung

LEMMA TapCloseKeeps ==
  ASSUME DayInv, NEW r \in Requests, NEW count \in Counts, NEW reason \in BOOLEAN,
         TapClose(r, count, reason)
  PROVE  DayInv'
  <1>1. TypeOK
    BY DEF DayInv
  <1> DEFINE post == [at |-> "posted", ids |-> Rung, count |-> count, reason |-> reason]
  <1>2. post \in ReqStates /\ post.at = "posted" /\ post.ids = Rung
    BY <1>1 DEF TypeOK, ReqStates
  <1>3. req' = [req EXCEPT ![r] = post] /\ listens' = listens \union {r}
    BY DEF TapClose
  <1> HIDE DEF post
  <1>4. req' \in [Requests -> ReqStates]
    BY <1>1, <1>2, <1>3 DEF TypeOK
  <1>5. \A q \in Requests : req'[q].at = "replied" => q \in listens'
    BY <1>1, <1>2, <1>3 DEF TypeOK
  <1>6. \A q \in Requests : req'[q] = req[q] \/ Bare(q)'
    BY <1>1, <1>2, <1>3 DEF TypeOK, Bare, AskSound, TapClose, Rung
  <1>7. screen' \in ScreenStates /\ screen'.at # "mismatch"
    BY DEF TapClose, ScreenStates
  <1>8. listens' \subseteq Requests
    BY <1>1, <1>3 DEF TypeOK
  <1> QED
    BY <1>4, <1>5, <1>6, <1>7, <1>8, BareStep DEF TapClose

LEMMA CheckKeeps ==
  ASSUME DayInv, NEW r \in Requests, Check(r)
  PROVE  DayInv'
  <1>0. TypeOK
    BY DEF DayInv
  <1>1. UNCHANGED <<sale, screen, closure, listens, book, balanced, shift, eod>>
    BY DEF Check, till, api
  <1>2. req[r] \in Posted
    BY <1>0, ReqShapes DEF Check
  <1>3. ASSUME NEW reply \in Mismatched \union Refused, Reply(r, reply),
               reply.code = "mismatch" => reply.missing \subseteq Rung
        PROVE  DayInv'
    <2>1. /\ req' \in [Requests -> ReqStates]
          /\ \A q \in Requests : req'[q].at = "replied" => q \in listens'
          /\ \A q \in Requests : req'[q] = req[q] \/ Bare(q)'
      BY <1>0, <1>1, <1>3, RepliedBare DEF Rung
    <2> QED
      BY <1>0, <1>1, <2>1, BareStep DEF TypeOK, api, Rung
  <1>4. CASE Refuse(r, "already_closed") \/ Refuse(r, "variance_reason_required")
    <2>1. \A c \in {"already_closed", "variance_reason_required"} :
             [at |-> "replied", code |-> c] \in Refused
      BY DEF Refused
    <2> QED
      BY <1>3, <1>4, <2>1 DEF Refuse
  <1>5. CASE Reply(r, [at |-> "replied", code |-> "mismatch",
                       missing |-> Missing(req[r].ids)])
    <2>1. [at |-> "replied", code |-> "mismatch", missing |-> Missing(req[r].ids)]
             \in Mismatched
      BY <1>2 DEF Mismatched, Missing, Posted
    <2>2. Missing(req[r].ids) \subseteq Rung
      BY DEF Check, DayInv, AskSound, Missing
    <2> QED
      BY <1>3, <1>5, <2>1, <2>2
  <1> DEFINE record == [closed |-> TRUE, ids |-> req[r].ids, counted |-> Counted,
                        float |-> DayFloat, count |-> req[r].count]
             hand == [at |-> "checked", probes |-> ProbesSeen, record |-> record]
  <1>6. CASE Missing(req[r].ids) = {} /\ req' = [req EXCEPT ![r] = hand]
    <2>1. record \in Records
      <3>1. req[r].ids \in SUBSET Sales /\ req[r].count \in Counts
        BY <1>2 DEF Posted
      <3>2. Counted \in SUBSET Sales
        BY <1>0 DEF Counted, TypeOK
      <3>3. DayFloat \in {0, Float}
        BY DEF DayFloat
      <3> HIDE DEF record
      <3>4. record = [closed |-> TRUE, ids |-> req[r].ids, counted |-> Counted,
                      float |-> DayFloat, count |-> req[r].count]
        BY DEF record
      <3> QED
        BY <3>1, <3>2, <3>3, <3>4 DEF Records
    <2>2. record.ids \subseteq Recorded
      BY <1>6 DEF Missing
    <2> HIDE DEF record
    <2>3. ProbesSeen \in SUBSET Sales
      BY <1>0 DEF ProbesSeen, TypeOK
    <2>4. hand \in ReqStates
      BY <2>1, <2>3 DEF ReqStates
    <2>5. hand.at = "checked" /\ hand.record = record
      OBVIOUS
    <2> HIDE DEF hand
    <2>6. /\ req' \in [Requests -> ReqStates]
          /\ req'[r] = hand
          /\ \A q \in Requests \ {r} : req'[q] = req[q]
      BY <1>0, <1>6, <2>4 DEF TypeOK
    <2>7. TypeOK'
      BY <1>0, <1>1, <2>5, <2>6 DEF TypeOK, Rung, Recorded
    <2>8. ASSUME NEW q \in Requests
          PROVE  InHandSound(q)' /\ AnswerSound(q)' /\ AskSound(q)'
      BY <1>1, <2>2, <2>5, <2>6, <2>8 DEF DayInv, InHandSound, AnswerSound, AskSound, Recorded, Rung
    <2>9. ClosedHoldsTill' /\ ClosureIsRecord' /\ BalancedOnce'
      BY <1>1 DEF DayInv, ClosedHoldsTill, ClosureIsRecord, BalancedOnce, Closed, Recorded
    <2> QED
      BY <2>7, <2>8, <2>9 DEF DayInv
  <1> HIDE DEF record, hand
  <1> QED
    BY <1>4, <1>5, <1>6 DEF Check, record, hand

LEMMA BalanceKeeps ==
  ASSUME DayInv, NEW r \in Requests, Balance(r)
  PROVE  DayInv' /\ \A s \in req'[r].probes : balanced'[s] = 1
  <1>0. TypeOK
    BY DEF DayInv
  <1>1. UNCHANGED <<sale, screen, closure, listens, book, shift, eod>>
    BY DEF Balance, till
  <1>2. req[r] \in InHand /\ req[r].at = "checked"
    BY <1>0, ReqShapes DEF Balance
  <1> DEFINE hand == [at |-> "balanced", probes |-> req[r].probes, record |-> req[r].record]
  <1>3. hand \in ReqStates
    BY <1>2 DEF InHand, ReqStates
  <1>4. hand.at = "balanced" /\ hand.record = req[r].record /\ hand.probes = req[r].probes
    OBVIOUS
  <1>5. req' = [req EXCEPT ![r] = hand]
    BY DEF Balance
  <1> HIDE DEF hand
  <1>6. /\ req' \in [Requests -> ReqStates]
        /\ req'[r] = hand
        /\ \A q \in Requests \ {r} : req'[q] = req[q]
    BY <1>0, <1>3, <1>5 DEF TypeOK
  <1>7. req[r].probes \subseteq Sales
    BY <1>2 DEF InHand
  <1>8. \A s \in Sales : balanced[s] \in {0, 1}
    <2>1. \A s \in Sales : balanced[s] \in Nat /\ balanced[s] <= 1
      BY <1>0 DEF DayInv, TypeOK, BalancedOnce
    <2> QED
      BY <2>1
  <1>9. /\ balanced' \in [Sales -> Nat]
        /\ \A s \in Sales : balanced'[s] \in {0, 1}
        /\ \A s \in Sales : balanced[s] = 1 => balanced'[s] = 1
        /\ \A s \in req[r].probes : balanced'[s] = 1
    BY <1>7, <1>8 DEF Balance, ToBalance, Unbalanced
  <1>10. TypeOK'
    BY <1>0, <1>1, <1>4, <1>6, <1>9 DEF TypeOK, Rung, Recorded
  <1>11. ASSUME NEW q \in Requests
         PROVE  InHandSound(q)' /\ AnswerSound(q)' /\ AskSound(q)'
    <2>1. CASE q = r
      BY <1>1, <1>2, <1>4, <1>6, <1>9, <2>1 DEF DayInv, InHandSound, AnswerSound, AskSound, Recorded, Rung
    <2>2. CASE q # r
      <3>1. req[q].at \in {"checked", "balanced"} => req[q].probes \subseteq Sales
        BY <1>0, ReqShapes DEF InHand
      <3> QED
        BY <1>1, <1>6, <1>9, <2>2, <3>1 DEF DayInv, InHandSound, AnswerSound, AskSound, Recorded, Rung
    <2> QED
      BY <2>1, <2>2
  <1>12. ClosedHoldsTill' /\ ClosureIsRecord' /\ BalancedOnce'
    BY <1>1, <1>9 DEF DayInv, ClosedHoldsTill, ClosureIsRecord, BalancedOnce, Closed, Recorded
  <1> QED
    BY <1>4, <1>6, <1>9, <1>10, <1>11, <1>12 DEF DayInv

LEMMA InsertKeeps ==
  ASSUME DayInv, NEW r \in Requests, Insert(r)
  PROVE  DayInv'
  <1>0. TypeOK
    BY DEF DayInv
  <1>1. UNCHANGED <<sale, screen, closure, listens, book, balanced, shift>>
    BY DEF Insert, till
  <1>2. req[r] \in InHand /\ req[r].at = "balanced"
    BY <1>0, ReqShapes DEF Insert
  <1>3. CASE Refuse(r, "error") /\ UNCHANGED eod
    <2>1. [at |-> "replied", code |-> "error"] \in Refused
      BY DEF Refused
    <2>2. /\ req' \in [Requests -> ReqStates]
          /\ \A q \in Requests : req'[q].at = "replied" => q \in listens'
          /\ \A q \in Requests : req'[q] = req[q] \/ Bare(q)'
      BY <1>0, <1>1, <1>3, <2>1, RepliedBare DEF Refuse, Rung
    <2> QED
      BY <1>0, <1>1, <1>3, <2>2, BareStep DEF TypeOK, api, Rung
  <1> DEFINE record == req[r].record
             reply == [at |-> "replied", code |-> "closed", record |-> record]
  <1>4. CASE ~Closed /\ eod' = record /\ Reply(r, reply)
    <2>1. record \in Records
      BY <1>2 DEF InHand
    <2>2. record.closed = TRUE /\ record # NotClosed /\ record.ids \subseteq Recorded
      BY <1>2, <2>1, RecordShape DEF DayInv, InHandSound
    <2> HIDE DEF record
    <2>3. reply \in Accepted
      BY <2>1 DEF Accepted
    <2>4. reply.at = "replied" /\ reply.code = "closed" /\ reply.record = record
      OBVIOUS
    <2> HIDE DEF reply
    <2>5. /\ req' \in [Requests -> ReqStates]
          /\ \A q \in Requests : req'[q].at = "replied" => q \in listens'
          /\ \A q \in Requests \ {r} : req'[q] = req[q]
          /\ req'[r] \in {reply, Idle}
      BY <1>0, <1>1, <1>4, <2>3, Replied
    <2>6. TypeOK'
      BY <1>0, <1>1, <1>4, <2>1, <2>5 DEF TypeOK, Rung, Recorded
    <2>7. \A q \in Requests : req[q].at = "replied" => req[q].code # "closed"
      <3>1. SUFFICES ASSUME NEW q \in Requests, req[q].at = "replied", req[q].code = "closed"
                     PROVE  FALSE
        OBVIOUS
      <3>2. eod = req[q].record /\ req[q].record \in Records
        BY <1>0, <3>1, ReqShapes DEF DayInv, AnswerSound, Accepted
      <3> QED
        BY <1>4, <3>2, RecordShape DEF Closed
    <2>8. closure = NotClosed
      <3>1. CASE closure # NotClosed
        <4>1. closure = eod /\ closure \in Records
          BY <1>0, <3>1 DEF DayInv, ClosureIsRecord, TypeOK
        <4> QED
          BY <1>4, <4>1, RecordShape DEF Closed
      <3> QED
        BY <3>1
    <2>9. ASSUME NEW q \in Requests
          PROVE  InHandSound(q)' /\ AnswerSound(q)' /\ AskSound(q)'
      <3>1. CASE q = r
        BY <1>4, <2>4, <2>5, <3>1 DEF InHandSound, AnswerSound, AskSound, Idle
      <3>2. CASE q # r
        BY <1>1, <2>5, <2>7, <3>2 DEF DayInv, InHandSound, AnswerSound, AskSound, Recorded, Rung
      <3> QED
        BY <3>1, <3>2
    <2>10. ClosedHoldsTill' /\ ClosureIsRecord' /\ BalancedOnce'
      BY <1>1, <1>4, <2>2, <2>8
      DEF DayInv, ClosedHoldsTill, ClosureIsRecord, BalancedOnce, Closed, Recorded
    <2> QED
      BY <2>6, <2>9, <2>10 DEF DayInv
  <1> QED
    BY <1>3, <1>4 DEF Insert, AlreadyThere

LEMMA FailKeeps ==
  ASSUME DayInv, NEW r \in Requests, Fail(r)
  PROVE  DayInv'
  <1>0. TypeOK
    BY DEF DayInv
  <1>1. [at |-> "replied", code |-> "error"] \in Refused
    BY DEF Refused
  <1>2. /\ req' \in [Requests -> ReqStates]
        /\ \A q \in Requests : req'[q].at = "replied" => q \in listens'
        /\ \A q \in Requests : req'[q] = req[q] \/ Bare(q)'
    BY <1>0, <1>1, RepliedBare DEF Fail, Refuse, till, Rung
  <1> QED
    BY <1>0, <1>2, BareStep DEF Fail, TypeOK, till, Rung

LEMMA HearKeeps ==
  ASSUME DayInv, NEW r \in Requests, Hear(r)
  PROVE  DayInv'
  <1>0. TypeOK
    BY DEF DayInv
  <1>1. UNCHANGED <<sale, book, balanced, shift, eod>>
    BY DEF Hear, api
  <1>2. /\ req' = [req EXCEPT ![r] = Idle] /\ listens' = listens \ {r}
        /\ req[r].at = "replied"
    BY DEF Hear
  <1>3. /\ req' \in [Requests -> ReqStates]
        /\ req'[r] = Idle
        /\ \A q \in Requests \ {r} : req'[q] = req[q]
    BY <1>0, <1>2 DEF TypeOK, ReqStates
  <1>4. \A q \in Requests : req'[q].at = "replied" => q \in listens'
    BY <1>0, <1>2, <1>3 DEF TypeOK, Idle
  <1>5. /\ closure' \in {NotClosed} \union Records
        /\ closure' # NotClosed => closure' = eod
    <2>1. CASE req[r].code = "closed"
      <3>1. req[r].record \in Records /\ eod = req[r].record
        BY <1>0, <1>2, <2>1, ReqShapes DEF Accepted, DayInv, AnswerSound
      <3> QED
        BY <2>1, <3>1 DEF Hear
    <2>2. CASE req[r].code # "closed"
      BY <1>0, <2>2 DEF Hear, TypeOK, DayInv, ClosureIsRecord
    <2> QED
      BY <2>1, <2>2
  <1>6. /\ screen' \in ScreenStates
        /\ screen'.at = "mismatch" => screen'.missing \subseteq Rung
    <2>1. \/ screen' = screen
          \/ screen' = Idle
          \/ /\ req[r].code = "mismatch" /\ screen = [at |-> "waiting", req |-> r]
             /\ screen' = [at |-> "mismatch", missing |-> req[r].missing]
      BY DEF Hear, ScreenAfter
    <2>2. /\ screen \in ScreenStates
          /\ screen.at = "mismatch" => screen.missing \subseteq Rung
      BY <1>0 DEF TypeOK
    <2>3. CASE screen' = screen
      BY <2>2, <2>3
    <2>4. CASE screen' = Idle
      BY <2>4 DEF ScreenStates, Idle
    <2>5. CASE req[r].code = "mismatch" /\ screen' = [at |-> "mismatch", missing |-> req[r].missing]
      <3>1. req[r].missing \subseteq Sales /\ req[r].missing \subseteq Rung
        BY <1>0, <1>2, <2>5, ReqShapes DEF Mismatched, DayInv, AskSound
      <3> QED
        BY <2>5, <3>1 DEF ScreenStates
    <2> QED
      BY <2>1, <2>3, <2>4, <2>5
  <1>7. TypeOK'
    BY <1>0, <1>1, <1>2, <1>3, <1>4, <1>5, <1>6 DEF TypeOK, Rung, Recorded
  <1>8. ASSUME NEW q \in Requests
        PROVE  InHandSound(q)' /\ AnswerSound(q)' /\ AskSound(q)'
    <2>1. CASE q = r
      BY <1>3, <2>1 DEF InHandSound, AnswerSound, AskSound, Idle
    <2>2. CASE q # r
      BY <1>1, <1>3, <2>2 DEF DayInv, InHandSound, AnswerSound, AskSound, Recorded, Rung
    <2> QED
      BY <2>1, <2>2
  <1>9. ClosedHoldsTill' /\ ClosureIsRecord' /\ BalancedOnce'
    BY <1>1, <1>5 DEF DayInv, ClosedHoldsTill, ClosureIsRecord, BalancedOnce, Closed, Recorded
  <1> QED
    BY <1>7, <1>8, <1>9 DEF DayInv

LEMMA LostKeeps ==
  ASSUME DayInv, NEW r \in Requests, Lost(r)
  PROVE  DayInv'
  <1>0. TypeOK
    BY DEF DayInv
  <1>1. /\ listens' = listens \ {r}
        /\ \/ req' = [req EXCEPT ![r] = Idle]
           \/ req' = req /\ req[r].at # "replied"
    <2>1. CASE req' = Answerless(r) /\ req[r].at = "replied"
      BY <2>1 DEF Lost, Answerless
    <2>2. CASE req' = Answerless(r) /\ req[r].at # "replied"
      BY <1>0, <2>2 DEF Lost, Answerless, TypeOK
    <2> QED
      BY <2>1, <2>2 DEF Lost
  <1>2. /\ req' \in [Requests -> ReqStates]
        /\ \A q \in Requests \ {r} : req'[q] = req[q]
    BY <1>0, <1>1 DEF TypeOK, ReqStates
  <1>3. \A q \in Requests : req'[q].at = "replied" => q \in listens'
    BY <1>0, <1>1, <1>2 DEF TypeOK, Idle
  <1>4. \A q \in Requests : req'[q] = req[q] \/ Bare(q)'
    BY <1>0, <1>1, <1>2 DEF TypeOK, Bare, Idle, AskSound
  <1>5. /\ screen' \in ScreenStates
        /\ screen'.at = "mismatch" => screen'.missing \subseteq Rung
    BY <1>0 DEF Lost, TypeOK, ScreenStates, Idle
  <1> QED
    BY <1>0, <1>1, <1>2, <1>3, <1>4, <1>5, BareStep DEF Lost, TypeOK

-----------------------------------------------------------------------------
(* The theorems *)

LEMMA InitSound == Init => DayInv
  <1> SUFFICES ASSUME Init PROVE DayInv
    OBVIOUS
  <1>1. /\ \A r \in Requests : req[r] = Idle
        /\ Idle.at = "idle" /\ NotClosed.closed = FALSE
    BY DEF Init, Idle, NotClosed
  <1>2. Rung = {} /\ Recorded = {}
    BY DEF Init, Rung, Recorded
  <1>3. TypeOK
    <2>1. sale \in [Rung -> SaleRows] /\ book \in [Recorded -> BookRows]
      BY <1>2 DEF Init, Rung, Recorded
    <2> QED
      BY <1>1, <1>2, <2>1 DEF Init, TypeOK, ReqStates, ScreenStates, SaleRows, BookRows
  <1>4. ClosedHoldsTill /\ ClosureIsRecord /\ BalancedOnce
    BY <1>1 DEF Init, ClosedHoldsTill, ClosureIsRecord, BalancedOnce, Closed
  <1>5. \A r \in Requests : InHandSound(r) /\ AnswerSound(r) /\ AskSound(r)
    BY <1>1 DEF InHandSound, AnswerSound, AskSound
  <1> QED
    BY <1>3, <1>4, <1>5 DEF DayInv

LEMMA NextKeeps == DayInv /\ [Next]_vars => DayInv'
  <1> SUFFICES ASSUME DayInv, [Next]_vars PROVE DayInv'
    OBVIOUS
  <1>1. CASE Leave
    BY <1>1, LeaveKeeps
  <1>2. ASSUME NEW s \in Sales, Till(s) PROVE DayInv'
    BY <1>2, TillKeeps
  <1>3. ASSUME NEW r \in Requests, Close(r) PROVE DayInv'
    BY <1>3, TapCloseKeeps, CheckKeeps, BalanceKeeps, InsertKeeps, FailKeeps, HearKeeps,
       LostKeeps DEF Close
  <1>4. CASE Others
    BY <1>4, OthersKeep
  <1>5. CASE UNCHANGED vars
    <2>1. TypeOK'
      BY <1>5 DEF DayInv, TypeOK, vars, till, api, Rung, Recorded
    <2> QED
      BY <1>5, <2>1, StillSound DEF vars, till, api, Rung, Recorded
  <1> QED
    BY <1>1, <1>2, <1>3, <1>4, <1>5 DEF Next

LEMMA DayInvariant == Spec => []DayInv
  BY InitSound, NextKeeps, PTL DEF Spec

(* Every variable keeps its shape. *)
THEOREM DayTypes == Spec => []TypeOK
  <1>1. DayInv => TypeOK
    BY DEF DayInv
  <1> QED
    BY <1>1, DayInvariant, PTL

(* The record of the closed day names no sale the server lacks: sales the till   *)
(* sends with its close are compared before the record is written, and the       *)
(* server forgets none in between.                                               *)
THEOREM RecordHoldsTill == Spec => []ClosedHoldsTill
  <1>1. DayInv => ClosedHoldsTill
    BY DEF DayInv
  <1> QED
    BY <1>1, DayInvariant, PTL

(* The closure the till stores is the record the server wrote, whichever of the  *)
(* closes under way is answered, and in whatever order.                          *)
THEOREM TillHasTheRecord == Spec => []ClosureIsRecord
  <1>1. DayInv => ClosureIsRecord
    BY DEF DayInv
  <1> QED
    BY <1>1, DayInvariant, PTL

(* The stock of a probe is put back once at most, whether closes fail between    *)
(* their writes and are tried again, or run at the same time.                    *)
THEOREM ProbeBalancedOnce == Spec => []BalancedOnce
  <1>1. DayInv => BalancedOnce
    BY DEF DayInv
  <1> QED
    BY <1>1, DayInvariant, PTL

(* Only Insert writes the record, and of a day that has none. *)
LEMMA OnlyInsertWrites ==
  ASSUME [Next]_vars, eod' # eod
  PROVE  \E r \in Requests : /\ ~Closed /\ req[r].at = "balanced"
                             /\ eod' = req[r].record /\ UNCHANGED book
  <1>1. ASSUME NEW r \in Requests, Close(r)
        PROVE  /\ ~Closed /\ req[r].at = "balanced"
               /\ eod' = req[r].record /\ UNCHANGED book
    BY <1>1 DEF Close, TapClose, Check, Balance, Insert, AlreadyThere, Fail, Hear, Lost, api
  <1>2. ~Leave /\ ~UNCHANGED vars
    BY DEF Leave, vars, api
  <1>3. ASSUME NEW s \in Sales
        PROVE  ~Till(s)
    BY DEF Till, Ring, Deliver, PutAside, Requeue, Hydrate, Resubmit, api
  <1>4. ~Others
    BY DEF Others, Void, Elsewhere, OpenShift, CloseShift
  <1> QED
    BY <1>1, <1>2, <1>3, <1>4 DEF Next

(* The record is written by a close that has balanced every probe it saw.        *)
THEOREM RecordFollowsBalance == Spec => ProbesBalancedFirst
  <1> DEFINE Follows ==
        ~Closed /\ eod'.closed =>
          \E r \in Requests : /\ req[r].at = "balanced" /\ eod' = req[r].record
                              /\ \A s \in req[r].probes : balanced[s] = 1
  <1>1. DayInv /\ [Next]_vars => [Follows]_vars
    <2> SUFFICES ASSUME DayInv, [Next]_vars, ~Closed, eod'.closed
                 PROVE  Follows
      OBVIOUS
    <2>1. eod' # eod
      BY DEF Closed
    <2>2. PICK r \in Requests : req[r].at = "balanced" /\ eod' = req[r].record
      BY <2>1, OnlyInsertWrites
    <2> QED
      BY <2>2 DEF DayInv, InHandSound
  <1> QED
    BY <1>1, DayInvariant, PTL DEF Spec, ProbesBalancedFirst

(* A closed day stays closed, and its record is never rewritten.                 *)
THEOREM RecordIsFinal == Spec => ClosedForGood
  <1>1. [Next]_vars => [Closed => eod' = eod]_vars
    BY OnlyInsertWrites
  <1> QED
    BY <1>1, PTL DEF Spec, ClosedForGood

-----------------------------------------------------------------------------
(* With repositories whose calls do not yield, a close is of one moment. *)

(* Of the handlers at most one is past its checks, and the book is as it read it. *)
OneAtATime ==
    /\ \A r, q \in UnderWay : r = q
    /\ \A r \in UnderWay : req[r].record.counted = Counted

(* A step leaves a handler's hand as it is, or empties it. *)
HandKept(r) ==
    r \in UnderWay' => r \in UnderWay /\ req'[r].record = req[r].record

LEMMA BookReadAlone ==
  ASSUME ~AwaitYields, TypeOK, OneAtATime, [Next]_vars
  PROVE  OneAtATime'
  <1>0. \A r \in UnderWay : req[r] \in InHand
    BY ReqShapes DEF UnderWay
  <1>1. ASSUME UNCHANGED book, \A r \in Requests : HandKept(r)
        PROVE  OneAtATime'
    BY <1>1 DEF OneAtATime, HandKept, UnderWay, Counted, Recorded, IsProbe
  <1>2. ASSUME Quiet, \A r \in Requests : HandKept(r)
        PROVE  OneAtATime'
    BY <1>2 DEF Quiet, OneAtATime, HandKept, UnderWay
  <1>3. ASSUME UNCHANGED req
        PROVE  \A r \in Requests : HandKept(r)
    BY <1>3 DEF HandKept, UnderWay
  <1>4. ASSUME NEW r \in Requests, NEW v, req' = [req EXCEPT ![r] = v],
               v.at \notin {"checked", "balanced"}
        PROVE  \A q \in Requests : HandKept(q)
    BY <1>4 DEF HandKept, UnderWay, TypeOK
  <1>5. CASE Leave \/ UNCHANGED vars
    BY <1>1, <1>3, <1>5 DEF Leave, vars, api
  <1>6. ASSUME NEW s \in Sales, Till(s)
        PROVE  OneAtATime'
    <2>1. UNCHANGED req
      BY <1>6 DEF Till, Ring, Deliver, PutAside, Requeue, Hydrate, Resubmit
    <2>2. CASE \E heard \in BOOLEAN : Deliver(s, heard)
      BY <1>2, <1>3, <2>1, <2>2 DEF Deliver
    <2>3. CASE UNCHANGED book
      BY <1>1, <1>3, <2>1, <2>3
    <2> QED
      BY <1>6, <2>2, <2>3 DEF Till, Ring, PutAside, Requeue, Hydrate, Resubmit, api
  <1>7. CASE Others
    <2>1. Quiet /\ UNCHANGED req
      BY <1>7 DEF Others, Void, Elsewhere, OpenShift, CloseShift
    <2> QED
      BY <1>2, <1>3, <2>1
  <1>8. ASSUME NEW r \in Requests, Close(r)
        PROVE  OneAtATime'
    <2>1. CASE \E count \in Counts, reason \in BOOLEAN : TapClose(r, count, reason)
      BY <1>1, <1>4, <2>1 DEF TapClose, api
    <2>2. CASE Check(r)
      <3>1. UnderWay = {} /\ UNCHANGED book
        BY <2>2 DEF Check, Quiet, api
      <3>2. \/ \E v : req' = [req EXCEPT ![r] = v] /\ v.at \notin {"checked", "balanced"}
            \/ \E v : req' = [req EXCEPT ![r] = v] /\ v.record.counted = Counted
        BY <2>2 DEF Check, Refuse, Reply, Idle
      <3>3. CASE \E v : req' = [req EXCEPT ![r] = v] /\ v.record.counted = Counted
        BY <3>1, <3>3
        DEF OneAtATime, UnderWay, TypeOK, Counted, Recorded, IsProbe
      <3> QED
        BY <1>1, <1>4, <3>1, <3>2, <3>3
    <2>3. CASE Balance(r)
      <3>1. \A q \in Requests : HandKept(q)
        BY <2>3 DEF Balance, HandKept, UnderWay, TypeOK
      <3> QED
        BY <1>1, <2>3, <3>1 DEF Balance
    <2>4. CASE Insert(r)
      <3>1. \E v : req' = [req EXCEPT ![r] = v] /\ v.at \notin {"checked", "balanced"}
        <4>1. PICK v : Reply(r, v) /\ v.at = "replied"
          BY <2>4 DEF Insert, Refuse
        <4> DEFINE w == IF r \in listens THEN v ELSE Idle
        <4>2. w.at \notin {"checked", "balanced"}
          BY <4>1 DEF Idle
        <4>3. req' = [req EXCEPT ![r] = w]
          BY <4>1 DEF Reply
        <4> HIDE DEF w
        <4> QED
          BY <4>2, <4>3
      <3> QED
        BY <1>1, <1>4, <2>4, <3>1 DEF Insert
    <2>5. ~Fail(r)
      BY DEF Fail
    <2>6. CASE Hear(r)
      BY <1>1, <1>4, <2>6 DEF Hear, Idle, api
    <2>7. CASE Lost(r)
      <3>1. \/ UNCHANGED req
            \/ \E v : req' = [req EXCEPT ![r] = v] /\ v.at \notin {"checked", "balanced"}
        BY <2>7 DEF Lost, Answerless, Idle, TypeOK
      <3> QED
        BY <1>1, <1>3, <1>4, <2>7, <3>1 DEF Lost, api
    <2> QED
      BY <1>8, <2>1, <2>2, <2>3, <2>4, <2>5, <2>6, <2>7 DEF Close
  <1> QED
    BY <1>5, <1>6, <1>7, <1>8 DEF Next

(* Unless awaits yield, the sales the record is computed from are those the      *)
(* server has when it is written: none is accepted or voided in between.         *)
THEOREM RecordOfTheMoment ==
  ASSUME ~AwaitYields
  PROVE  Spec => [][eod' # eod => eod'.counted = Counted]_vars
  <1>1. Init => OneAtATime
    BY DEF Init, OneAtATime, UnderWay, Idle
  <1>2. TypeOK /\ OneAtATime /\ [Next]_vars => OneAtATime'
    BY BookReadAlone
  <1>3. OneAtATime /\ [Next]_vars => [eod' # eod => eod'.counted = Counted]_vars
    <2> SUFFICES ASSUME OneAtATime, [Next]_vars, eod' # eod
                 PROVE  eod'.counted = Counted
      OBVIOUS
    <2>1. PICK r \in Requests : req[r].at = "balanced" /\ eod' = req[r].record
      BY OnlyInsertWrites
    <2> QED
      BY <2>1 DEF OneAtATime, UnderWay
  <1> QED
    BY <1>1, <1>2, <1>3, DayTypes, PTL DEF Spec

-----------------------------------------------------------------------------
-----------------------------------------------------------------------------
(* What a cart takes from the stock, as a tally. *)

Wants(lines, k) == [t \in lines |-> Uses[ItemOf[t]][k]]

LEMMA WantsType ==
  ASSUME NEW lines \in SUBSET Tickets, NEW k \in Stocked
  PROVE  IsFiniteSet(lines) /\ Wants(lines, k) \in [lines -> Nat]
  <1>1. IsFiniteSet(lines)
    BY CounterAssumption, FS_Subset
  <1>2. ASSUME NEW t \in lines PROVE Uses[ItemOf[t]][k] \in Nat
    <2>1. ItemOf[t] \in Items
      BY DEF Items
    <2> QED
      BY <2>1, CounterAssumption
  <1> QED
    BY <1>1, <1>2 DEF Wants

LEMMA DemandTally ==
  ASSUME NEW lines \in SUBSET Tickets, NEW k \in Stocked
  PROVE  Demand(lines, k) = Tally(Wants(lines, k)) /\ Demand(lines, k) \in Nat
  <1> DEFINE f == Wants(lines, k)
             Q(iter) == iter = [T \in SUBSET lines |-> IF T = {} THEN 0
                                  ELSE Uses[ItemOf[CHOOSE x \in T : TRUE]][k]
                                       + iter[T \ {CHOOSE x \in T : TRUE}]]
  <1>1. Demand(lines, k) = (CHOOSE iter : Q(iter))[lines]
    BY DEF Demand, MapThenSumSet, MapThenFoldSet
  <1>2. \A T \in SUBSET lines : T # {} => f[Picked(T)] = Uses[ItemOf[CHOOSE x \in T : TRUE]][k]
    BY DEF Picked, Wants
  <1>3. \A iter : Q(iter) <=> SumLoop(iter, f, lines)
    BY <1>2 DEF SumLoop, Picked
  <1>4. IsFiniteSet(lines) /\ f \in [lines -> Nat]
    BY WantsType
  <1> HIDE DEF Q, f
  <1>5. \E iter : Q(iter)
    <2>1. \E iter : SumLoop(iter, f, lines)
      BY <1>4, LoopExists
    <2> QED
      BY <1>3, <2>1
  <1>6. Q(CHOOSE iter : Q(iter))
    BY <1>5
  <1>7. Demand(lines, k) = Cardinality(Units(f, lines))
    BY <1>1, <1>3, <1>4, <1>6, LoopCounts
  <1>8. DOMAIN f = lines
    BY <1>4
  <1> QED
    BY <1>4, <1>7, <1>8, TallyType DEF Tally, f

(* The till never takes more than the API, if what it takes of an item's own  *)
(* stock is in the item's recipe.                                             *)
OwnStock == \A k \in Tracked \cap Stocked : Uses[k][k] >= 1

LEMMA OwnDemandType ==
  ASSUME NEW lines \in SUBSET Tickets, NEW k \in Stocked
  PROVE  OwnDemand(lines, k) \in Nat
  <1>1. IsFiniteSet({t \in lines : ItemOf[t] = k /\ k \in Tracked})
    BY WantsType, FS_Subset
  <1> QED
    BY <1>1, FS_CardinalityType DEF OwnDemand

LEMMA OwnWithinDemand ==
  ASSUME OwnStock, NEW lines \in SUBSET Tickets, NEW k \in Stocked
  PROVE  OwnDemand(lines, k) <= Demand(lines, k)
  <1> DEFINE own == {t \in lines : ItemOf[t] = k /\ k \in Tracked}
             f == Wants(lines, k)
             one == [t \in own |-> <<t, 1>>]
  <1>1. IsFiniteSet(lines) /\ f \in [lines -> Nat]
    BY WantsType
  <1>2. IsFiniteSet(Units(f, lines)) /\ Demand(lines, k) = Cardinality(Units(f, lines))
    BY <1>1, UnitsFinite, DemandTally DEF Tally
  <1>3. \A t \in own : one[t] \in Units(f, lines)
    <2>1. ASSUME NEW t \in own PROVE f[t] >= 1 /\ t \in lines
      BY DEF OwnStock, Wants
    <2> QED
      BY <2>1 DEF Units
  <1>4. one \in Injection(own, Units(f, lines))
    BY <1>3 DEF Injection, IsInjective
  <1>5. Cardinality(own) <= Cardinality(Units(f, lines))
    BY <1>2, <1>4, FS_Injection
  <1> QED
    BY <1>2, <1>5 DEF OwnDemand

LEMMA TakesType ==
  ASSUME NEW f \in Finalisation
  PROVE  /\ Takes(f) \in [Stocked -> Nat]
         /\ OwnStock => \A k \in Stocked : Takes(f)[k] <= Demand(f.lines, k)
  <1>1. f.lines \in SUBSET Tickets
    BY DEF Finalisation, Carts
  <1>2. \A k \in Stocked : Demand(f.lines, k) \in Nat /\ OwnDemand(f.lines, k) \in Nat
    BY <1>1, DemandTally, OwnDemandType
  <1>3. OwnStock => \A k \in Stocked : OwnDemand(f.lines, k) <= Demand(f.lines, k)
    BY <1>1, OwnWithinDemand
  <1> QED
    BY <1>2, <1>3 DEF Takes

(* What the rows of the outbox still owe the API of k.                       *)
Owing(rows) == {n \in DOMAIN rows : ~rows[n].pushed}
Owed(rows, k) == [n \in Owing(rows) |-> Demand(rows[n].lines, k)]
Due(rows, k) == LET owed == Owing(rows) IN MapThenSumSet(LAMBDA n : Demand(rows[n].lines, k), owed)

LEMMA OwedType ==
  ASSUME NEW rows \in Seq(SaleRow), NEW k \in Stocked
  PROVE  /\ IsFiniteSet(Owing(rows)) /\ Owed(rows, k) \in [Owing(rows) -> Nat]
         /\ \A n \in DOMAIN rows : Demand(rows[n].lines, k) \in Nat
  <1>1. IsFiniteSet(1 .. Len(rows)) /\ DOMAIN rows = 1 .. Len(rows)
    <2>1. 1 \in Int /\ Len(rows) \in Int
      OBVIOUS
    <2> QED
      BY <2>1, FS_Interval
  <1>2. \A n \in DOMAIN rows : rows[n].lines \in SUBSET Tickets
    <2>1. \A n \in DOMAIN rows : rows[n] \in SaleRow
      OBVIOUS
    <2> QED
      BY <2>1 DEF SaleRow, Carts
  <1>3. \A n \in DOMAIN rows : Demand(rows[n].lines, k) \in Nat
    BY <1>2, DemandTally
  <1> QED
    BY <1>1, <1>3, FS_Subset DEF Owing, Owed

LEMMA DueTally ==
  ASSUME NEW rows \in Seq(SaleRow), NEW k \in Stocked
  PROVE  Due(rows, k) = Tally(Owed(rows, k)) /\ Due(rows, k) \in Nat
  <1> DEFINE S == Owing(rows)
             f == Owed(rows, k)
             Q(iter) == iter = [T \in SUBSET S |-> IF T = {} THEN 0
                                  ELSE Demand(rows[CHOOSE x \in T : TRUE].lines, k)
                                       + iter[T \ {CHOOSE x \in T : TRUE}]]
  <1>1. Due(rows, k) = (CHOOSE iter : Q(iter))[S]
    BY DEF Due, MapThenSumSet, MapThenFoldSet
  <1>2. \A T \in SUBSET S : T # {} => f[Picked(T)] = Demand(rows[CHOOSE x \in T : TRUE].lines, k)
    BY DEF Picked, Owed
  <1>3. \A iter : Q(iter) <=> SumLoop(iter, f, S)
    BY <1>2 DEF SumLoop, Picked
  <1>4. IsFiniteSet(S) /\ f \in [S -> Nat]
    BY OwedType
  <1> HIDE DEF Q, f, S
  <1>5. \E iter : Q(iter)
    <2>1. \E iter : SumLoop(iter, f, S)
      BY <1>4, LoopExists
    <2> QED
      BY <1>3, <2>1
  <1>6. Q(CHOOSE iter : Q(iter))
    BY <1>5
  <1>7. Due(rows, k) = Cardinality(Units(f, S))
    BY <1>1, <1>3, <1>4, <1>6, LoopCounts
  <1>8. DOMAIN f = S
    BY <1>4
  <1> QED
    BY <1>4, <1>7, <1>8, TallyType DEF Tally, f

LEMMA OwedAdds ==
  ASSUME NEW rows, NEW more, NEW k, NEW n, n \notin Owing(rows), IsFiniteSet(Owing(rows)),
         Owed(rows, k) \in [Owing(rows) -> Nat], Owed(more, k) \in [Owing(rows) \union {n} -> Nat],
         \A m \in Owing(rows) : Owed(more, k)[m] = Owed(rows, k)[m]
  PROVE  Tally(Owed(more, k)) = Tally(Owed(rows, k)) + Owed(more, k)[n]
  BY TallyAdds

(* A row that owes its demand besides the others.                             *)
LEMMA DueAdds ==
  ASSUME NEW rows \in Seq(SaleRow), NEW more \in Seq(SaleRow), NEW k \in Stocked, NEW n,
         Owing(more) = Owing(rows) \union {n}, n \notin Owing(rows),
         \A m \in Owing(rows) : more[m].lines = rows[m].lines
  PROVE  Due(more, k) = Due(rows, k) + Demand(more[n].lines, k)
  <1>1. IsFiniteSet(Owing(rows)) /\ Owed(rows, k) \in [Owing(rows) -> Nat]
    BY OwedType
  <1>2. Owed(more, k) \in [Owing(rows) \union {n} -> Nat]
    <2>1. Owed(more, k) \in [Owing(more) -> Nat]
      BY OwedType
    <2> QED
      BY <2>1
  <1>3. \A m \in Owing(rows) : Owed(more, k)[m] = Owed(rows, k)[m]
    BY DEF Owed
  <1>4. Owed(more, k)[n] = Demand(more[n].lines, k)
    BY DEF Owed
  <1>5. Tally(Owed(more, k)) = Tally(Owed(rows, k)) + Owed(more, k)[n]
    BY <1>1, <1>2, <1>3, OwedAdds
  <1> QED
    BY <1>4, <1>5, DueTally

(* A sale saved is owed, one pushed no longer.                                *)
LEMMA DueSaved ==
  ASSUME NEW rows \in Seq(SaleRow), NEW k \in Stocked, NEW lines \in Carts
  PROVE  Due(Append(rows, [lines |-> lines, pushed |-> FALSE]), k)
            = Due(rows, k) + Demand(lines, k)
  <1> DEFINE more == Append(rows, [lines |-> lines, pushed |-> FALSE])
             new == Len(rows) + 1
  <1>1. more \in Seq(SaleRow)
    BY DEF SaleRow
  <1>2. /\ Owing(more) = Owing(rows) \union {new} /\ new \notin Owing(rows)
        /\ more[new].lines = lines /\ \A n \in Owing(rows) : more[n].lines = rows[n].lines
    BY DEF Owing
  <1> HIDE DEF more, new
  <1>3. Due(more, k) = Due(rows, k) + Demand(more[new].lines, k)
    BY <1>1, <1>2, DueAdds
  <1> QED
    BY <1>2, <1>3 DEF more

LEMMA DuePushed ==
  ASSUME NEW rows \in Seq(SaleRow), NEW k \in Stocked, NEW n \in DOMAIN rows, ~rows[n].pushed
  PROVE  Due([rows EXCEPT ![n].pushed = TRUE], k) = Due(rows, k) - Demand(rows[n].lines, k)
  <1> DEFINE less == [rows EXCEPT ![n].pushed = TRUE]
  <1>1. rows[n] \in SaleRow
    OBVIOUS
  <1>2. less \in Seq(SaleRow)
    <2>1. [rows[n] EXCEPT !.pushed = TRUE] \in SaleRow
      BY <1>1 DEF SaleRow
    <2> QED
      BY <2>1
  <1>3. /\ Owing(rows) = Owing(less) \union {n} /\ n \notin Owing(less)
        /\ \A m \in Owing(less) : rows[m].lines = less[m].lines
    BY <1>1 DEF Owing, SaleRow
  <1>4. Demand(rows[n].lines, k) \in Nat
    BY OwedType
  <1> HIDE DEF less
  <1>5. Due(rows, k) = Due(less, k) + Demand(rows[n].lines, k)
    BY <1>2, <1>3, DueAdds
  <1>6. Due(less, k) \in Nat
    BY <1>2, DueTally
  <1>7. Due(less, k) = Due(rows, k) - Demand(rows[n].lines, k)
    BY <1>4, <1>5, <1>6
  <1> QED
    BY <1>7 DEF less

-----------------------------------------------------------------------------
-----------------------------------------------------------------------------
(* The invariant of the counter. *)

(* Nothing is taken, moved or sold that was not rung up. *)
RungInv ==
    /\ \A f \in saving : f.lines \subseteq rung
    /\ Sold \subseteq rung

(* A finalisation whose panel was left has its tickets in left.  The one whose *)
(* panel is up has in the cart, and nowhere else, what it is given.            *)
FinalInv ==
    /\ \A f, g \in saving : Mounted(f) /\ Mounted(g) => f = g
    /\ \A f \in saving : ~Mounted(f) => f.lines \subseteq left
    /\ \A f \in saving : Mounted(f) =>
          /\ cart \ f.lines \subseteq left
          /\ \A m \in moving : m.was \union m.becomes \subseteq left
          /\ \A t \in f.lines \ left : t \in cart \ InTray /\ (t \in Sold <=> f.saved)

(* A ticket is in one row of the tray, and is in the cart too only while it is *)
(* being parked; two movements at once have all their tickets in left.         *)
TrayInv ==
    /\ \A p, q \in tray : (p.lines \cap q.lines) \ left # {} => p = q
    /\ \A t \in (cart \cap InTray) \ left : \E m \in moving : t \in m.was /\ m.becomes = {}
    /\ \A m \in moving :
          /\ m.becomes = {} => m.was \ left \subseteq InTray \union dropped
          /\ (m.becomes \cap (InTray \union Sold)) \subseteq left
          /\ (m.was \union m.becomes) \ left # {} => moving = {m}

CounterInv == CounterTypeOK /\ RungInv /\ FinalInv /\ TrayInv /\ SoldOnce

(* The steps that leave the counter and what is sold as they are. *)
StockStep ==
    \/ \E n \in DOMAIN sales : PushSale(n)
    \/ \E k \in Stocked : Return(k)
    \/ ListSnapshot \/ ApplySnapshot \/ SnapshotLost

-----------------------------------------------------------------------------
(* Type correctness. *)

LEMMA CounterInitType == CounterInit => CounterTypeOK
  <1> SUFFICES ASSUME CounterInit PROVE CounterTypeOK
    OBVIOUS
  <1>1. OnHand \in [Stocked -> Int]
    BY CounterAssumption
  <1> QED
    BY <1>1 DEF CounterInit, CounterTypeOK, NoPanel, None, SaleRow

LEMMA LessType ==
  ASSUME NEW stk \in [Stocked -> Int], NEW taken \in [Stocked -> Nat]
  PROVE  Less(stk, taken) \in [Stocked -> Int]
  BY DEF Less

LEMMA StockType ==
  ASSUME CounterTypeOK, StockStep
  PROVE  CounterTypeOK'
  <1> USE DEF counter, Mounted
  <1>1. ASSUME NEW n \in DOMAIN sales, PushSale(n) PROVE CounterTypeOK'
    <2>1. sales[n] \in SaleRow
      BY DEF CounterTypeOK
    <2>2. sales' \in Seq(SaleRow)
      <3>1. [sales[n] EXCEPT !.pushed = TRUE] \in SaleRow
        BY <2>1 DEF SaleRow
      <3> QED
        BY <1>1, <3>1 DEF PushSale, CounterTypeOK
    <2>3. onHand' \in [Stocked -> Int]
      <3>1. \A k \in Stocked : Demand(sales[n].lines, k) \in Nat
        BY OwedType DEF CounterTypeOK
      <3>2. [k \in Stocked |-> Demand(sales[n].lines, k)] \in [Stocked -> Nat]
        BY <3>1
      <3> QED
        BY <1>1, <3>2, LessType DEF PushSale, CounterTypeOK
    <2> QED
      BY <1>1, <2>2, <2>3 DEF PushSale, CounterTypeOK
  <1>2. ASSUME NEW k \in Stocked, Return(k) PROVE CounterTypeOK'
    <2>1. returned' \in [Stocked -> Nat] /\ onHand' \in [Stocked -> Int]
      BY <1>2 DEF Return, CounterTypeOK
    <2> QED
      BY <1>2, <2>1 DEF Return, CounterTypeOK
  <1>3. CASE ListSnapshot
    BY <1>3 DEF ListSnapshot, CounterTypeOK
  <1>4. CASE ApplySnapshot
    BY <1>4 DEF ApplySnapshot, Overwritten, CounterTypeOK
  <1>5. CASE SnapshotLost
    BY <1>5 DEF SnapshotLost, CounterTypeOK
  <1> QED
    BY <1>1, <1>2, <1>3, <1>4, <1>5 DEF StockStep

(* The parts of the type that the counter's steps may change. *)
LEMMA CartType ==
  ASSUME CounterTypeOK, UNCHANGED <<panel, seat, saving, sales, stock>>,
         cart' \subseteq rung', rung' \subseteq Tickets, parks' \in Nat,
         tray' \subseteq [id : 1..parks', lines : (SUBSET rung') \ {{}}],
         moving' \subseteq [was : SUBSET rung', becomes : SUBSET rung']
  PROVE  CounterTypeOK'
  BY DEF CounterTypeOK, Mounted, stock

LEMMA AddLineType ==
  ASSUME CounterTypeOK, NEW t \in Tickets, AddLine(t)
  PROVE  CounterTypeOK'
  <1>1. cart' \subseteq rung' /\ rung' \subseteq Tickets /\ rung \subseteq rung' /\ parks' \in Nat
    BY DEF AddLine, CounterTypeOK
  <1>2. tray' \subseteq [id : 1..parks', lines : (SUBSET rung') \ {{}}]
    <2>1. tray' = tray /\ parks' = parks
      BY DEF AddLine
    <2> QED
      BY <1>1, <2>1 DEF CounterTypeOK
  <1>3. moving' \subseteq [was : SUBSET rung', becomes : SUBSET rung']
    <2>1. moving' = moving
      BY DEF AddLine
    <2> QED
      BY <1>1, <2>1 DEF CounterTypeOK
  <1> QED
    BY <1>1, <1>2, <1>3, CartType DEF AddLine

LEMMA ParkType ==
  ASSUME CounterTypeOK, ParkActiveCart
  PROVE  CounterTypeOK'
  <1>1. rung' = rung /\ cart' = cart /\ parks' = parks + 1 /\ parks \in Nat
    BY DEF ParkActiveCart, CounterTypeOK
  <1>2. cart \in (SUBSET rung) \ {{}}
    <2>1. cart # {} /\ cart \subseteq rung
      BY DEF ParkActiveCart, ParkSheet, CounterTypeOK
    <2> QED
      BY <2>1
  <1>3. tray' \subseteq [id : 1..parks', lines : (SUBSET rung') \ {{}}]
    <2>1. ASSUME NEW p \in tray PROVE p \in [id : 1..parks', lines : (SUBSET rung') \ {{}}]
      BY <1>1 DEF CounterTypeOK
    <2>2. [id |-> parks + 1, lines |-> cart] \in [id : 1..parks', lines : (SUBSET rung') \ {{}}]
      BY <1>1, <1>2
    <2> QED
      BY <2>1, <2>2 DEF ParkActiveCart
  <1>4. moving' \subseteq [was : SUBSET rung', becomes : SUBSET rung']
    BY <1>1, <1>2 DEF ParkActiveCart, CounterTypeOK
  <1> QED
    BY <1>1, <1>3, <1>4, CartType DEF ParkActiveCart, CounterTypeOK

LEMMA MoveType ==
  ASSUME CounterTypeOK,
         \/ \E gone \in SUBSET cart : RemoveLine(gone)
         \/ CloseSheet \/ ClearParked
         \/ \E m \in moving : ReplaceCart(m)
         \/ \E p \in tray : ResumeParkedCart(p) \/ DiscardParkedCart(p)
  PROVE  CounterTypeOK'
  <1>1. /\ rung' = rung /\ parks' = parks /\ tray' \subseteq tray
        /\ UNCHANGED <<panel, seat, saving, sales, stock>>
    BY DEF RemoveLine, CloseSheet, ClearParked, ReplaceCart, ResumeParkedCart, TakenFromTray,
           DiscardParkedCart
  <1>2. cart' \subseteq rung
    BY DEF RemoveLine, CloseSheet, ClearParked, ReplaceCart, ResumeParkedCart,
           DiscardParkedCart, CounterTypeOK
  <1>3. moving' \subseteq [was : SUBSET rung, becomes : SUBSET rung]
    <2>1. ASSUME NEW p \in tray, ResumeParkedCart(p)
          PROVE  moving' \subseteq [was : SUBSET rung, becomes : SUBSET rung]
      <3>1. [was |-> cart, becomes |-> p.lines] \in [was : SUBSET rung, becomes : SUBSET rung]
        BY DEF CounterTypeOK
      <3> QED
        BY <2>1, <3>1 DEF ResumeParkedCart, CounterTypeOK
    <2>2. (\A p \in tray : ~ResumeParkedCart(p)) => moving' \subseteq moving
      BY DEF RemoveLine, CloseSheet, ClearParked, ReplaceCart, DiscardParkedCart
    <2> QED
      BY <2>1, <2>2 DEF CounterTypeOK
  <1>4. rung \subseteq Tickets /\ parks \in Nat
        /\ tray \subseteq [id : 1..parks, lines : (SUBSET rung) \ {{}}]
    BY DEF CounterTypeOK
  <1>5. tray' \subseteq [id : 1..parks', lines : (SUBSET rung') \ {{}}]
    BY <1>1, <1>4
  <1> QED
    BY <1>1, <1>2, <1>3, <1>4, <1>5, CartType

(* The parts that a step of the tender may change.                            *)
LEMMA TenderType ==
  ASSUME CounterTypeOK, UNCHANGED <<rung, parks, tray, onHand, returned, snapshot>>,
         cart' \subseteq cart, moving' \subseteq moving,
         panel' \in {NoPanel} \union [how : Hows, submitting : BOOLEAN],
         panel'.submitting <=> \E f \in saving' : panel' # NoPanel /\ f.seat = seat',
         seat' \in Nat, saving' \subseteq Finalisation, \A f \in saving' : f.seat <= seat',
         sales' \in Seq(SaleRow), label' \in [Stocked -> Int]
  PROVE  CounterTypeOK'
  <1>1. cart' \subseteq rung'
    BY DEF CounterTypeOK
  <1>2. moving' \subseteq [was : SUBSET rung', becomes : SUBSET rung']
    BY DEF CounterTypeOK
  <1> QED
    BY <1>1, <1>2 DEF CounterTypeOK, Mounted

LEMMA SeatTypes ==
  ASSUME CounterTypeOK, NEW f \in saving
  PROVE  f \in Finalisation /\ f.seat \in Nat /\ seat \in Nat /\ f.seat <= seat
         /\ f.lines \in Carts /\ f.lines \in SUBSET Tickets
  BY DEF CounterTypeOK, Finalisation, Carts

LEMMA OpenPanelType ==
  ASSUME CounterTypeOK, NEW how \in Hows, OpenPanel(how)
  PROVE  CounterTypeOK'
  <1>1. seat' = seat + 1 /\ seat' \in Nat /\ saving' = saving
        /\ panel' = [how |-> how, submitting |-> FALSE]
    BY DEF OpenPanel, CounterTypeOK
  <1>2. \A f \in saving' : f.seat < seat' /\ f.seat <= seat' /\ f.seat # seat'
    BY <1>1, SeatTypes
  <1>3. panel' \in [how : Hows, submitting : BOOLEAN] /\ ~panel'.submitting
    BY <1>1
  <1> QED
    BY <1>1, <1>2, <1>3, TenderType DEF OpenPanel, CounterTypeOK, stock

LEMMA LeavePanelType ==
  ASSUME CounterTypeOK, LeavePanel
  PROVE  CounterTypeOK'
  <1>1. panel' = NoPanel /\ ~panel'.submitting
    BY DEF LeavePanel, NoPanel
  <1> QED
    BY <1>1, TenderType DEF LeavePanel, CounterTypeOK, stock

LEMMA PanelIsUp ==
  ASSUME CounterTypeOK, panel # NoPanel
  PROVE  /\ panel.how \in Hows
         /\ [panel EXCEPT !.submitting = TRUE] \in [how : Hows, submitting : BOOLEAN]
         /\ [panel EXCEPT !.submitting = TRUE].submitting
         /\ [panel EXCEPT !.submitting = FALSE] \in [how : Hows, submitting : BOOLEAN]
         /\ ~[panel EXCEPT !.submitting = FALSE].submitting
  BY DEF CounterTypeOK

LEMMA HandleFinalizeType ==
  ASSUME CounterTypeOK, HandleFinalize
  PROVE  CounterTypeOK'
  <1> DEFINE new == [lines |-> cart, how |-> panel.how, seat |-> seat, saved |-> FALSE]
  <1>1. panel # NoPanel /\ panel' = [panel EXCEPT !.submitting = TRUE] /\ cart # {}
        /\ saving' = saving \union {new} /\ seat' = seat /\ seat \in Nat
    BY DEF HandleFinalize, TenderForm, CounterTypeOK
  <1>2. panel'.submitting /\ panel' \in [how : Hows, submitting : BOOLEAN] /\ panel.how \in Hows
    BY <1>1, PanelIsUp
  <1>3. panel' # NoPanel
    BY <1>2 DEF NoPanel
  <1>4. new \in Finalisation /\ new.seat = seat
    <2>1. cart \in Carts
      BY <1>1 DEF CounterTypeOK, Carts
    <2> QED
      BY <1>1, <1>2, <2>1 DEF Finalisation
  <1>5. saving' \subseteq Finalisation /\ \A f \in saving' : f.seat <= seat'
    <2> HIDE DEF new
    <2>1. saving \subseteq Finalisation /\ \A f \in saving : f.seat <= seat
      BY DEF CounterTypeOK
    <2> QED
      BY <1>1, <1>4, <2>1
  <1> HIDE DEF new
  <1> QED
    BY <1>1, <1>2, <1>3, <1>4, <1>5, TenderType DEF HandleFinalize, CounterTypeOK, stock

LEMMA SaveType ==
  ASSUME CounterTypeOK, NEW f \in saving, Save(f)
  PROVE  CounterTypeOK'
  <1> DEFINE g == [f EXCEPT !.saved = TRUE]
  <1>1. f \in Finalisation
    BY SeatTypes
  <1>2. g \in Finalisation /\ g.seat = f.seat
    BY <1>1 DEF Finalisation
  <1>3. saving' = (saving \ {f}) \union {g} /\ UNCHANGED <<panel, seat>>
    BY DEF Save
  <1>4. sales' \in Seq(SaleRow)
    <2>1. [lines |-> f.lines, pushed |-> FALSE] \in SaleRow
      BY SeatTypes DEF SaleRow
    <2> QED
      BY <2>1 DEF Save, CounterTypeOK
  <1>5. label' \in [Stocked -> Int]
    BY <1>1, TakesType, LessType DEF Save, CounterTypeOK
  <1>6. saving' \subseteq Finalisation /\ \A h \in saving' : h.seat <= seat'
    BY <1>2, <1>3 DEF CounterTypeOK
  <1> HIDE DEF g
  <1>7. panel'.submitting <=> \E h \in saving' : panel' # NoPanel /\ h.seat = seat'
    BY <1>2, <1>3 DEF CounterTypeOK, Mounted
  <1> QED
    BY <1>3, <1>4, <1>5, <1>6, <1>7, TenderType DEF Save, CounterTypeOK

LEMMA AfterType ==
  ASSUME CounterTypeOK, NEW f \in saving, After(f)
  PROVE  CounterTypeOK'
  <1>1. panel' = NoPanel /\ ~panel'.submitting
    BY DEF After, NoPanel
  <1>2. cart' = {} /\ saving' \subseteq saving
    BY DEF After, Cleared
  <1> QED
    BY <1>1, <1>2, TenderType DEF After, CounterTypeOK, stock

LEMMA FailsType ==
  ASSUME CounterTypeOK, FinalInv, NEW f \in saving, Fails(f)
  PROVE  CounterTypeOK'
  <1>1. saving' = saving \ {f} /\ seat' = seat /\ label' = label
    BY DEF Fails, RolledBack
  <1>2. CASE Mounted(f)
    <2>1. panel # NoPanel /\ panel' = [panel EXCEPT !.submitting = FALSE]
      BY <1>2 DEF Mounted, Fails, FreesPanel
    <2>2. panel' \in [how : Hows, submitting : BOOLEAN] /\ ~panel'.submitting
      BY <2>1, PanelIsUp
    <2>3. \A h \in saving' : h.seat # seat'
      BY <1>1, <1>2, <2>1 DEF FinalInv, Mounted
    <2> QED
      BY <1>1, <2>2, <2>3, TenderType DEF Fails, CounterTypeOK
  <1>3. CASE ~Mounted(f)
    <2>1. panel' = panel
      BY <1>3 DEF Fails, FreesPanel
    <2>2. panel'.submitting <=> \E h \in saving' : panel' # NoPanel /\ h.seat = seat'
      BY <1>1, <1>3, <2>1 DEF CounterTypeOK, Mounted
    <2> QED
      BY <1>1, <2>1, <2>2, TenderType DEF Fails, CounterTypeOK
  <1> QED
    BY <1>2, <1>3

LEMMA TabDiesType ==
  ASSUME CounterTypeOK, TabDies
  PROVE  CounterTypeOK'
  <1>1. panel' = NoPanel /\ ~panel'.submitting /\ saving' = {} /\ cart' = {} /\ moving' = {}
        /\ snapshot' = None /\ UNCHANGED <<rung, seat, sales, tray, parks, label, onHand, returned>>
    BY DEF TabDies, NoPanel
  <1> QED
    BY <1>1 DEF CounterTypeOK

LEMMA CounterStepType ==
  ASSUME CounterTypeOK, FinalInv, [CounterNext]_counterVars
  PROVE  CounterTypeOK'
  <1>1. CASE UNCHANGED counterVars
    BY <1>1 DEF counterVars, counter, stock, CounterTypeOK, Mounted
  <1>2. CASE CounterNext
    BY <1>2, StockType, AddLineType, ParkType, MoveType, OpenPanelType, LeavePanelType,
       HandleFinalizeType, SaveType, AfterType, FailsType, TabDiesType
       DEF CounterNext, StockStep
  <1> QED
    BY <1>1, <1>2

-----------------------------------------------------------------------------
-----------------------------------------------------------------------------
(* A ticket is sold once. *)

CounterHolds == RungInv /\ FinalInv /\ TrayInv /\ SoldOnce

(* With no panel up every finalisation under way has its tickets in left, and *)
(* nothing else in the cart was sold.                                         *)
LEMMA NoPanelUp ==
  ASSUME CounterInv, panel = NoPanel
  PROVE  /\ \A f \in saving : f.lines \subseteq left
         /\ cart \cap Sold \subseteq left
  <1>1. \A f \in saving : f.lines \subseteq left
    BY DEF CounterInv, FinalInv, Mounted
  <1>2. cart \subseteq rung
    BY DEF CounterInv, CounterTypeOK
  <1> QED
    BY <1>1, <1>2 DEF CounterInv, SoldOnce

(* With nothing being moved nothing is in the cart and in the tray. *)
LEMMA NothingMoves ==
  ASSUME CounterInv, moving = {}
  PROVE  cart \cap InTray \subseteq left
  BY DEF CounterInv, TrayInv

LEMMA TrayInRung ==
  ASSUME CounterInv
  PROVE  InTray \subseteq rung /\ cart \subseteq rung /\ Sold \subseteq rung
         /\ \A m \in moving : m.was \subseteq rung /\ m.becomes \subseteq rung
  <1>1. \A p \in tray : p.lines \subseteq rung
    BY DEF CounterInv, CounterTypeOK
  <1>2. \A m \in moving : m.was \subseteq rung /\ m.becomes \subseteq rung
    BY DEF CounterInv, CounterTypeOK
  <1> QED
    BY <1>1, <1>2 DEF CounterInv, CounterTypeOK, RungInv, InTray

LEMMA CounterInitHolds == CounterInit => CounterHolds
  BY DEF CounterInit, CounterHolds, RungInv, FinalInv, TrayInv, SoldOnce, Sold, InTray

LEMMA StockHolds ==
  ASSUME CounterInv, StockStep
  PROVE  CounterHolds'
  <1>1. UNCHANGED counter
    BY DEF StockStep, PushSale, Return, ListSnapshot, ApplySnapshot, SnapshotLost
  <1>2. DOMAIN sales' = DOMAIN sales /\ \A n \in DOMAIN sales : sales'[n].lines = sales[n].lines
    <2>1. ASSUME NEW n \in DOMAIN sales, PushSale(n)
          PROVE  DOMAIN sales' = DOMAIN sales /\ \A m \in DOMAIN sales : sales'[m].lines = sales[m].lines
      <3>1. sales[n] \in SaleRow
        BY DEF CounterInv, CounterTypeOK
      <3>2. [sales[n] EXCEPT !.pushed = TRUE].lines = sales[n].lines
        BY <3>1 DEF SaleRow
      <3> QED
        BY <2>1, <3>2 DEF PushSale, CounterInv, CounterTypeOK
    <2> QED
      BY <2>1 DEF StockStep, Return, ListSnapshot, ApplySnapshot, SnapshotLost
  <1>3. Sold' = Sold /\ InTray' = InTray
    BY <1>1, <1>2 DEF Sold, InTray, counter
  <1>4. SoldOnce'
    BY <1>1, <1>2, <1>3 DEF CounterInv, SoldOnce, counter
  <1>5. FinalInv'
    BY <1>1, <1>3 DEF CounterInv, FinalInv, counter, Mounted
  <1>6. TrayInv' /\ RungInv'
    BY <1>1, <1>3 DEF CounterInv, TrayInv, RungInv, counter
  <1> QED
    BY <1>4, <1>5, <1>6 DEF CounterHolds

(* The steps of the cart screen and its sheets sell nothing, and take part    *)
(* only while no panel is up.                                                 *)
LEMMA NoPanelFinal ==
  ASSUME CounterInv, panel = NoPanel, UNCHANGED <<panel, seat, saving, sales>>, left \subseteq left'
  PROVE  FinalInv' /\ Sold' = Sold
  <1>1. \A f \in saving' : ~Mounted(f)'
    BY DEF Mounted
  <1> QED
    BY <1>1, NoPanelUp DEF FinalInv, Sold

LEMMA AddLineHolds ==
  ASSUME CounterInv, NEW t \in Tickets, AddLine(t)
  PROVE  CounterHolds'
  <1>1. /\ panel = NoPanel /\ t \notin rung /\ rung' = rung \union {t} /\ cart' = cart \union {t}
        /\ UNCHANGED <<panel, seat, saving, sales, tray, moving, dropped, left>>
    BY DEF AddLine, AtCart
  <1>2. FinalInv' /\ Sold' = Sold /\ InTray' = InTray
    BY <1>1, NoPanelFinal DEF InTray
  <1>3. t \notin Sold /\ t \notin InTray
    BY <1>1, TrayInRung
  <1>4. RungInv'
    BY <1>1, <1>2 DEF CounterInv, RungInv
  <1>5. TrayInv'
    BY <1>1, <1>2, <1>3 DEF CounterInv, TrayInv
  <1>6. SoldOnce'
    <2>1. ASSUME NEW u \in rung \ left
          PROVE  /\ \A m, n \in DOMAIN sales' : u \in sales'[m].lines \cap sales'[n].lines => m = n
                 /\ u \in Sold' => /\ u \notin InTray'
                                   /\ u \in cart' => \E f \in saving' : f.saved /\ u \in f.lines
                 /\ u \notin Sold' \union dropped' =>
                       u \in cart' \union InTray' \union UNION {m.becomes : m \in moving'}
      BY <1>1, <1>2 DEF CounterInv, SoldOnce
    <2>2. \A n \in DOMAIN sales : t \notin sales[n].lines
      BY <1>3 DEF Sold
    <2> QED
      BY <1>1, <1>2, <1>3, <2>1, <2>2 DEF SoldOnce
  <1> QED
    BY <1>2, <1>4, <1>5, <1>6 DEF CounterHolds

LEMMA RemoveLineHolds ==
  ASSUME CounterInv, NEW gone \in SUBSET cart, RemoveLine(gone)
  PROVE  CounterHolds'
  <1>1. /\ panel = NoPanel /\ cart' = cart \ gone /\ dropped' = dropped \union gone
        /\ UNCHANGED <<rung, panel, seat, saving, sales, tray, moving, left>>
    BY DEF RemoveLine, AtCart
  <1>2. FinalInv' /\ Sold' = Sold /\ InTray' = InTray
    BY <1>1, NoPanelFinal DEF InTray
  <1>3. RungInv' /\ TrayInv'
    BY <1>1, <1>2 DEF CounterInv, RungInv, TrayInv
  <1>4. SoldOnce'
    BY <1>1, <1>2 DEF CounterInv, SoldOnce
  <1> QED
    BY <1>2, <1>3, <1>4 DEF CounterHolds

LEMMA CloseSheetHolds ==
  ASSUME CounterInv, CloseSheet
  PROVE  CounterHolds'
  <1>1. UNCHANGED <<rung, cart, panel, seat, saving, sales, tray, moving, dropped, left>>
    BY DEF CloseSheet
  <1>2. Sold' = Sold /\ InTray' = InTray
    BY <1>1 DEF Sold, InTray
  <1>3. FinalInv' /\ TrayInv'
    BY <1>1, <1>2 DEF CounterInv, FinalInv, TrayInv, Mounted
  <1>4. RungInv' /\ SoldOnce'
    BY <1>1, <1>2 DEF CounterInv, RungInv, SoldOnce
  <1> QED
    BY <1>3, <1>4 DEF CounterHolds

LEMMA ParkHolds ==
  ASSUME CounterInv, ParkActiveCart
  PROVE  CounterHolds'
  <1> DEFINE row == [id |-> parks + 1, lines |-> cart]
             move == [was |-> cart, becomes |-> {}]
  <1>1. /\ panel = NoPanel /\ tray' = tray \union {row} /\ moving' = moving \union {move}
        /\ left' = left \union Entangled
        /\ UNCHANGED <<rung, cart, panel, seat, saving, sales, dropped>>
    BY DEF ParkActiveCart, ParkSheet, AtCart
  <1>2. FinalInv' /\ Sold' = Sold
    BY <1>1, NoPanelFinal
  <1>3. InTray' = InTray \union cart
    <2>1. row.lines = cart
      OBVIOUS
    <2> HIDE DEF row
    <2> QED
      BY <1>1, <2>1 DEF InTray
  <1>4. cart \ left' # {} => moving = {}
    BY <1>1 DEF Entangled
  <1>5. (cart \cap InTray) \union (cart \cap Sold) \subseteq left'
    BY <1>1, <1>4, NoPanelUp, NothingMoves
  <1>6. TrayInv'
    <2>1. ASSUME NEW p \in tray', NEW q \in tray', (p.lines \cap q.lines) \ left' # {}
          PROVE  p = q
      <3>1. CASE p \in tray /\ q \in tray
        BY <1>1, <2>1, <3>1 DEF CounterInv, TrayInv
      <3>2. \A o \in tray : (o.lines \cap cart) \ left' = {}
        BY <1>5 DEF InTray
      <3>3. row.lines = cart
        OBVIOUS
      <3> HIDE DEF row
      <3> QED
        BY <1>1, <2>1, <3>1, <3>2, <3>3
    <2>2. \A u \in (cart' \cap InTray') \ left' : \E m \in moving' : u \in m.was /\ m.becomes = {}
      <3>1. move \in moving' /\ move.was = cart' /\ move.becomes = {}
        BY <1>1
      <3> QED
        BY <3>1
    <2>3. ASSUME NEW m \in moving'
          PROVE  /\ m.becomes = {} => m.was \ left' \subseteq InTray' \union dropped'
                 /\ (m.becomes \cap (InTray' \union Sold')) \subseteq left'
                 /\ (m.was \union m.becomes) \ left' # {} => moving' = {m}
      <3>1. CASE m \in moving
        <4>1. m.was \union m.becomes \subseteq left'
          BY <1>1, <3>1 DEF Entangled
        <4> QED
          BY <4>1
      <3>2. CASE m = move /\ moving = {}
        BY <1>1, <1>3, <3>2
      <3>3. CASE m = move /\ moving # {}
        BY <1>1, <1>3, <1>4, <3>3
      <3> QED
        BY <1>1, <3>1, <3>2, <3>3
    <2> QED
      BY <2>1, <2>2, <2>3 DEF TrayInv
  <1>7. SoldOnce'
    <2>1. UNION {m.becomes : m \in moving} \subseteq UNION {m.becomes : m \in moving'}
      BY <1>1
    <2> QED
      BY <1>1, <1>2, <1>3, <1>5, <2>1 DEF CounterInv, SoldOnce
  <1> QED
    BY <1>1, <1>2, <1>6, <1>7 DEF CounterHolds, CounterInv, RungInv

LEMMA ResumeHolds ==
  ASSUME CounterInv, NEW p \in tray, ResumeParkedCart(p)
  PROVE  CounterHolds'
  <1> DEFINE move == [was |-> cart, becomes |-> p.lines]
  <1>1. /\ panel = NoPanel /\ tray' = tray \ {p} /\ moving' = moving \union {move}
        /\ left' = left \union Entangled \union (IF moving = {} THEN {} ELSE p.lines)
        /\ UNCHANGED <<rung, cart, panel, seat, saving, sales, dropped>>
    BY DEF ResumeParkedCart, AtTray, TakenFromTray
  <1>2. FinalInv' /\ Sold' = Sold
    BY <1>1, NoPanelFinal
  <1>3. InTray = InTray' \union p.lines
    BY <1>1 DEF InTray
  <1>4. (cart \union p.lines) \ left' # {} => moving = {}
    BY <1>1 DEF Entangled
  <1>5. p.lines \cap (InTray' \union Sold) \subseteq left'
    <2>1. p.lines \cap InTray' \subseteq left
      BY <1>1 DEF CounterInv, TrayInv, InTray
    <2>2. p.lines \subseteq InTray /\ p.lines \subseteq rung
      BY <1>3, TrayInRung
    <2>3. p.lines \cap Sold \subseteq left
      BY <2>2 DEF CounterInv, SoldOnce
    <2> QED
      BY <1>1, <2>1, <2>3
  <1>6. p.lines # {}
    BY DEF CounterInv, CounterTypeOK
  <1>7. TrayInv'
    <2>1. ASSUME NEW q \in tray', NEW o \in tray', (q.lines \cap o.lines) \ left' # {}
          PROVE  q = o
      BY <1>1, <2>1 DEF CounterInv, TrayInv
    <2>2. \A u \in (cart' \cap InTray') \ left' : \E m \in moving' : u \in m.was /\ m.becomes = {}
      BY <1>1, <1>3 DEF CounterInv, TrayInv
    <2>3. ASSUME NEW m \in moving'
          PROVE  /\ m.becomes = {} => m.was \ left' \subseteq InTray' \union dropped'
                 /\ (m.becomes \cap (InTray' \union Sold')) \subseteq left'
                 /\ (m.was \union m.becomes) \ left' # {} => moving' = {m}
      <3>1. CASE m \in moving
        <4>1. m.was \union m.becomes \subseteq left'
          BY <1>1, <3>1 DEF Entangled
        <4> QED
          BY <4>1
      <3>2. CASE m = move
        <4>1. m.was = cart /\ m.becomes = p.lines
          BY <3>2
        <4>2. (m.was \union m.becomes) \ left' # {} => moving' = {m}
          BY <1>1, <1>4, <3>2, <4>1
        <4> QED
          BY <1>2, <1>5, <1>6, <4>1, <4>2
      <3> QED
        BY <1>1, <3>1, <3>2
    <2> QED
      BY <2>1, <2>2, <2>3 DEF TrayInv
  <1>8. SoldOnce'
    <2>1. /\ UNION {m.becomes : m \in moving} \subseteq UNION {m.becomes : m \in moving'}
          /\ p.lines \subseteq UNION {m.becomes : m \in moving'}
      <3>1. move \in moving' /\ move.becomes = p.lines
        BY <1>1
      <3> QED
        BY <1>1, <3>1
    <2> QED
      BY <1>1, <1>2, <1>3, <2>1 DEF CounterInv, SoldOnce
  <1> QED
    BY <1>1, <1>2, <1>7, <1>8 DEF CounterHolds, CounterInv, RungInv

LEMMA ReplaceCartHolds ==
  ASSUME CounterInv, NEW m \in moving, ReplaceCart(m)
  PROVE  CounterHolds'
  <1>1. /\ cart' = m.becomes /\ moving' = moving \ {m}
        /\ dropped' = dropped \union (IF m.becomes = {} THEN {} ELSE cart)
        /\ left' = left \union (cart \ m.was)
        /\ UNCHANGED <<rung, panel, seat, saving, sales, tray>>
    BY DEF ReplaceCart
  <1>2. Sold' = Sold /\ InTray' = InTray
    BY <1>1 DEF Sold, InTray
  <1>3. FinalInv'
    <2>1. ASSUME NEW f \in saving, Mounted(f)
          PROVE  /\ cart' \ f.lines \subseteq left'
                 /\ \A o \in moving' : o.was \union o.becomes \subseteq left'
                 /\ f.lines \subseteq left'
      <3>1. \A o \in moving : o.was \union o.becomes \subseteq left
        BY <2>1 DEF CounterInv, FinalInv
      <3>2. f.lines \ left \subseteq cart
        BY <2>1 DEF CounterInv, FinalInv
      <3> QED
        BY <1>1, <3>1, <3>2
    <2> QED
      BY <1>1, <2>1 DEF CounterInv, FinalInv, Mounted
  <1>4. m.becomes \cap (InTray \union Sold) \subseteq left
    BY DEF CounterInv, TrayInv
  <1>5. TrayInv'
    <2>1. ASSUME NEW p \in tray', NEW q \in tray', (p.lines \cap q.lines) \ left' # {}
          PROVE  p = q
      BY <1>1, <2>1 DEF CounterInv, TrayInv
    <2>2. (cart' \cap InTray') \ left' = {}
      BY <1>1, <1>2, <1>4
    <2>3. ASSUME NEW o \in moving'
          PROVE  o.was \union o.becomes \subseteq left
      BY <1>1 DEF CounterInv, TrayInv
    <2> QED
      BY <1>1, <2>1, <2>2, <2>3 DEF TrayInv
  <1>6. SoldOnce'
    <2>1. ASSUME NEW t \in rung \ left', t \notin Sold, t \notin dropped'
          PROVE  t \in cart' \union InTray \union UNION {o.becomes : o \in moving'}
      <3>1. t \in cart \union InTray \union UNION {o.becomes : o \in moving}
        BY <1>1, <2>1 DEF CounterInv, SoldOnce
      <3>2. CASE t \in cart
        <4>1. m.becomes = {} /\ t \in m.was
          BY <1>1, <2>1, <3>2
        <4> QED
          BY <1>1, <2>1, <4>1 DEF CounterInv, TrayInv
      <3> QED
        BY <1>1, <3>1, <3>2
    <2>2. ASSUME NEW t \in rung \ left', t \in Sold
          PROVE  t \notin InTray /\ t \notin cart'
      BY <1>1, <1>4, <2>2 DEF CounterInv, SoldOnce
    <2> QED
      BY <1>1, <1>2, <2>1, <2>2 DEF CounterInv, SoldOnce
  <1> QED
    BY <1>1, <1>2, <1>3, <1>5, <1>6 DEF CounterHolds, CounterInv, RungInv

(* A row that leaves the tray for good is dropped. *)
LEMMA TrayDrops ==
  ASSUME CounterInv, panel = NoPanel, tray' \subseteq tray,
         dropped' = dropped \union UNION {p.lines : p \in tray \ tray'},
         UNCHANGED <<rung, cart, panel, seat, saving, sales, moving, left>>
  PROVE  CounterHolds'
  <1>1. FinalInv' /\ Sold' = Sold
    BY NoPanelFinal
  <1>2. InTray' \subseteq InTray /\ InTray \subseteq InTray' \union dropped'
        /\ dropped \subseteq dropped'
    BY DEF InTray
  <1>3. TrayInv'
    <2>1. ASSUME NEW p \in tray', NEW q \in tray', (p.lines \cap q.lines) \ left' # {}
          PROVE  p = q
      BY <2>1 DEF CounterInv, TrayInv
    <2>2. \A u \in (cart' \cap InTray') \ left' : \E m \in moving' : u \in m.was /\ m.becomes = {}
      BY <1>2 DEF CounterInv, TrayInv
    <2>3. ASSUME NEW m \in moving'
          PROVE  /\ m.becomes = {} => m.was \ left' \subseteq InTray' \union dropped'
                 /\ (m.becomes \cap (InTray' \union Sold')) \subseteq left'
                 /\ (m.was \union m.becomes) \ left' # {} => moving' = {m}
      BY <1>1, <1>2 DEF CounterInv, TrayInv
    <2> QED
      BY <2>1, <2>2, <2>3 DEF TrayInv
  <1>4. SoldOnce'
    BY <1>1, <1>2 DEF CounterInv, SoldOnce
  <1> QED
    BY <1>1, <1>3, <1>4 DEF CounterHolds, CounterInv, RungInv

LEMMA DiscardHolds ==
  ASSUME CounterInv, NEW p \in tray, DiscardParkedCart(p)
  PROVE  CounterHolds'
  <1>1. tray \ tray' = {p} /\ tray' \subseteq tray
    BY DEF DiscardParkedCart
  <1>2. dropped' = dropped \union UNION {q.lines : q \in tray \ tray'}
    BY <1>1 DEF DiscardParkedCart
  <1> QED
    BY <1>1, <1>2, TrayDrops DEF DiscardParkedCart, AtTray

LEMMA ClearHolds ==
  ASSUME CounterInv, ClearParked
  PROVE  CounterHolds'
  <1>1. tray \ tray' = tray /\ tray' \subseteq tray
    BY DEF ClearParked
  <1> QED
    BY <1>1, TrayDrops DEF ClearParked, AtCart

-----------------------------------------------------------------------------
(* The more tickets have gone around it, the less there is to keep. *)
LEMMA LeftGrows ==
  ASSUME CounterInv, left \subseteq left',
         UNCHANGED <<rung, cart, sales, tray, moving, dropped>>
  PROVE  /\ TrayInv'
         /\ (\A f \in saving : f.saved => f.lines \subseteq left'
                \/ \E g \in saving' : g.saved /\ g.lines = f.lines) => SoldOnce'
  <1>1. Sold' = Sold /\ InTray' = InTray
    BY DEF Sold, InTray
  <1>2. TrayInv'
    BY <1>1 DEF CounterInv, TrayInv
  <1>3. ASSUME \A f \in saving : f.saved => f.lines \subseteq left'
                 \/ \E g \in saving' : g.saved /\ g.lines = f.lines
        PROVE  SoldOnce'
    <2>1. ASSUME NEW t \in rung \ left', \E f \in saving : f.saved /\ t \in f.lines
          PROVE  \E g \in saving' : g.saved /\ t \in g.lines
      BY <1>3, <2>1
    <2> QED
      BY <1>1, <2>1 DEF CounterInv, SoldOnce
  <1> QED
    BY <1>2, <1>3

LEMMA OpenPanelHolds ==
  ASSUME CounterInv, NEW how \in Hows, OpenPanel(how)
  PROVE  CounterHolds'
  <1>1. /\ panel = NoPanel /\ seat' = seat + 1
        /\ UNCHANGED <<rung, cart, saving, sales, tray, moving, dropped, left>>
    BY DEF OpenPanel, AtCart
  <1>2. \A f \in saving' : ~Mounted(f)'
    <2>1. \A f \in saving : f.seat \in Nat /\ f.seat <= seat /\ seat \in Nat
      BY SeatTypes DEF CounterInv
    <2> QED
      BY <1>1, <2>1 DEF Mounted
  <1>3. FinalInv'
    BY <1>1, <1>2, NoPanelUp DEF FinalInv
  <1> QED
    BY <1>1, <1>3, LeftGrows DEF CounterHolds, CounterInv, RungInv, Sold

LEMMA LeavePanelHolds ==
  ASSUME CounterInv, LeavePanel
  PROVE  CounterHolds'
  <1>1. /\ panel' = NoPanel /\ left' = left \union Unmounted'
        /\ UNCHANGED <<rung, cart, seat, saving, sales, tray, moving, dropped>>
    BY DEF LeavePanel
  <1>2. FinalInv'
    BY <1>1 DEF FinalInv, Mounted, Unmounted
  <1> QED
    BY <1>1, <1>2, LeftGrows DEF CounterHolds, CounterInv, RungInv, Sold

LEMMA HandleFinalizeHolds ==
  ASSUME CounterInv, HandleFinalize
  PROVE  CounterHolds'
  <1>0. PICK new : new = [lines |-> cart, how |-> panel.how, seat |-> seat, saved |-> FALSE]
    OBVIOUS
  <1>1. /\ panel # NoPanel /\ ~panel.submitting /\ panel' = [panel EXCEPT !.submitting = TRUE]
        /\ saving' = saving \union {new} /\ left' = left \union Entangled
        /\ UNCHANGED <<rung, cart, seat, sales, tray, moving, dropped>>
    BY <1>0 DEF HandleFinalize, TenderForm
  <1>2. Sold' = Sold /\ InTray' = InTray
    BY <1>1 DEF Sold, InTray
  <1>3. \A f \in saving : ~Mounted(f) /\ f.seat # seat /\ f.lines \subseteq left
    BY <1>1 DEF CounterInv, CounterTypeOK, FinalInv, Mounted
  <1>4. \A m \in moving : cart \union m.was \union m.becomes \subseteq left'
    BY <1>1 DEF Entangled
  <1>5. cart \cap (InTray \union Sold) \subseteq left'
    <2>1. cart \cap InTray \subseteq left'
      BY <1>1, <1>4 DEF CounterInv, TrayInv
    <2>2. cart \cap Sold \subseteq left
      BY <1>3, TrayInRung DEF CounterInv, SoldOnce
    <2> QED
      BY <1>1, <2>1, <2>2
  <1>6. new.lines = cart /\ new.seat = seat /\ ~new.saved
    BY <1>0
  <1>7. FinalInv'
    <2>1. \A f \in saving' : Mounted(f)' => f = new
      BY <1>1, <1>3 DEF Mounted
    <2>2. \A f \in saving' : f # new => f.lines \subseteq left'
      BY <1>1, <1>3
    <2>3. Mounted(new)'
      <3>1. panel'.submitting
        BY <1>1, PanelIsUp DEF CounterInv
      <3>2. panel' # NoPanel
        BY <3>1 DEF NoPanel
      <3> QED
        BY <1>1, <1>6, <3>2 DEF Mounted
    <2>4. /\ cart' \ new.lines \subseteq left'
          /\ \A m \in moving' : m.was \union m.becomes \subseteq left'
          /\ \A t \in new.lines \ left' : t \in cart' \ InTray' /\ (t \in Sold' <=> new.saved)
      BY <1>1, <1>2, <1>4, <1>5, <1>6
    <2> QED
      BY <2>1, <2>2, <2>3, <2>4 DEF FinalInv
  <1>8. RungInv'
    BY <1>1, <1>2, <1>6 DEF CounterInv, CounterTypeOK, RungInv
  <1> QED
    BY <1>1, <1>3, <1>7, <1>8, LeftGrows DEF CounterHolds

LEMMA SaveHolds ==
  ASSUME CounterInv, NEW f \in saving, Save(f)
  PROVE  CounterHolds'
  <1> DEFINE g == [f EXCEPT !.saved = TRUE]
             new == Len(sales) + 1
  <1>1. /\ ~f.saved /\ sales' = Append(sales, [lines |-> f.lines, pushed |-> FALSE])
        /\ saving' = (saving \ {f}) \union {g}
        /\ UNCHANGED <<rung, cart, panel, seat, tray, moving, dropped, left>>
    BY DEF Save
  <1>2. g.saved /\ g.lines = f.lines /\ g.seat = f.seat
    <2>1. f \in Finalisation
      BY SeatTypes DEF CounterInv
    <2> QED
      BY <2>1 DEF Finalisation
  <1>3. /\ DOMAIN sales' = DOMAIN sales \union {new} /\ new \notin DOMAIN sales
        /\ sales'[new].lines = f.lines /\ \A n \in DOMAIN sales : sales'[n] = sales[n]
    BY <1>1 DEF CounterInv, CounterTypeOK
  <1> HIDE DEF g, new
  <1>4. Sold' = Sold \union f.lines /\ InTray' = InTray
    BY <1>1, <1>3 DEF Sold, InTray
  <1>5. \A t \in f.lines \ left :
           /\ Mounted(f) /\ t \in cart \ InTray /\ t \notin Sold
           /\ \A m \in moving : t \notin m.becomes
    BY <1>1 DEF CounterInv, FinalInv
  <1>6. FinalInv'
    <2>1. \A h \in saving' : Mounted(h)' <=> Mounted(h)
      BY <1>1 DEF Mounted
    <2>2. Mounted(g) <=> Mounted(f)
      BY <1>2 DEF Mounted
    <2>3. \A h, k \in saving' : Mounted(h)' /\ Mounted(k)' => h = k
      BY <1>1, <2>1, <2>2 DEF CounterInv, FinalInv
    <2>4. \A h \in saving' : ~Mounted(h)' => h.lines \subseteq left'
      BY <1>1, <1>2, <2>1, <2>2 DEF CounterInv, FinalInv
    <2>5. ASSUME NEW h \in saving', Mounted(h)'
          PROVE  /\ cart' \ h.lines \subseteq left'
                 /\ \A m \in moving' : m.was \union m.becomes \subseteq left'
                 /\ \A t \in h.lines \ left' : t \in cart' \ InTray' /\ (t \in Sold' <=> h.saved)
      <3>1. CASE h = g
        BY <1>1, <1>2, <1>4, <2>2, <2>1, <2>5, <3>1 DEF CounterInv, FinalInv
      <3>2. CASE h \in saving \ {f}
        <4>1. Mounted(h) /\ ~Mounted(f)
          BY <2>1, <2>5, <3>2 DEF CounterInv, FinalInv
        <4>2. f.lines \subseteq left
          BY <4>1 DEF CounterInv, FinalInv
        <4>3. \A t \in h.lines \ left : t \in Sold' <=> t \in Sold
          BY <1>4, <3>2, <4>1, <4>2 DEF CounterInv, FinalInv
        <4> QED
          BY <1>1, <1>4, <3>2, <4>1, <4>3 DEF CounterInv, FinalInv
      <3> QED
        BY <1>1, <3>1, <3>2
    <2> QED
      BY <2>3, <2>4, <2>5 DEF FinalInv
  <1>7. TrayInv'
    <2>1. ASSUME NEW m \in moving
          PROVE  (m.becomes \cap (InTray \union Sold')) \subseteq left
      BY <1>4, <1>5 DEF CounterInv, TrayInv
    <2> QED
      BY <1>1, <1>4, <2>1 DEF CounterInv, TrayInv
  <1>8. SoldOnce'
    <2>1. ASSUME NEW t \in rung \ left, NEW m \in DOMAIN sales', NEW n \in DOMAIN sales',
                 t \in sales'[m].lines \cap sales'[n].lines
          PROVE  m = n
      <3>1. CASE m \in DOMAIN sales /\ n \in DOMAIN sales
        BY <1>3, <2>1, <3>1 DEF CounterInv, SoldOnce
      <3>2. t \in f.lines => \A o \in DOMAIN sales : t \notin sales[o].lines
        BY <1>5, <2>1 DEF Sold
      <3> QED
        BY <1>3, <2>1, <3>1, <3>2
    <2>2. ASSUME NEW t \in rung \ left, t \in Sold'
          PROVE  /\ t \notin InTray'
                 /\ t \in cart' => \E h \in saving' : h.saved /\ t \in h.lines
      <3>1. CASE t \in f.lines
        BY <1>1, <1>2, <1>4, <1>5, <2>2, <3>1
      <3>2. CASE t \in Sold
        BY <1>1, <1>4, <2>2, <3>2 DEF CounterInv, SoldOnce
      <3> QED
        BY <1>4, <2>2, <3>1, <3>2
    <2>3. ASSUME NEW t \in rung \ left, t \notin Sold' \union dropped'
          PROVE  t \in cart' \union InTray' \union UNION {m.becomes : m \in moving'}
      BY <1>1, <1>4, <2>3 DEF CounterInv, SoldOnce
    <2> QED
      BY <1>1, <2>1, <2>2, <2>3 DEF SoldOnce
  <1>9. RungInv'
    BY <1>1, <1>2, <1>4 DEF CounterInv, RungInv
  <1> QED
    BY <1>6, <1>7, <1>8, <1>9 DEF CounterHolds

LEMMA AfterHolds ==
  ASSUME CounterInv, NEW f \in saving, After(f)
  PROVE  CounterHolds'
  <1>1. /\ f.saved /\ cart' = {} /\ panel' = NoPanel /\ saving' = saving \ {f}
        /\ left' = left \union Unmounted' \union (IF Mounted(f) THEN {} ELSE cart)
        /\ UNCHANGED <<rung, seat, sales, tray, moving, dropped>>
    BY DEF After, Cleared
  <1>2. Sold' = Sold /\ InTray' = InTray
    BY <1>1 DEF Sold, InTray
  <1>3. FinalInv'
    BY <1>1 DEF FinalInv, Mounted, Unmounted
  <1>4. TrayInv'
    BY <1>1, <1>2 DEF CounterInv, TrayInv
  <1>5. cart \ left' \subseteq Sold
    BY <1>1 DEF CounterInv, FinalInv
  <1>6. SoldOnce'
    BY <1>1, <1>2, <1>5 DEF CounterInv, SoldOnce
  <1>7. RungInv'
    BY <1>1, <1>2 DEF CounterInv, RungInv
  <1> QED
    BY <1>3, <1>4, <1>6, <1>7 DEF CounterHolds

LEMMA FailsHolds ==
  ASSUME CounterInv, NEW f \in saving, Fails(f)
  PROVE  CounterHolds'
  <1>1. /\ ~f.saved /\ saving' = saving \ {f}
        /\ UNCHANGED <<rung, cart, seat, sales, tray, moving, dropped, left>>
    BY DEF Fails
  <1>2. Sold' = Sold /\ InTray' = InTray
    BY <1>1 DEF Sold, InTray
  <1>3. \A h \in saving' : Mounted(h)' <=> Mounted(h)
    <2>1. CASE Mounted(f)
      <3>1. \A h \in saving' : ~Mounted(h)
        BY <1>1, <2>1 DEF CounterInv, FinalInv
      <3>2. \A h \in saving' : h.seat # seat
        BY <2>1, <3>1 DEF Mounted
      <3> QED
        BY <1>1, <3>1, <3>2 DEF Mounted
    <2>2. CASE ~Mounted(f)
      BY <1>1, <2>2 DEF Fails, FreesPanel, Mounted
    <2> QED
      BY <2>1, <2>2
  <1>4. FinalInv'
    BY <1>1, <1>2, <1>3 DEF CounterInv, FinalInv
  <1>5. RungInv'
    BY <1>1, <1>2 DEF CounterInv, RungInv
  <1> QED
    BY <1>1, <1>4, <1>5, LeftGrows DEF CounterHolds

LEMMA TabDiesHolds ==
  ASSUME CounterInv, TabDies
  PROVE  CounterHolds'
  <1>1. /\ cart' = {} /\ saving' = {} /\ moving' = {}
        /\ dropped' = dropped \union cart \union UNION {m.becomes : m \in moving}
        /\ UNCHANGED <<rung, sales, tray, left>>
    BY DEF TabDies
  <1>2. Sold' = Sold /\ InTray' = InTray
    BY <1>1 DEF Sold, InTray
  <1>3. FinalInv' /\ RungInv' /\ TrayInv'
    BY <1>1, <1>2 DEF CounterInv, FinalInv, RungInv, TrayInv
  <1>4. SoldOnce'
    BY <1>1, <1>2 DEF CounterInv, SoldOnce
  <1> QED
    BY <1>3, <1>4 DEF CounterHolds

LEMMA CounterStep ==
  ASSUME CounterInv, [CounterNext]_counterVars
  PROVE  CounterInv'
  <1>1. CounterTypeOK'
    BY CounterStepType DEF CounterInv
  <1>2. CASE UNCHANGED counterVars
    <2>1. UNCHANGED <<rung, cart, panel, seat, saving, sales, tray, moving, dropped, left>>
      BY <1>2 DEF counterVars, counter
    <2>2. Sold' = Sold /\ InTray' = InTray /\ \A f \in saving : Mounted(f)' <=> Mounted(f)
      BY <2>1 DEF Sold, InTray, Mounted
    <2>3. RungInv' /\ FinalInv'
      BY <2>1, <2>2 DEF CounterInv, RungInv, FinalInv
    <2>4. TrayInv' /\ SoldOnce'
      BY <2>1, <2>2 DEF CounterInv, TrayInv, SoldOnce
    <2> QED
      BY <1>1, <2>3, <2>4 DEF CounterInv
  <1>3. CASE CounterNext
    <2>1. CounterHolds'
      BY <1>3, StockHolds, AddLineHolds, RemoveLineHolds, ParkHolds, CloseSheetHolds, ClearHolds,
         ReplaceCartHolds, ResumeHolds, DiscardHolds, OpenPanelHolds, LeavePanelHolds,
         HandleFinalizeHolds, SaveHolds, AfterHolds, FailsHolds, TabDiesHolds
         DEF CounterNext, StockStep
    <2> QED
      BY <1>1, <2>1 DEF CounterInv, CounterHolds
  <1> QED
    BY <1>2, <1>3

THEOREM CounterInvariant == CounterSpec => []CounterInv
  <1>1. CounterInit => CounterInv
    BY CounterInitType, CounterInitHolds DEF CounterInv, CounterHolds
  <1> QED
    BY <1>1, CounterStep, PTL DEF CounterSpec

(* Whatever is parked, resumed, tendered, retried or lost with the tab, no    *)
(* ticket is sold twice and none is mislaid, save those that have gone around *)
(* a panel or a sheet, which left holds.                                      *)
THEOREM TicketsSoldOnce == CounterSpec => []SoldOnce
  <1>1. CounterInv => SoldOnce
    BY DEF CounterInv
  <1> QED
    BY <1>1, CounterInvariant, PTL

-----------------------------------------------------------------------------
-----------------------------------------------------------------------------
(* A label never hides stock. *)

(* A snapshot on its way hides no stock either. *)
SnapshotInv ==
    snapshot # None =>
       \A k \in Stocked : snapshot.onHand[k] + returned[k] >= onHand[k] - Outstanding(k)

StockInv == CounterTypeOK /\ LabelNeverHides /\ SnapshotInv

LEMMA OutstandingIsDue ==
  ASSUME CounterTypeOK, NEW k \in Stocked
  PROVE  /\ Outstanding(k) = Due(sales, k) /\ Outstanding(k)' = Due(sales', k)
         /\ Due(sales, k) \in Nat
         /\ label[k] \in Int /\ onHand[k] \in Int /\ returned[k] \in Nat
         /\ snapshot # None => snapshot.onHand[k] \in Int
  <1>1. Outstanding(k) = Due(sales, k) /\ Outstanding(k)' = Due(sales', k)
    BY DEF Outstanding, Due, Owing, MapThenSumSet, MapThenFoldSet
  <1>2. Due(sales, k) \in Nat
    BY DueTally DEF CounterTypeOK
  <1> QED
    BY <1>1, <1>2 DEF CounterTypeOK

LEMMA StockInit == CounterInit => LabelNeverHides /\ SnapshotInv
  <1> SUFFICES ASSUME CounterInit PROVE LabelNeverHides /\ SnapshotInv
    OBVIOUS
  <1>1. ASSUME NEW k \in Stocked PROVE label[k] + returned[k] >= onHand[k] - Outstanding(k)
    <2>1. CounterTypeOK
      BY CounterInitType
    <2>2. Outstanding(k) \in Nat /\ OnHand[k] \in Int
      BY <2>1, OutstandingIsDue, CounterAssumption
    <2> QED
      BY <2>2 DEF CounterInit
  <1> QED
    BY <1>1 DEF CounterInit, LabelNeverHides, SnapshotInv

LEMMA SaveHides ==
  ASSUME OwnStock, StockInv, NEW f \in saving, Save(f)
  PROVE  LabelNeverHides' /\ SnapshotInv'
  <1>1. f \in Finalisation /\ f.lines \in Carts /\ f.lines \in SUBSET Tickets /\ sales \in Seq(SaleRow)
    BY SeatTypes DEF StockInv, CounterTypeOK
  <1>2. UNCHANGED <<onHand, returned, snapshot>>
    BY DEF Save
  <1>3. ASSUME NEW k \in Stocked
        PROVE  /\ label'[k] = label[k] - Takes(f)[k]
               /\ Takes(f)[k] <= Demand(f.lines, k)
               /\ Demand(f.lines, k) \in Nat /\ Takes(f)[k] \in Nat
               /\ Outstanding(k)' = Outstanding(k) + Demand(f.lines, k)
    <2>1. Takes(f)[k] <= Demand(f.lines, k) /\ Takes(f)[k] \in Nat
      BY <1>1, TakesType
    <2>2. Demand(f.lines, k) \in Nat
      BY <1>1, DemandTally
    <2>3. Due(sales', k) = Due(sales, k) + Demand(f.lines, k)
      BY <1>1, DueSaved DEF Save
    <2> QED
      BY <2>1, <2>2, <2>3, OutstandingIsDue DEF Save, Less, StockInv
  <1>4. ASSUME NEW k \in Stocked
        PROVE  /\ label'[k] + returned'[k] >= onHand'[k] - Outstanding(k)'
               /\ snapshot # None => snapshot.onHand[k] + returned[k] >= onHand[k] - Outstanding(k)'
    <2>1. /\ label[k] + returned[k] >= onHand[k] - Outstanding(k)
          /\ snapshot # None => snapshot.onHand[k] + returned[k] >= onHand[k] - Outstanding(k)
      BY DEF StockInv, LabelNeverHides, SnapshotInv
    <2>2. /\ Outstanding(k) \in Nat /\ label[k] \in Int /\ onHand[k] \in Int /\ returned[k] \in Nat
          /\ snapshot # None => snapshot.onHand[k] \in Int
      BY OutstandingIsDue DEF StockInv
    <2> QED
      BY <1>2, <1>3, <2>1, <2>2
  <1> QED
    BY <1>2, <1>4 DEF LabelNeverHides, SnapshotInv

LEMMA PushHides ==
  ASSUME StockInv, NEW n \in DOMAIN sales, PushSale(n)
  PROVE  LabelNeverHides' /\ SnapshotInv'
  <1>1. sales \in Seq(SaleRow) /\ sales[n].lines \in SUBSET Tickets
    <2>1. sales \in Seq(SaleRow)
      BY DEF StockInv, CounterTypeOK
    <2>2. sales[n] \in SaleRow
      BY <2>1
    <2> QED
      BY <2>1, <2>2 DEF SaleRow, Carts
  <1>2. UNCHANGED <<label, returned, snapshot>>
    BY DEF PushSale
  <1>3. ASSUME NEW k \in Stocked
        PROVE  /\ onHand'[k] = onHand[k] - Demand(sales[n].lines, k)
               /\ Outstanding(k)' = Outstanding(k) - Demand(sales[n].lines, k)
               /\ Demand(sales[n].lines, k) \in Nat
    <2>1. Demand(sales[n].lines, k) \in Nat
      BY <1>1, DemandTally
    <2>2. Due(sales', k) = Due(sales, k) - Demand(sales[n].lines, k)
      BY <1>1, DuePushed DEF PushSale
    <2> QED
      BY <2>1, <2>2, OutstandingIsDue DEF PushSale, Less, StockInv
  <1>4. ASSUME NEW k \in Stocked
        PROVE  /\ label'[k] + returned'[k] >= onHand'[k] - Outstanding(k)'
               /\ snapshot # None => snapshot.onHand[k] + returned[k] >= onHand'[k] - Outstanding(k)'
    <2>1. /\ label[k] + returned[k] >= onHand[k] - Outstanding(k)
          /\ snapshot # None => snapshot.onHand[k] + returned[k] >= onHand[k] - Outstanding(k)
      BY DEF StockInv, LabelNeverHides, SnapshotInv
    <2>2. /\ Outstanding(k) \in Nat /\ label[k] \in Int /\ onHand[k] \in Int /\ returned[k] \in Nat
          /\ snapshot # None => snapshot.onHand[k] \in Int
      BY OutstandingIsDue DEF StockInv
    <2> QED
      BY <1>2, <1>3, <2>1, <2>2
  <1> QED
    BY <1>2, <1>4 DEF LabelNeverHides, SnapshotInv

LEMMA ReturnHides ==
  ASSUME StockInv, NEW i \in Stocked, Return(i)
  PROVE  LabelNeverHides' /\ SnapshotInv'
  <1>1. UNCHANGED <<sales, label, snapshot>>
    BY DEF Return
  <1>2. ASSUME NEW k \in Stocked
        PROVE  /\ Outstanding(k)' = Outstanding(k)
               /\ \E d \in {0, 1} : returned'[k] = returned[k] + d /\ onHand'[k] = onHand[k] + d
    <2>1. Outstanding(k)' = Outstanding(k)
      BY <1>1, OutstandingIsDue DEF StockInv
    <2>2. onHand[k] \in Int /\ returned[k] \in Nat
      BY OutstandingIsDue DEF StockInv
    <2> QED
      BY <2>1, <2>2 DEF Return, StockInv, CounterTypeOK
  <1>3. ASSUME NEW k \in Stocked
        PROVE  /\ label'[k] + returned'[k] >= onHand'[k] - Outstanding(k)'
               /\ snapshot # None => snapshot.onHand[k] + returned'[k] >= onHand'[k] - Outstanding(k)'
    <2>1. /\ label[k] + returned[k] >= onHand[k] - Outstanding(k)
          /\ snapshot # None => snapshot.onHand[k] + returned[k] >= onHand[k] - Outstanding(k)
      BY DEF StockInv, LabelNeverHides, SnapshotInv
    <2>2. /\ Outstanding(k) \in Nat /\ label[k] \in Int /\ onHand[k] \in Int /\ returned[k] \in Nat
          /\ snapshot # None => snapshot.onHand[k] \in Int
      BY OutstandingIsDue DEF StockInv
    <2> QED
      BY <1>1, <1>2, <2>1, <2>2
  <1> QED
    BY <1>1, <1>3 DEF LabelNeverHides, SnapshotInv

LEMMA PullHides ==
  ASSUME StockInv, ListSnapshot \/ ApplySnapshot \/ SnapshotLost
  PROVE  LabelNeverHides' /\ SnapshotInv'
  <1>1. UNCHANGED <<sales, onHand, returned>>
    BY DEF ListSnapshot, ApplySnapshot, SnapshotLost
  <1>2. \A k \in Stocked : /\ Outstanding(k)' = Outstanding(k) /\ Outstanding(k) \in Nat
                           /\ onHand[k] \in Int /\ returned[k] \in Nat
    BY <1>1, OutstandingIsDue DEF StockInv
  <1>3. CASE ListSnapshot
    <2>1. \A k \in Stocked : onHand[k] + returned[k] >= onHand[k] - Outstanding(k)
      BY <1>2
    <2> QED
      BY <1>1, <1>2, <1>3, <2>1 DEF ListSnapshot, StockInv, LabelNeverHides, SnapshotInv
  <1>4. CASE ApplySnapshot
    BY <1>1, <1>2, <1>4 DEF ApplySnapshot, Overwritten, StockInv, LabelNeverHides, SnapshotInv
  <1>5. CASE SnapshotLost
    BY <1>1, <1>2, <1>5 DEF SnapshotLost, StockInv, LabelNeverHides, SnapshotInv
  <1> QED
    BY <1>3, <1>4, <1>5

(* No other step touches the stock, but for the tab that loses a snapshot. *)
LEMMA OtherHides ==
  ASSUME StockInv, UNCHANGED <<sales, label, onHand, returned>>,
         snapshot' = snapshot \/ snapshot' = None
  PROVE  LabelNeverHides' /\ SnapshotInv'
  <1>1. \A k \in Stocked : Outstanding(k)' = Outstanding(k)
    BY OutstandingIsDue DEF StockInv
  <1> QED
    BY <1>1 DEF StockInv, LabelNeverHides, SnapshotInv

(* Where the recipe of an item with stock of its own takes that stock, the    *)
(* label is never lower than what is left to sell: the order of sales,        *)
(* pushes, returns and pulls does not matter.                                 *)
THEOREM LabelsNeverHide ==
  ASSUME OwnStock
  PROVE  CounterSpec => []LabelNeverHides
  <1>1. CounterInit => LabelNeverHides /\ SnapshotInv
    BY StockInit
  <1>2. CounterInv /\ LabelNeverHides /\ SnapshotInv /\ [CounterNext]_counterVars
           => LabelNeverHides' /\ SnapshotInv'
    <2> SUFFICES ASSUME StockInv, [CounterNext]_counterVars PROVE LabelNeverHides' /\ SnapshotInv'
      BY DEF StockInv, CounterInv
    <2>1. ASSUME NEW f \in saving, Save(f) PROVE LabelNeverHides' /\ SnapshotInv'
      BY <2>1, SaveHides
    <2>2. CASE StockStep
      BY <2>2, PushHides, ReturnHides, PullHides DEF StockStep
    <2>3. CASE UNCHANGED <<sales, label, onHand, returned>>
               /\ (snapshot' = snapshot \/ snapshot' = None)
      BY <2>3, OtherHides
    <2>4. \/ \E f \in saving : Save(f)
          \/ StockStep
          \/ /\ UNCHANGED <<sales, label, onHand, returned>>
             /\ snapshot' = snapshot \/ snapshot' = None
      BY DEF CounterNext, StockStep, counterVars, stock, AddLine, RemoveLine, ParkActiveCart,
             CloseSheet, ClearParked, ReplaceCart, ResumeParkedCart, DiscardParkedCart, OpenPanel,
             LeavePanel, HandleFinalize, After, Fails, RolledBack, TabDies
    <2> QED
      BY <2>1, <2>2, <2>3, <2>4
  <1> QED
    BY <1>1, <1>2, CounterInvariant, PTL DEF CounterSpec

-----------------------------------------------------------------------------
PrintSpec == PrintInit /\ [][PrintNext]_printVars

Job == [visit : Nat, sent : 0..Chunks, left : BOOLEAN,
        step : {"device", "connect", "write", "cut", "done", "failed", "dead"}]

PrintTypeOK ==
    /\ slip \in Slips /\ visit \in Nat
    /\ shown \in {"idle", "printing", "done", "fallback"}
    /\ jobs \in Seq(Job) /\ air \in Seq(Nat) /\ paper \in Seq(Nat) /\ lost \subseteq Nat
    /\ printer \in {"none", "paired", "connected"} /\ failed \in BOOLEAN

NoneLeft == \A n \in DOMAIN jobs : ~jobs[n].left

(* The job under way is the last one tapped, and its screen shows it. *)
OneJob ==
    NoneLeft => \A n \in DOMAIN jobs : UnderWayNow(n) =>
        n = Len(jobs) /\ jobs[n].visit = visit /\ shown = "printing"

(* The roll ends in k chunks of job n; it holds n's whole receipt in a piece. *)
Tails(n, k, roll) ==
    k <= Len(roll) /\ \A i \in (Len(roll) - k + 1)..Len(roll) : roll[i] = n

Whole(n, roll) ==
    \E at \in DOMAIN roll : /\ at + Chunks - 1 <= Len(roll)
                             /\ \A i \in at..(at + Chunks - 1) : roll[i] = n

(* What a job under way has sent is the last that was sent. *)
EndsRoll ==
    NoneLeft => \A n \in DOMAIN jobs \ lost : UnderWayNow(n) => Tails(n, jobs[n].sent, Roll)

PrintInv == PrintTypeOK /\ OneJob /\ EndsRoll /\ PrintsWhole

LEMMA RollType == PrintTypeOK => Roll \in Seq(Nat) /\ Len(Roll) = Len(paper) + Len(air)
  BY DEF PrintTypeOK, Roll

(* A loss of what was on its way disturbs no job that had nothing in it. *)
LEMMA AirCut ==
  ASSUME NEW old \in Seq(Nat), NEW way \in Seq(Nat), NEW n, \A i \in DOMAIN way : way[i] # n
  PROVE  /\ Whole(n, old \o way) => Whole(n, old)
         /\ \A k \in Nat : Tails(n, k, old \o way) => Tails(n, k, old)
  <1> DEFINE roll == old \o way
  <1>1. /\ roll \in Seq(Nat) /\ Len(roll) = Len(old) + Len(way)
        /\ Len(old) \in Nat /\ Len(way) \in Nat
        /\ \A i \in 1..Len(old) : roll[i] = old[i]
        /\ \A i \in (Len(old) + 1)..Len(roll) : roll[i] # n
    <2>1. /\ Len(old) \in Nat /\ Len(way) \in Nat
          /\ DOMAIN way = 1..Len(way) /\ DOMAIN old = 1..Len(old)
      OBVIOUS
    <2>2. roll \in Seq(Nat) /\ Len(roll) = Len(old) + Len(way)
      OBVIOUS
    <2>3. \A i \in 1..(Len(old) + Len(way)) :
             roll[i] = IF i <= Len(old) THEN old[i] ELSE way[i - Len(old)]
      OBVIOUS
    <2> HIDE DEF roll
    <2>4. \A i \in 1..Len(old) : i \in 1..(Len(old) + Len(way)) /\ i <= Len(old)
      BY <2>1
    <2>5. \A i \in (Len(old) + 1)..Len(roll) :
             /\ i \in 1..(Len(old) + Len(way)) /\ ~(i <= Len(old))
             /\ i - Len(old) \in DOMAIN way
      BY <2>1, <2>2
    <2> QED
      BY <2>1, <2>2, <2>3, <2>4, <2>5
  <1>2. ASSUME Whole(n, roll) PROVE Whole(n, old)
    <2>1. PICK at \in DOMAIN roll : /\ at + Chunks - 1 <= Len(roll)
                                     /\ \A i \in at..(at + Chunks - 1) : roll[i] = n
      BY <1>2 DEF Whole
    <2>2. at \in 1..Len(roll) /\ at + Chunks - 1 \in at..(at + Chunks - 1)
      <3>1. at \in 1..Len(roll)
        BY <1>1, <2>1
      <3>2. at \in Nat /\ Chunks \in Nat \ {0}
        BY <3>1, PrintAssumption
      <3> QED
        BY <3>1, <3>2
    <2>3. at + Chunks - 1 <= Len(old)
      <3> DEFINE e == at + Chunks - 1
      <3>1. e \in Nat /\ e <= Len(roll) /\ roll[e] = n
        BY <1>1, <2>1, <2>2, PrintAssumption
      <3> HIDE DEF e
      <3>2. ~(e <= Len(old)) => e \in (Len(old) + 1)..Len(roll)
        BY <1>1, <3>1
      <3>3. e <= Len(old)
        BY <1>1, <3>1, <3>2
      <3> QED
        BY <3>3 DEF e
    <2>4. at \in DOMAIN old /\ \A i \in at..(at + Chunks - 1) : old[i] = n
      BY <1>1, <2>1, <2>2, <2>3, PrintAssumption
    <2> QED
      BY <2>3, <2>4 DEF Whole
  <1>3. ASSUME NEW k \in Nat, Tails(n, k, roll) PROVE Tails(n, k, old)
    <2>1. CASE k = 0
      BY <1>1, <2>1 DEF Tails
    <2>2. CASE k # 0
      <3>1. k <= Len(roll) /\ \A i \in (Len(roll) - k + 1)..Len(roll) : roll[i] = n
        BY <1>3 DEF Tails
      <3> DEFINE last == Len(roll)
      <3>2. last \in Nat
        BY <1>1
      <3> HIDE DEF last
      <3>3. last \in (last - k + 1)..last
        BY <2>2, <3>2
      <3>4. roll[Len(roll)] = n /\ k <= Len(roll)
        BY <3>1, <3>3 DEF last
      <3>5. Len(roll) \notin (Len(old) + 1)..Len(roll)
        BY <1>1, <3>4
      <3>6. Len(roll) = Len(old)
        BY <1>1, <3>5
      <3>7. k <= Len(old) /\ \A i \in (Len(old) - k + 1)..Len(old) : roll[i] = n
        BY <1>3, <3>6 DEF Tails
      <3>8. (Len(old) - k + 1)..Len(old) \subseteq 1..Len(old)
        BY <1>1, <3>7
      <3> QED
        BY <1>1, <3>7, <3>8 DEF Tails
    <2> QED
      BY <2>1, <2>2
  <1> QED
    BY <1>2, <1>3 DEF roll

LEMMA PrintInitHolds == PrintInit => PrintInv
  <1> SUFFICES ASSUME PrintInit PROVE PrintInv
    OBVIOUS
  <1>1. DOMAIN jobs = {} /\ jobs \in Seq(Job) /\ air \in Seq(Nat) /\ paper \in Seq(Nat)
    BY DEF PrintInit
  <1>2. PrintTypeOK
    BY <1>1 DEF PrintInit, PrintTypeOK
  <1> QED
    BY <1>1, <1>2 DEF PrintInv, OneJob, EndsRoll, PrintsWhole

(* What was sent stays in its place. *)
LEMMA RollGrows ==
  ASSUME NEW roll \in Seq(Nat), NEW m \in Nat, NEW n, Whole(n, roll)
  PROVE  Whole(n, Append(roll, m))
  <1>1. PICK at \in DOMAIN roll : /\ at + Chunks - 1 <= Len(roll)
                                   /\ \A i \in at..(at + Chunks - 1) : roll[i] = n
    BY DEF Whole
  <1>2. at \in DOMAIN Append(roll, m) /\ at + Chunks - 1 <= Len(Append(roll, m))
    BY <1>1, PrintAssumption, SMTT(30)
  <1>3. \A i \in at..(at + Chunks - 1) : Append(roll, m)[i] = n
    BY <1>1, PrintAssumption, SMTT(30)
  <1> QED
    BY <1>2, <1>3 DEF Whole

(* A step that moves the steps of jobs, and starts or sends nothing. *)
LEMMA JobsMove ==
  ASSUME PrintInv, PrintTypeOK', DOMAIN jobs' = DOMAIN jobs, lost \subseteq lost',
         \A n \in DOMAIN jobs \ lost' :
            /\ Whole(n, Roll) => Whole(n, Roll')
            /\ \A k \in Nat : Tails(n, k, Roll) => Tails(n, k, Roll'),
         \A n \in DOMAIN jobs :
            /\ jobs'[n].sent = jobs[n].sent /\ jobs'[n].visit = jobs[n].visit
            /\ jobs[n].left => jobs'[n].left
            /\ UnderWayNow(n)' => UnderWayNow(n)
            /\ jobs'[n].step = "done" => jobs[n].step = "done" \/ (jobs[n].step = "write" /\ jobs[n].sent = Chunks),
         NoneLeft' => (\A n \in DOMAIN jobs : ~UnderWayNow(n)') \/ UNCHANGED <<visit, shown>>
  PROVE  PrintInv'
  <1>1. NoneLeft' => NoneLeft
    BY DEF NoneLeft
  <1>2. jobs \in Seq(Job) /\ jobs' \in Seq(Job) /\ Len(jobs') = Len(jobs)
    BY DEF PrintInv, PrintTypeOK
  <1>3. OneJob'
    BY <1>1, <1>2 DEF PrintInv, OneJob
  <1>4. EndsRoll'
    <2> SUFFICES ASSUME NoneLeft', NEW n \in DOMAIN jobs \ lost', UnderWayNow(n)'
                 PROVE  Tails(n, jobs'[n].sent, Roll')
      BY DEF EndsRoll
    <2>1. jobs[n] \in Job
      BY <1>2
    <2>2. jobs[n].sent \in Nat
      BY <2>1, PrintAssumption DEF Job
    <2>3. Tails(n, jobs[n].sent, Roll)
      BY <1>1 DEF PrintInv, EndsRoll
    <2> QED
      BY <2>2, <2>3
  <1>5. PrintsWhole'
    <2> SUFFICES ASSUME NoneLeft', NEW n \in DOMAIN jobs \ lost', jobs'[n].step = "done"
                 PROVE  Whole(n, Roll')
      BY DEF PrintsWhole, Whole, NoneLeft
    <2>1. CASE jobs[n].step = "done"
      BY <1>1, <2>1 DEF PrintInv, PrintsWhole, Whole, NoneLeft
    <2>2. CASE jobs[n].step = "write" /\ jobs[n].sent = Chunks
      <3>1. Tails(n, Chunks, Roll)
        BY <1>1, <2>2 DEF PrintInv, EndsRoll, UnderWayNow
      <3>2. /\ Chunks \in Nat \ {0} /\ Roll \in Seq(Nat) /\ Len(Roll) \in Nat
            /\ DOMAIN Roll = 1..Len(Roll)
        BY PrintAssumption, RollType DEF PrintInv
      <3> DEFINE at == Len(Roll) - Chunks + 1
      <3>3. at \in DOMAIN Roll /\ at + Chunks - 1 = Len(Roll)
        BY <3>1, <3>2 DEF Tails
      <3>4. \A i \in at..(at + Chunks - 1) : Roll[i] = n
        BY <3>1, <3>3 DEF Tails
      <3> QED
        BY <3>3, <3>4 DEF Whole
    <2> QED
      BY <2>1, <2>2
  <1> QED
    BY <1>3, <1>4, <1>5 DEF PrintInv

LEMMA TapHolds ==
  ASSUME PrintInv, TapPrint
  PROVE  PrintInv'
  <1> DEFINE new == [visit |-> visit, step |-> "device", sent |-> 0, left |-> FALSE]
  <1>1. /\ shown # "printing" /\ shown' = "printing" /\ jobs' = Append(jobs, new)
        /\ UNCHANGED <<slip, visit, printer, failed, air, paper, lost>>
    BY DEF TapPrint, Tappable, radio
  <1>2. jobs \in Seq(Job) /\ new \in Job /\ Roll \in Seq(Nat)
    BY PrintAssumption, RollType DEF PrintInv, PrintTypeOK, Job
  <1>3. /\ new.visit = visit /\ new.sent = 0 /\ new.step = "device"
    OBVIOUS
  <1> HIDE DEF new
  <1>4. /\ jobs' \in Seq(Job) /\ Len(jobs') = Len(jobs) + 1 /\ jobs'[Len(jobs')] = new
        /\ DOMAIN jobs \subseteq DOMAIN jobs'
        /\ \A n \in DOMAIN jobs : jobs'[n] = jobs[n]
        /\ \A n \in DOMAIN jobs' : n \in DOMAIN jobs \/ n = Len(jobs')
    BY <1>1, <1>2
  <1>5. PrintTypeOK'
    BY <1>1, <1>4 DEF PrintInv, PrintTypeOK
  <1>6. NoneLeft' => NoneLeft
    BY <1>4 DEF NoneLeft
  <1>7. NoneLeft' => \A n \in DOMAIN jobs' : UnderWayNow(n)' => n = Len(jobs')
    BY <1>1, <1>4, <1>6 DEF PrintInv, OneJob, UnderWayNow
  <1>8. OneJob'
    BY <1>1, <1>3, <1>4, <1>7 DEF OneJob
  <1>9. EndsRoll'
    <2>1. Len(Roll) \in Nat /\ Roll' = Roll
      BY <1>1, <1>2 DEF Roll
    <2>2. \A n \in DOMAIN jobs' : Tails(n, 0, Roll')
      BY <2>1 DEF Tails
    <2> QED
      BY <1>1, <1>3, <1>4, <1>7, <2>2 DEF EndsRoll
  <1>10. PrintsWhole'
    <2>1. \A n \in DOMAIN jobs' : jobs'[n].step = "done" => n \in DOMAIN jobs /\ jobs[n].step = "done"
      BY <1>3, <1>4
    <2> QED
      BY <1>1, <1>6, <2>1 DEF PrintInv, PrintsWhole, NoneLeft, Roll
  <1> QED
    BY <1>5, <1>8, <1>9, <1>10 DEF PrintInv

LEMMA WriteHolds ==
  ASSUME PrintInv, NEW n \in DOMAIN jobs, WriteChunk(n)
  PROVE  PrintInv'
  <1>1. /\ jobs[n].step = "write" /\ jobs[n].sent < Chunks
        /\ jobs' = [jobs EXCEPT ![n].sent = jobs[n].sent + 1] /\ air' = Append(air, n)
        /\ UNCHANGED <<slip, visit, shown, printer, failed, paper, lost>>
    BY DEF WriteChunk
  <1>2. jobs \in Seq(Job) /\ Roll \in Seq(Nat) /\ jobs[n] \in Job /\ n \in Nat /\ Chunks \in Nat
    BY PrintAssumption, RollType DEF PrintInv, PrintTypeOK
  <1> DEFINE new == [jobs[n] EXCEPT !.sent = jobs[n].sent + 1]
  <1>3. /\ new \in Job /\ new.sent = jobs[n].sent + 1 /\ new.step = "write"
        /\ new.visit = jobs[n].visit /\ new.left = jobs[n].left
    <2>1. jobs[n].sent + 1 \in 0..Chunks
      BY <1>1, <1>2 DEF Job
    <2>2. \A j \in Job, y \in 0..Chunks :
             LET m == [j EXCEPT !.sent = y]
             IN  m \in Job /\ m.sent = y /\ m.step = j.step /\ m.visit = j.visit /\ m.left = j.left
      BY DEF Job
    <2> QED
      BY <1>1, <1>2, <2>1, <2>2
  <1>4. jobs' = [jobs EXCEPT ![n] = new]
    BY <1>1, <1>2
  <1> HIDE DEF new
  <1>5. /\ jobs' \in Seq(Job) /\ DOMAIN jobs' = DOMAIN jobs /\ Len(jobs') = Len(jobs)
        /\ jobs'[n] = new /\ \A m \in DOMAIN jobs : m # n => jobs'[m] = jobs[m]
    BY <1>2, <1>3, <1>4
  <1>6. /\ Roll' = Append(Roll, n) /\ Roll' \in Seq(Nat)
        /\ Len(Roll') = Len(Roll) + 1 /\ Roll'[Len(Roll')] = n
        /\ \A i \in 1..Len(Roll) : Roll'[i] = Roll[i]
    <2>1. air \in Seq(Nat) /\ paper \in Seq(Nat) /\ n \in Nat
      BY <1>2 DEF PrintInv, PrintTypeOK
    <2>2. Roll' = Append(Roll, n)
      BY <1>1, <2>1, SMTT(30) DEF Roll
    <2> QED
      BY <1>2, <2>2
  <1>7. PrintTypeOK'
    <2>1. air' \in Seq(Nat)
      BY <1>1, <1>2 DEF PrintInv, PrintTypeOK
    <2> QED
      BY <1>1, <1>5, <2>1 DEF PrintInv, PrintTypeOK
  <1>8. NoneLeft' => NoneLeft
    BY <1>3, <1>5 DEF NoneLeft
  <1>9. NoneLeft' => \A m \in DOMAIN jobs : UnderWayNow(m)' => m = n
    BY <1>1, <1>5, <1>8 DEF PrintInv, OneJob, UnderWayNow
  <1>10. OneJob'
    BY <1>1, <1>3, <1>5, <1>8, <1>9 DEF PrintInv, OneJob, UnderWayNow
  <1>11. EndsRoll'
    <2> SUFFICES ASSUME NoneLeft', n \notin lost PROVE Tails(n, new.sent, Roll')
      BY <1>1, <1>5, <1>9 DEF EndsRoll
    <2>1. /\ jobs[n].sent <= Len(Roll)
          /\ \A i \in (Len(Roll) - jobs[n].sent + 1)..Len(Roll) : Roll[i] = n
      BY <1>1, <1>8 DEF PrintInv, EndsRoll, UnderWayNow, Tails
    <2>2. jobs[n].sent \in Nat /\ Len(Roll) \in Nat
      BY <1>2 DEF Job
    <2>3. new.sent <= Len(Roll')
      BY <1>3, <1>6, <2>1, <2>2
    <2>4. ASSUME NEW i \in (Len(Roll') - new.sent + 1)..Len(Roll')
          PROVE  Roll'[i] = n
      <3>1. i = Len(Roll') \/ i \in (Len(Roll) - jobs[n].sent + 1)..Len(Roll)
        BY <1>3, <1>6, <2>1, <2>2
      <3>2. i \in (Len(Roll) - jobs[n].sent + 1)..Len(Roll) => i \in 1..Len(Roll)
        BY <2>1, <2>2
      <3> QED
        BY <1>6, <2>1, <3>1, <3>2
    <2> QED
      BY <2>3, <2>4 DEF Tails
  <1>12. PrintsWhole'
    <2> SUFFICES ASSUME NoneLeft', NEW m \in DOMAIN jobs \ lost, jobs'[m].step = "done"
                 PROVE  Whole(m, Roll')
      BY <1>1, <1>5 DEF PrintsWhole, Whole, NoneLeft
    <2>1. jobs[m].step = "done"
      BY <1>3, <1>5
    <2>2. Whole(m, Roll)
      BY <1>8, <2>1 DEF PrintInv, PrintsWhole, Whole, NoneLeft
    <2> QED
      BY <1>2, <1>6, <2>2, RollGrows
  <1> QED
    BY <1>7, <1>10, <1>11, <1>12 DEF PrintInv

(* Connecting, ending, failing. *)
LEMMA JobStepHolds ==
  ASSUME PrintInv, NEW n \in DOMAIN jobs,
         EnsureDevice(n) \/ Connect(n) \/ PrintDone(n) \/ PrintFails(n)
  PROVE  PrintInv'
  <1>1. jobs \in Seq(Job) /\ jobs[n] \in Job
    BY DEF PrintInv, PrintTypeOK
  <1>2. PICK end \in {"connect", "write", "done", "failed"} :
           /\ jobs' = [jobs EXCEPT ![n].step = end] /\ UNCHANGED <<slip, visit, air, paper, lost>>
           /\ end = "done" => jobs[n].step = "write" /\ jobs[n].sent = Chunks
           /\ end \in {"connect", "write"} => UNCHANGED shown
    BY DEF EnsureDevice, Connect, PrintDone, PrintFails, Step, radio
  <1>3. UnderWayNow(n)
    BY DEF EnsureDevice, Connect, PrintDone, PrintFails, UnderWayNow
  <1> DEFINE new == [jobs[n] EXCEPT !.step = end]
  <1>4. /\ new \in Job /\ new.sent = jobs[n].sent /\ new.step = end
        /\ new.visit = jobs[n].visit /\ new.left = jobs[n].left
    BY <1>1 DEF Job
  <1>5. jobs' = [jobs EXCEPT ![n] = new]
    BY <1>1, <1>2
  <1> HIDE DEF new
  <1>6. /\ jobs' \in Seq(Job) /\ DOMAIN jobs' = DOMAIN jobs /\ Len(jobs') = Len(jobs)
        /\ jobs'[n] = new /\ \A m \in DOMAIN jobs : m # n => jobs'[m] = jobs[m]
    BY <1>1, <1>4, <1>5
  <1>7. PrintTypeOK'
    <2>1. shown' \in {"idle", "printing", "done", "fallback"}
      BY DEF PrintInv, PrintTypeOK, EnsureDevice, Connect, PrintDone, PrintFails, Heard
    <2>2. printer' \in {"none", "paired", "connected"} /\ failed' \in BOOLEAN
      BY DEF PrintInv, PrintTypeOK, EnsureDevice, Connect, PrintDone, PrintFails
    <2> QED
      BY <1>2, <1>6, <2>1, <2>2 DEF PrintInv, PrintTypeOK
  <1>8. NoneLeft' => NoneLeft
    BY <1>4, <1>6 DEF NoneLeft
  <1>9. NoneLeft' => (\A m \in DOMAIN jobs : ~UnderWayNow(m)') \/ UNCHANGED <<visit, shown>>
    <2>1. CASE end \in {"connect", "write"}
      BY <1>2, <2>1
    <2>2. CASE end \in {"done", "failed"}
      BY <1>3, <1>4, <1>6, <1>8, <2>2 DEF PrintInv, OneJob, UnderWayNow
    <2> QED
      BY <2>1, <2>2
  <1>10. \A m \in DOMAIN jobs :
            /\ jobs'[m].sent = jobs[m].sent /\ jobs'[m].visit = jobs[m].visit
            /\ jobs[m].left => jobs'[m].left
            /\ UnderWayNow(m)' => UnderWayNow(m)
            /\ jobs'[m].step = "done" =>
                  jobs[m].step = "done" \/ (jobs[m].step = "write" /\ jobs[m].sent = Chunks)
    BY <1>2, <1>3, <1>4, <1>6 DEF UnderWayNow
  <1>11. Roll' = Roll /\ lost' = lost
    BY <1>2 DEF Roll
  <1> QED
    BY <1>6, <1>7, <1>9, <1>10, <1>11, JobsMove

LEMMA ArrivesHolds ==
  ASSUME PrintInv, Arrives
  PROVE  PrintInv'
  <1>1. /\ air # <<>> /\ paper' = Append(paper, Head(air)) /\ air' = Tail(air)
        /\ UNCHANGED <<slip, visit, shown, jobs, printer, failed, lost>>
    BY DEF Arrives
  <1>2. air \in Seq(Nat) /\ paper \in Seq(Nat)
    BY DEF PrintInv, PrintTypeOK
  <1>3. Roll' = Roll
    BY <1>1, <1>2, SMTT(30) DEF Roll
  <1>4. PrintTypeOK'
    BY <1>1, <1>2 DEF PrintInv, PrintTypeOK
  <1> QED
    BY <1>1, <1>3, <1>4, JobsMove DEF UnderWayNow

(* Steps on all the jobs at once. *)
LEMMA AllJobsHold ==
  ASSUME PrintInv, PrinterDrops \/ LeaveReceipt \/ ReloadReceipt
  PROVE  PrintInv'
  <1>1. jobs \in Seq(Job) /\ DOMAIN jobs = 1..Len(jobs) /\ \A n \in DOMAIN jobs : jobs[n] \in Job
    BY DEF PrintInv, PrintTypeOK
  <1> DEFINE cut(n) == IF jobs[n].step = "write" /\ jobs[n].sent < Chunks
                       THEN [jobs[n] EXCEPT !.step = "cut"] ELSE jobs[n]
             away(n) == [jobs[n] EXCEPT !.left = jobs[n].left \/ UnderWayNow(n)]
             dead(n) == IF UnderWayNow(n) THEN [jobs[n] EXCEPT !.step = "dead"] ELSE jobs[n]
  <1>2. /\ PrinterDrops => jobs' = [n \in DOMAIN jobs |-> cut(n)]
        /\ LeaveReceipt => jobs' = [n \in DOMAIN jobs |-> away(n)]
        /\ ReloadReceipt => jobs' = [n \in DOMAIN jobs |-> dead(n)]
        /\ UNCHANGED slip
        /\ AirLost \/ UNCHANGED <<air, paper, lost>>
    BY DEF PrinterDrops, LeaveReceipt, ReloadReceipt, radio
  <1>3. ASSUME NEW n \in DOMAIN jobs
        PROVE  /\ cut(n) \in Job /\ away(n) \in Job /\ dead(n) \in Job
               /\ cut(n).sent = jobs[n].sent /\ cut(n).visit = jobs[n].visit /\ cut(n).left = jobs[n].left
               /\ away(n).sent = jobs[n].sent /\ away(n).visit = jobs[n].visit
               /\ away(n).step = jobs[n].step /\ away(n).left = (jobs[n].left \/ UnderWayNow(n))
               /\ dead(n).sent = jobs[n].sent /\ dead(n).visit = jobs[n].visit /\ dead(n).left = jobs[n].left
               /\ cut(n).step = jobs[n].step \/ (cut(n).step = "cut" /\ jobs[n].step = "write")
               /\ dead(n).step \in {"done", "failed", "dead"}
               /\ dead(n).step = "done" => jobs[n].step = "done"
    <2>1. jobs[n] \in Job
      BY <1>1
    <2>2. UnderWayNow(n) <=> jobs[n].step \notin {"done", "failed", "dead"}
      BY DEF UnderWayNow
    <2> QED
      BY <2>1, <2>2 DEF Job
  <1> HIDE DEF cut, away, dead
  <1>4. DOMAIN jobs' = DOMAIN jobs /\ \A n \in DOMAIN jobs : jobs'[n] \in Job
    BY <1>2, <1>3
  <1>5. jobs' \in Seq(Job)
    BY <1>1, <1>2, <1>4
  <1>6. PrintTypeOK'
    <2>1. /\ visit' \in Nat /\ shown' \in {"idle", "printing", "done", "fallback"}
          /\ printer' \in {"none", "paired", "connected"} /\ failed' \in BOOLEAN
      <3>1. visit \in Nat /\ shown \in {"idle", "printing", "done", "fallback"}
            /\ printer \in {"none", "paired", "connected"} /\ failed \in BOOLEAN
        BY DEF PrintInv, PrintTypeOK
      <3>2. CASE PrinterDrops
        BY <3>1, <3>2 DEF PrinterDrops
      <3>3. CASE LeaveReceipt
        BY <3>1, <3>3 DEF LeaveReceipt
      <3>4. CASE ReloadReceipt
        <4>1. visit' = visit + 1 /\ shown' = "idle" /\ printer' = "none"
          BY <3>4 DEF ReloadReceipt
        <4>2. failed' \in BOOLEAN
          BY <3>4 DEF ReloadReceipt
        <4> QED
          BY <3>1, <4>1, <4>2
      <3> QED
        BY <3>2, <3>3, <3>4
    <2>2. air' \in Seq(Nat) /\ paper' \in Seq(Nat) /\ lost' \subseteq Nat
      <3>1. air \in Seq(Nat) /\ paper \in Seq(Nat) /\ lost \subseteq Nat
        BY DEF PrintInv, PrintTypeOK
      <3>2. \A i \in DOMAIN air : air[i] \in Nat
        BY <3>1
      <3>3. CASE AirLost
        <4>1. /\ air' = <<>> /\ paper' = paper
              /\ lost' = lost \union {air[i] : i \in DOMAIN air}
          BY <3>3 DEF AirLost
        <4>2. {air[i] : i \in DOMAIN air} \subseteq Nat
          BY <3>2, Zenon
        <4>3. lost' \subseteq Nat
          BY <3>1, <4>1, <4>2, Zenon
        <4> QED
          BY <3>1, <4>1, <4>3
      <3> QED
        BY <1>2, <3>1, <3>3
    <2> QED
      BY <1>2, <1>5, <2>1, <2>2 DEF PrintInv, PrintTypeOK
  <1>7. \A n \in DOMAIN jobs :
            /\ jobs'[n].sent = jobs[n].sent /\ jobs'[n].visit = jobs[n].visit
            /\ jobs[n].left => jobs'[n].left
            /\ UnderWayNow(n)' => UnderWayNow(n)
            /\ jobs'[n].step = "done" => jobs[n].step = "done"
    <2>1. CASE PrinterDrops
      <3>1. \A n \in DOMAIN jobs : jobs'[n] = cut(n)
        BY <1>2, <2>1
      <3> QED
        BY <1>3, <3>1 DEF UnderWayNow
    <2>2. CASE LeaveReceipt
      <3>1. \A n \in DOMAIN jobs : jobs'[n] = away(n)
        BY <1>2, <2>2
      <3> QED
        BY <1>3, <3>1, ZenonT(30) DEF UnderWayNow
    <2>3. CASE ReloadReceipt
      <3>1. \A n \in DOMAIN jobs : jobs'[n] = dead(n)
        BY <1>2, <2>3
      <3> QED
        BY <1>3, <3>1 DEF UnderWayNow
    <2> QED
      BY <2>1, <2>2, <2>3
  <1>8. NoneLeft' => (\A n \in DOMAIN jobs : ~UnderWayNow(n)') \/ UNCHANGED <<visit, shown>>
    <2>1. CASE PrinterDrops
      BY <2>1 DEF PrinterDrops
    <2>2. CASE LeaveReceipt
      <3>1. \A n \in DOMAIN jobs : jobs'[n] = away(n)
        BY <1>2, <2>2
      <3>2. ASSUME NoneLeft', NEW n \in DOMAIN jobs
            PROVE  jobs[n].step \in {"done", "failed", "dead"} /\ jobs'[n].step = jobs[n].step
        <4>1. ~jobs'[n].left
          BY <1>4, <3>2 DEF NoneLeft
        <4>2. ~UnderWayNow(n)
          BY <1>3, <3>1, <4>1
        <4> QED
          BY <1>3, <3>1, <4>2 DEF UnderWayNow
      <3> QED
        BY <3>2 DEF UnderWayNow
    <2>3. CASE ReloadReceipt
      BY <1>2, <1>3, <2>3 DEF UnderWayNow
    <2> QED
      BY <2>1, <2>2, <2>3
  <1>9. /\ lost \subseteq lost'
        /\ \A n \in DOMAIN jobs \ lost' :
              /\ Whole(n, Roll) => Whole(n, Roll')
              /\ \A k \in Nat : Tails(n, k, Roll) => Tails(n, k, Roll')
    <2>1. CASE AirLost
      <3>1. air \in Seq(Nat) /\ paper \in Seq(Nat)
        BY DEF PrintInv, PrintTypeOK
      <3>2. /\ Roll' = paper /\ Roll = paper \o air
            /\ lost' = lost \union {air[i] : i \in DOMAIN air}
        BY <2>1, <3>1 DEF Roll, AirLost
      <3> QED
        BY <3>1, <3>2, AirCut
    <2>2. CASE UNCHANGED <<air, paper, lost>>
      BY <2>2 DEF Roll
    <2> QED
      BY <1>2, <2>1, <2>2
  <1> QED
    BY <1>4, <1>6, <1>7, <1>8, <1>9, JobsMove

LEMMA PrintStep == PrintInv /\ [PrintNext]_printVars => PrintInv'
  <1> SUFFICES ASSUME PrintInv, [PrintNext]_printVars PROVE PrintInv'
    OBVIOUS
  <1>1. CASE PrintNext
    BY <1>1, TapHolds, ArrivesHolds, WriteHolds, JobStepHolds, AllJobsHold DEF PrintNext
  <1>2. CASE UNCHANGED printVars
    <2>1. UNCHANGED <<slip, visit, shown, jobs, printer, failed, air, paper, lost, Roll>>
      BY <1>2 DEF printVars, radio, Roll
    <2>2. PrintTypeOK'
      BY <2>1 DEF PrintInv, PrintTypeOK
    <2> QED
      BY <2>1, <2>2, JobsMove DEF UnderWayNow
  <1> QED
    BY <1>1, <1>2

LEMMA PrintInvariant == PrintSpec => []PrintInv
  BY PrintInitHolds, PrintStep, PTL DEF PrintSpec

(* No receipt the screen reports as printed lacks a chunk or has one of       *)
(* another job in it, as long as the printer dropped none of its chunks on    *)
(* the way and no screen was left while its job printed.                      *)
THEOREM ReceiptsWhole == PrintSpec => []PrintsWhole
  <1>1. PrintInv => PrintsWhole
    BY DEF PrintInv
  <1> QED
    BY <1>1, PrintInvariant, PTL

LEMMA SlipAgrees ==
  ASSUME NEW s \in Slips, s.discount # s.subtotal, NEW medium \in Offers(s)
  PROVE  OnPaper(Rendition(medium, s)) = OnPaper(Preview(s))
  <1>1. s.discount \in Nat
    BY SlipsAssumption
  <1>2. CASE medium = "pdf"
    BY <1>2 DEF Rendition, OnPaper, Pdf
  <1>3. CASE medium = "print"
    BY <1>1, <1>3 DEF Rendition, OnPaper, EscPos, Preview, Sole
  <1>4. CASE medium = "whatsapp" /\ ~s.salinan
    BY <1>1, <1>4 DEF Rendition, OnPaper, WhatsApp, Preview, Sole
  <1> QED
    BY <1>2, <1>3, <1>4 DEF Offers, ReceiptOffers, ReprintOffers

(* The slip, the PDF and the message to the buyer show what the screen shows, *)
(* on every sale whose discount is not the whole of it.                       *)
THEOREM MediaAgree == PrintSpec => []PapersAgree
  <1>1. PrintInv => PapersAgree
    BY SlipAgrees DEF PrintInv, PrintTypeOK, PapersAgree
  <1> QED
    BY <1>1, PrintInvariant, PTL

=============================================================================

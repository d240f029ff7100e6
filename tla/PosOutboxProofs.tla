--------------------------- MODULE PosOutboxProofs ---------------------------
(***************************************************************************)
(* Theorems about PosOutbox, for any number of sales, of overlapping       *)
(* drains and of tab deaths, and any size of a drain's batch.              *)
(***************************************************************************)
EXTENDS PosOutbox, TLAPS

-----------------------------------------------------------------------------
(* Type correctness *)

RowType == [status : {"absent", "queued", "sending", "error", "needs_attention", "synced"},
            id : BOOLEAN]

LEMMA InitType == Init => TypeOK
  <1> SUFFICES ASSUME Init PROVE TypeOK
    OBVIOUS
  <1>1. drain \in [Drains -> DrainStates] /\ \A t \in Drains : Held(t) = {}
    BY DEF Init, DrainStates, Idle, Held
  <1>2. row \in [Sales -> RowType]
    BY DEF Init, Absent, RowType
  <1> QED
    BY <1>1, <1>2, ConstantsAssumption DEF Init, TypeOK, RowType

(* What a drain holds at each of its steps. *)
LEMMA DrainType ==
  ASSUME TypeOK, NEW t \in Drains
  PROVE  /\ drain[t] \in DrainStates
         /\ drain[t].phase = "looping" =>
               /\ drain[t] \in [phase : {"looping"}, batch : (SUBSET Sales) \ {{}}]
               /\ drain[t].batch \subseteq Enqueued
         /\ drain[t].phase = "posted" =>
               /\ drain[t] \in [phase : {"posted"}, sale : Sales, batch : SUBSET Sales]
               /\ drain[t].batch \subseteq Enqueued /\ drain[t].sale \in Enqueued
         /\ drain[t].phase = "answered" =>
               /\ drain[t] \in [phase : {"answered"}, sale : Sales, code : Codes,
                                batch : SUBSET Sales]
               /\ drain[t].batch \subseteq Enqueued /\ drain[t].sale \in Enqueued
  <1>1. drain[t] \in DrainStates /\ Held(t) \subseteq Enqueued
    BY DEF TypeOK
  <1>2. drain[t].phase = "looping" => drain[t].batch \subseteq Enqueued
    BY <1>1 DEF Held
  <1>3. drain[t].phase \in {"posted", "answered"} =>
           drain[t].batch \subseteq Enqueued /\ drain[t].sale \in Enqueued
    BY <1>1 DEF Held
  <1> QED
    BY <1>1, <1>2, <1>3 DEF DrainStates, Idle

(* No row is ever taken back: whatever a step sets it to, an enqueued row stays *)
(* enqueued.                                                                    *)
LEMMA StatusType ==
  ASSUME TypeOK, NEW s \in Sales,
         NEW st \in {"queued", "sending", "error", "needs_attention", "synced"},
         SetStatus(s, st)
  PROVE  row' \in [Sales -> RowType] /\ Enqueued \subseteq Enqueued'
  <1>1. row \in [Sales -> RowType]
    BY DEF TypeOK, RowType
  <1>2. row' \in [Sales -> RowType]
    BY <1>1 DEF SetStatus, RowType
  <1>3. \A x \in Sales : row'[x].status = IF x = s THEN st ELSE row[x].status
    BY <1>1 DEF SetStatus, RowType
  <1> QED
    BY <1>2, <1>3 DEF Enqueued, Rows

(* A step of one drain, or of none, that keeps the rest well typed. *)
LEMMA StepType ==
  ASSUME TypeOK, row' \in [Sales -> RowType], Enqueued \subseteq Enqueued',
         NEW t \in Drains, NEW d \in DrainStates, Go(t, d),
         CASE d.phase \in {"idle", "reset"} -> TRUE
           [] d.phase = "looping" -> d.batch \subseteq Enqueued'
           [] OTHER -> d.batch \subseteq Enqueued' /\ d.sale \in Enqueued',
         recorded' \subseteq Enqueued', replays' \subseteq Enqueued',
         missing' \subseteq Enqueued', UNCHANGED <<link, deaths>>
  PROVE  TypeOK'
  <1>1. drain' \in [Drains -> DrainStates] /\ \A u \in Drains : drain'[u] =
           IF u = t THEN d ELSE drain[u]
    BY DEF TypeOK, Go
  <1>2. Held(t)' \subseteq Enqueued'
    BY <1>1 DEF Held
  <1>3. \A u \in Drains \ {t} : Held(u)' \subseteq Enqueued'
    <2> TAKE u \in Drains \ {t}
    <2>1. Held(u)' = Held(u) /\ Held(u) \subseteq Enqueued
      BY <1>1 DEF Held, TypeOK
    <2> QED
      BY <2>1
  <1> QED
    BY <1>1, <1>2, <1>3 DEF TypeOK, RowType

LEMMA TillType ==
  ASSUME TypeOK, row' \in [Sales -> RowType], Enqueued \subseteq Enqueued',
         UNCHANGED <<drain, deaths>>, link' \in {"up", "flaky", "down"},
         recorded' \subseteq Enqueued', replays' \subseteq Enqueued',
         missing' \subseteq Enqueued'
  PROVE  TypeOK'
  <1>1. \A u \in Drains : Held(u)' = Held(u) /\ Held(u) \subseteq Enqueued
    BY DEF Held, TypeOK
  <1> QED
    BY <1>1 DEF TypeOK, RowType

LEMMA RestState ==
  ASSUME TypeOK, NEW t \in Drains, drain[t].batch \in SUBSET Sales
  PROVE  /\ Rest(t) \in DrainStates /\ Rest(t).phase \in {"idle", "looping"}
         /\ Rest(t).phase = "looping" => Rest(t).batch = drain[t].batch
  BY DEF Rest, DrainStates, Idle

(* The steps of the till, the service worker and the connection. *)
LEMMA SaleStepsType ==
  ASSUME TypeOK, NEW s \in Sales,
         Enqueue(s) \/ AdminRetry(s) \/ EodResubmit(s) \/ Hydrate(s) \/ Replay(s) \/ Expire(s)
  PROVE  TypeOK'
  <1>1. row \in [Sales -> RowType] /\ recorded \subseteq Enqueued /\ replays \subseteq Enqueued
        /\ missing \subseteq Enqueued /\ link \in {"up", "flaky", "down"}
    BY DEF TypeOK, RowType
  <1>2. CASE Enqueue(s)
    <2>1. row' \in [Sales -> RowType] /\ Enqueued \subseteq Enqueued'
      BY <1>1, <1>2 DEF Enqueue, RowType, Enqueued, Rows, Absent
    <2> QED
      BY <1>1, <1>2, <2>1, TillType DEF Enqueue
  <1>3. CASE AdminRetry(s)
    <2>1. row' \in [Sales -> RowType] /\ Enqueued \subseteq Enqueued'
      BY <1>3, StatusType DEF AdminRetry
    <2> QED
      BY <1>1, <1>3, <2>1, TillType DEF AdminRetry
  <1>4. CASE EodResubmit(s)
    <2>1. row' \in [Sales -> RowType] /\ Enqueued \subseteq Enqueued'
      BY <1>4, StatusType DEF EodResubmit
    <2> QED
      BY <1>1, <1>4, <2>1, TillType DEF EodResubmit
  <1>5. CASE Hydrate(s)
    <2>1. row' \in [Sales -> RowType] /\ Enqueued \subseteq Enqueued'
      BY <1>1, <1>5 DEF Hydrate, RowType, Enqueued, Rows
    <2> QED
      BY <1>1, <1>5, <2>1, TillType DEF Hydrate
  <1>6. CASE Replay(s)
    <2>1. Enqueued' = Enqueued
      BY <1>6 DEF Replay, Enqueued, Rows
    <2>2. recorded' \subseteq Enqueued
      BY <1>1, <1>6 DEF Replay, Submit
    <2> QED
      BY <1>1, <1>6, <2>1, <2>2, TillType DEF Replay
  <1>7. CASE Expire(s)
    <2>1. Enqueued' = Enqueued
      BY <1>7 DEF Expire, Enqueued, Rows
    <2> QED
      BY <1>1, <1>7, <2>1, TillType DEF Expire
  <1> QED
    BY <1>2, <1>3, <1>4, <1>5, <1>6, <1>7

LEMMA CloseEodType ==
  ASSUME TypeOK, CloseEod
  PROVE  TypeOK'
  <1>1. Enqueued' = Enqueued
    BY DEF CloseEod, Enqueued, Rows
  <1> QED
    BY <1>1, TillType DEF CloseEod, TypeOK, RowType

LEMMA MoveLinkType ==
  ASSUME TypeOK, MoveLink
  PROVE  TypeOK'
  <1>1. Enqueued' = Enqueued
    BY DEF MoveLink, Enqueued, Rows
  <1> QED
    BY <1>1, TillType DEF MoveLink, TypeOK, RowType

LEMMA TabDiesType ==
  ASSUME TypeOK, TabDies
  PROVE  TypeOK'
  <1>1. Enqueued' = Enqueued
    BY DEF TabDies, Enqueued, Rows
  <1>2. drain' \in [Drains -> DrainStates] /\ \A t \in Drains : Held(t)' = {}
    BY DEF TabDies, DrainStates, Idle, Held
  <1>3. PICK kept \in SUBSET {drain[t].sale : t \in {u \in Drains : drain[u].phase = "posted"}} :
           replays' = replays \union kept
    BY DEF TabDies
  <1>4. \A u \in Drains : drain[u].phase = "posted" => drain[u].sale \in Enqueued
    BY DrainType
  <1>5. replays' \subseteq Enqueued
    BY <1>3, <1>4 DEF TypeOK
  <1>6. deaths' \in 0..MaxDeaths
    BY ConstantsAssumption DEF TabDies, TypeOK
  <1> QED
    BY <1>1, <1>2, <1>5, <1>6 DEF TabDies, TypeOK

(* The steps of a drain. *)
LEMMA BeginType ==
  ASSUME TypeOK, NEW t \in Drains, Begin(t)
  PROVE  TypeOK'
  <1>1. row \in [Sales -> RowType]
    BY DEF TypeOK, RowType
  <1>2. \A s \in Sales : /\ Reset(row[s]) \in RowType
                         /\ Reset(row[s]).status = "absent" => row[s].status = "absent"
    BY <1>1 DEF Reset, RowType
  <1>3. row' \in [Sales -> RowType] /\ Enqueued \subseteq Enqueued'
    BY <1>2 DEF Begin, Enqueued, Rows
  <1> DEFINE d == [phase |-> "reset"]
  <1>4. d \in DrainStates /\ d.phase = "reset"
    BY DEF DrainStates
  <1>5. Go(t, d)
    BY DEF Begin
  <1> HIDE DEF d
  <1> QED
    BY <1>3, <1>4, <1>5, StepType DEF Begin, TypeOK

LEMMA ListType ==
  ASSUME TypeOK, NEW t \in Drains, List(t)
  PROVE  TypeOK'
  <1> DEFINE d == IF Batch = {} THEN Idle ELSE [phase |-> "looping", batch |-> Batch]
  <1>1. Batch \subseteq Enqueued /\ Batch \subseteq Sales
    BY DEF Batch, Drainable, Enqueued, Rows
  <1>2. /\ d \in DrainStates /\ d.phase \in {"idle", "looping"}
        /\ d.phase = "looping" => d.batch \subseteq Enqueued
    BY <1>1 DEF DrainStates, Idle
  <1>3. Enqueued' = Enqueued /\ row' \in [Sales -> RowType]
    BY DEF List, Enqueued, Rows, TypeOK, RowType
  <1>4. Go(t, d)
    BY DEF List
  <1> HIDE DEF d
  <1> QED
    BY <1>2, <1>3, <1>4, StepType DEF List, TypeOK

LEMMA SendType ==
  ASSUME TypeOK, NEW t \in Drains, Send(t)
  PROVE  TypeOK'
  <1>1. drain[t].batch \subseteq Sales /\ drain[t].batch \subseteq Enqueued
    BY DrainType DEF Send
  <1>2. PICK s \in drain[t].batch :
           /\ SetStatus(s, "sending")
           /\ Go(t, [phase |-> "posted", sale |-> s, batch |-> drain[t].batch \ {s}])
    BY DEF Send
  <1>3. row' \in [Sales -> RowType] /\ Enqueued \subseteq Enqueued'
    BY <1>1, <1>2, StatusType
  <1> DEFINE d == [phase |-> "posted", sale |-> s, batch |-> drain[t].batch \ {s}]
  <1>4. /\ d \in DrainStates /\ d.phase = "posted" /\ d.batch \subseteq Enqueued'
        /\ d.sale \in Enqueued'
    BY <1>1, <1>3 DEF DrainStates
  <1>5. Go(t, d)
    BY <1>2
  <1> HIDE DEF d
  <1> QED
    BY <1>3, <1>4, <1>5, StepType DEF Send, TypeOK

LEMMA StopOfflineType ==
  ASSUME TypeOK, NEW t \in Drains, StopOffline(t)
  PROVE  TypeOK'
  <1>1. Enqueued' = Enqueued /\ row' \in [Sales -> RowType]
    BY DEF StopOffline, Enqueued, Rows, TypeOK, RowType
  <1>2. Idle \in DrainStates /\ Idle.phase = "idle"
    BY DEF DrainStates, Idle
  <1> QED
    BY <1>1, <1>2, StepType DEF StopOffline, TypeOK

LEMMA ServeType ==
  ASSUME TypeOK, NEW t \in Drains, Serve(t)
  PROVE  TypeOK'
  <1>1. /\ drain[t].sale \in Sales /\ drain[t].sale \in Enqueued
        /\ drain[t].batch \subseteq Sales /\ drain[t].batch \subseteq Enqueued
    BY DrainType DEF Serve
  <1>2. PICK code \in Codes :
           /\ Submit(drain[t].sale, code)
           /\ Go(t, [phase |-> "answered", sale |-> drain[t].sale, code |-> code,
                     batch |-> drain[t].batch])
    BY DEF Serve
  <1>3. Enqueued' = Enqueued /\ row' \in [Sales -> RowType]
    BY DEF Serve, Enqueued, Rows, TypeOK, RowType
  <1>4. recorded' \subseteq Enqueued
    BY <1>1, <1>2 DEF Submit, TypeOK
  <1> DEFINE d == [phase |-> "answered", sale |-> drain[t].sale, code |-> code,
                   batch |-> drain[t].batch]
  <1>5. /\ d \in DrainStates /\ d.phase = "answered" /\ d.batch \subseteq Enqueued
        /\ d.sale \in Enqueued
    BY <1>1 DEF DrainStates
  <1>6. Go(t, d)
    BY <1>2
  <1> HIDE DEF d
  <1> QED
    BY <1>3, <1>4, <1>5, <1>6, StepType DEF Serve, TypeOK

(* What an answer makes of the row and of the drain. *)
LEMMA AnswerShape ==
  ASSUME TypeOK, NEW t \in Drains, Answer(t)
  PROVE  /\ drain[t].sale \in Sales
         /\ row' \in [Sales -> RowType] /\ Enqueued \subseteq Enqueued'
         /\ \A x \in Sales \ {drain[t].sale} : row'[x] = row[x]
         /\ row'[drain[t].sale].status = "synced" =>
               Settled(drain[t].code)
         /\ row'[drain[t].sale].id =>
               row[drain[t].sale].id \/ (Settled(drain[t].code) /\ CarriesId(drain[t].code))
         /\ Go(t, Rest(t)) \/ Go(t, Idle)
  <1> DEFINE s == drain[t].sale
             code == drain[t].code
  <1>1. s \in Sales /\ code \in Codes
    BY DrainType DEF Answer
  <1>2. row \in [Sales -> RowType]
    BY DEF TypeOK, RowType
  <1>3. CASE Settled(code)
    <2>1. PICK read \in BOOLEAN :
             row' = [row EXCEPT ![s] =
                        [status |-> "synced", id |-> @.id \/ (read /\ CarriesId(code))]]
             /\ (Go(t, Rest(t)) \/ Go(t, Idle))
      BY <1>3 DEF Answer, Settled, Halting
    <2>2. [status |-> "synced", id |-> row[s].id \/ (read /\ CarriesId(code))] \in RowType
      BY DEF RowType, CarriesId
    <2>3. row' \in [Sales -> RowType] /\ \A x \in Sales \ {s} : row'[x] = row[x]
      BY <1>1, <1>2, <2>1, <2>2
    <2>4. row'[s] = [status |-> "synced", id |-> row[s].id \/ (read /\ CarriesId(code))]
      BY <1>1, <1>2, <2>1
    <2>5. Enqueued \subseteq Enqueued'
      BY <1>1, <2>3, <2>4 DEF Enqueued, Rows
    <2> QED
      BY <1>1, <1>3, <2>1, <2>3, <2>4, <2>5
  <1>4. CASE ~Settled(code)
    <2>1. PICK st \in {"error", "needs_attention"} : SetStatus(s, st)
      BY <1>4 DEF Answer
    <2>2. row' \in [Sales -> RowType] /\ Enqueued \subseteq Enqueued'
      BY <1>1, <2>1, StatusType
    <2>3. /\ row'[s].status = st /\ row'[s].id = row[s].id /\ \A x \in Sales \ {s} : row'[x] = row[x]
          /\ Go(t, Rest(t)) \/ Go(t, Idle)
      BY <1>1, <1>2, <1>4, <2>1 DEF SetStatus, RowType, Answer
    <2> QED
      BY <1>1, <2>2, <2>3
  <1> QED
    BY <1>3, <1>4

LEMMA AnswerType ==
  ASSUME TypeOK, NEW t \in Drains, Answer(t)
  PROVE  TypeOK'
  <1>1. drain[t].batch \subseteq Enqueued /\ drain[t].batch \in SUBSET Sales
    BY DrainType DEF Answer
  <1>2. Idle \in DrainStates /\ Idle.phase = "idle"
    BY DEF DrainStates, Idle
  <1>3. PICK d \in {Rest(t), Idle} : Go(t, d)
    BY AnswerShape
  <1>4. /\ d \in DrainStates /\ d.phase \in {"idle", "looping"}
        /\ d.phase = "looping" => d.batch \subseteq Enqueued
    BY <1>1, <1>2, RestState
  <1> QED
    BY <1>3, <1>4, AnswerShape, StepType DEF Answer, TypeOK

LEMMA NetworkErrorType ==
  ASSUME TypeOK, NEW t \in Drains, NetworkError(t)
  PROVE  TypeOK'
  <1>1. drain[t].sale \in Sales /\ drain[t].sale \in Enqueued
    BY DrainType DEF NetworkError
  <1>2. row' \in [Sales -> RowType] /\ Enqueued \subseteq Enqueued'
    BY <1>1, StatusType DEF NetworkError
  <1>3. replays' \subseteq Enqueued
    BY <1>1 DEF NetworkError, TypeOK
  <1>4. Idle \in DrainStates /\ Idle.phase = "idle"
    BY DEF DrainStates, Idle
  <1> QED
    BY <1>2, <1>3, <1>4, StepType DEF NetworkError, TypeOK

LEMMA NextType == TypeOK /\ [Next]_vars => TypeOK'
  <1> SUFFICES ASSUME TypeOK, [Next]_vars PROVE TypeOK'
    OBVIOUS
  <1>1. ASSUME NEW t \in Drains, Begin(t) \/ Step(t) \/ NetworkError(t) PROVE TypeOK'
    BY <1>1, BeginType, ListType, SendType, StopOfflineType, ServeType, AnswerType,
       NetworkErrorType DEF Step
  <1>2. CASE UNCHANGED vars
    <2>1. Enqueued' = Enqueued /\ \A t \in Drains : Held(t)' = Held(t)
      BY <1>2 DEF vars, Enqueued, Rows, Held
    <2> QED
      BY <1>2, <2>1 DEF vars, TypeOK
  <1> QED
    BY <1>1, <1>2, SaleStepsType, CloseEodType, TabDiesType, MoveLinkType DEF Next

(* The outbox, its drains and the server keep their shape, and the server only *)
(* ever has sales the till enqueued.                                           *)
THEOREM TypeCorrect == Spec => []TypeOK
  BY InitType, NextType, PTL DEF Spec

-----------------------------------------------------------------------------
(* What "synced" means, when the server never answers 409 for want of stock, *)
(* and what a server id means, whatever it answers.                          *)

(* An answer of these codes is about a sale the server has: what the drain is  *)
(* told stays true while it makes up its mind, because the server keeps what   *)
(* it recorded.                                                                *)
About(codes) ==
    \A t \in Drains : drain[t].phase = "answered" /\ drain[t].code \in codes =>
                         drain[t].sale \in recorded

Settling == {"created", "conflict", "short"}
Carrying == {"created", "conflict"}
Truthful == About(Settling)

LEMMA CodesOfAnswers ==
  \A code : (Settled(code) <=> code \in Settling) /\ (CarriesId(code) <=> code \in Carrying)
  BY DEF Settled, CarriesId, Settling, Carrying

OutboxInv == TypeOK /\ Truthful /\ NothingSilentlyDropped

LEMMA InitOutbox == Init => OutboxInv
  <1> SUFFICES ASSUME Init PROVE OutboxInv
    OBVIOUS
  <1>1. \A s \in Sales : row[s].status = "absent"
    BY DEF Init, Absent
  <1>2. \A t \in Drains : drain[t].phase = "idle"
    BY DEF Init, Idle
  <1> QED
    BY <1>1, <1>2, InitType DEF OutboxInv, Truthful, About, NothingSilentlyDropped, Rows

(* The server forgets no sale. *)
LEMMA RecordedGrows ==
  ASSUME [Next]_vars
  PROVE  recorded \subseteq recorded'
  <1>1. ASSUME NEW s \in Sales, NEW code, Submit(s, code) PROVE recorded \subseteq recorded'
    BY <1>1 DEF Submit
  <1>2. ASSUME NEW t \in Drains, Serve(t) PROVE recorded \subseteq recorded'
    BY <1>2 DEF Serve, Submit
  <1>3. ASSUME NEW t \in Drains, Begin(t) \/ Step(t) \/ NetworkError(t)
        PROVE  recorded \subseteq recorded'
    BY <1>2, <1>3 DEF Begin, Step, List, Send, StopOffline, Answer, NetworkError
  <1>4. ASSUME NEW s \in Sales, Enqueue(s) \/ AdminRetry(s) \/ EodResubmit(s) \/ Hydrate(s)
                                \/ Replay(s) \/ Expire(s)
        PROVE  recorded \subseteq recorded'
    BY <1>1, <1>4 DEF Enqueue, AdminRetry, EodResubmit, Hydrate, Replay, Expire
  <1> QED
    BY <1>3, <1>4 DEF Next, CloseEod, TabDies, MoveLink, vars

(* A row becomes synced, or comes to know an id, only by what was found on the *)
(* server or by an answer.                                                     *)
LEMMA RowMoves ==
  ASSUME TypeOK, [Next]_vars, NEW s \in Sales
  PROVE  \/ /\ row'[s].status = "synced" => row[s].status = "synced"
            /\ row'[s].id => row[s].id
         \/ s \in recorded
         \/ \E t \in Drains :
               /\ drain[t].phase = "answered" /\ drain[t].sale = s /\ Settled(drain[t].code)
               /\ row'[s].id => row[s].id \/ CarriesId(drain[t].code)
  <1>1. row \in [Sales -> RowType]
    BY DEF TypeOK, RowType
  <1> DEFINE Kept == /\ row'[s].status = "synced" => row[s].status = "synced"
                     /\ row'[s].id => row[s].id
  <1>2. ASSUME NEW x \in Sales, NEW st \in {"queued", "sending", "error", "needs_attention"},
               SetStatus(x, st)
        PROVE  Kept
    BY <1>1, <1>2 DEF SetStatus, RowType
  <1>3. ASSUME NEW x \in Sales, Enqueue(x) PROVE Kept
    BY <1>1, <1>3 DEF Enqueue
  <1>4. ASSUME NEW x \in Sales, Hydrate(x)
        PROVE  Kept \/ s \in recorded
    BY <1>1, <1>4 DEF Hydrate
  <1>5. ASSUME NEW x \in Sales, AdminRetry(x) \/ EodResubmit(x) \/ Replay(x) \/ Expire(x)
        PROVE  Kept
    BY <1>2, <1>5 DEF AdminRetry, EodResubmit, Replay, Expire
  <1>6. ASSUME NEW t \in Drains, Begin(t) PROVE Kept
    BY <1>1, <1>6 DEF Begin, Reset, RowType
  <1>7. ASSUME NEW t \in Drains, Send(t) PROVE Kept
    <2>1. PICK x \in drain[t].batch : SetStatus(x, "sending")
      BY <1>7 DEF Send
    <2>2. x \in Sales
      BY <1>7, <2>1, DrainType DEF Send
    <2> QED
      BY <1>2, <2>1, <2>2
  <1>8. ASSUME NEW t \in Drains, NetworkError(t) PROVE Kept
    BY <1>2, <1>8, DrainType DEF NetworkError
  <1>9. ASSUME NEW t \in Drains, Answer(t)
        PROVE  \/ Kept
               \/ /\ drain[t].phase = "answered" /\ drain[t].sale = s /\ Settled(drain[t].code)
                  /\ row'[s].id => row[s].id \/ CarriesId(drain[t].code)
    <2>1. CASE s = drain[t].sale
      BY <1>9, <2>1, AnswerShape DEF Answer
    <2>2. CASE s # drain[t].sale
      BY <1>9, <2>2, AnswerShape
    <2> QED
      BY <2>1, <2>2
  <1>10. ASSUME NEW t \in Drains, List(t) \/ StopOffline(t) \/ Serve(t) PROVE Kept
    BY <1>10 DEF List, StopOffline, Serve
  <1>11. CASE CloseEod \/ TabDies \/ MoveLink \/ UNCHANGED vars
    BY <1>11 DEF CloseEod, TabDies, MoveLink, vars
  <1> QED
    BY <1>3, <1>4, <1>5, <1>6, <1>7, <1>8, <1>9, <1>10, <1>11 DEF Next, Step

LEMMA AboutKept ==
  ASSUME NEW codes, codes \subseteq Settling, codes \cap Verdicts = {},
         TypeOK, About(codes), [Next]_vars
  PROVE  About(codes)'
  <1>1. recorded \subseteq recorded'
    BY RecordedGrows
  <1>2. drain \in [Drains -> DrainStates]
    BY DEF TypeOK
  <1>3. ASSUME NEW t \in Drains, Serve(t) PROVE About(codes)'
    <2>1. PICK code \in Codes :
             /\ Submit(drain[t].sale, code)
             /\ Go(t, [phase |-> "answered", sale |-> drain[t].sale, code |-> code,
                       batch |-> drain[t].batch])
      BY <1>3 DEF Serve
    <2>2. code \in codes => drain[t].sale \in recorded'
      BY <2>1 DEF Submit, Settling
    <2>3. /\ drain'[t].code = code /\ drain'[t].sale = drain[t].sale
          /\ \A u \in Drains \ {t} : drain'[u] = drain[u]
      BY <1>2, <2>1 DEF Go
    <2> QED
      BY <1>1, <2>2, <2>3 DEF About
  <1>4. ASSUME NEW t \in Drains, NEW d, Go(t, d), d.phase # "answered" PROVE About(codes)'
    <2>1. drain'[t] = d /\ \A u \in Drains \ {t} : drain'[u] = drain[u]
      BY <1>2, <1>4 DEF Go
    <2> QED
      BY <1>1, <1>4, <2>1 DEF About
  <1>5. Idle.phase = "idle" /\ \A t \in Drains : Rest(t).phase # "answered"
    BY DEF Idle, Rest
  <1>6. ASSUME NEW t \in Drains, Begin(t) \/ List(t) \/ Send(t) \/ StopOffline(t)
        PROVE  About(codes)'
    <2>1. CASE Begin(t)
      BY <1>4, <2>1 DEF Begin
    <2>2. CASE List(t)
      <3>1. CASE Batch = {}
        BY <1>4, <1>5, <2>2, <3>1 DEF List
      <3>2. CASE Batch # {}
        BY <1>4, <2>2, <3>2 DEF List
      <3> QED
        BY <3>1, <3>2
    <2>3. CASE Send(t)
      BY <1>4, <2>3 DEF Send
    <2>4. CASE StopOffline(t)
      BY <1>4, <1>5, <2>4 DEF StopOffline
    <2> QED
      BY <1>6, <2>1, <2>2, <2>3, <2>4
  <1>7. ASSUME NEW t \in Drains, Answer(t) \/ NetworkError(t) PROVE About(codes)'
    <2>1. Go(t, Rest(t)) \/ Go(t, Idle)
      BY <1>7, AnswerShape DEF NetworkError
    <2> QED
      BY <1>4, <1>5, <2>1
  <1>8. CASE drain' = drain
    BY <1>1, <1>8 DEF About
  <1>9. CASE TabDies
    BY <1>9, <1>5 DEF TabDies, About
  <1> QED
    BY <1>3, <1>6, <1>7, <1>8, <1>9
    DEF Next, Step, Enqueue, AdminRetry, EodResubmit, Hydrate, Replay, Expire, CloseEod,
        MoveLink, vars

LEMMA NextOutbox ==
  "short" \notin Verdicts /\ OutboxInv /\ [Next]_vars => OutboxInv'
  <1> SUFFICES ASSUME "short" \notin Verdicts, OutboxInv, [Next]_vars PROVE OutboxInv'
    OBVIOUS
  <1>1. TypeOK /\ TypeOK' /\ recorded \subseteq recorded'
    BY NextType, RecordedGrows DEF OutboxInv
  <1>2. Settling \cap Verdicts = {}
    BY ConstantsAssumption DEF Settling
  <1>3. Truthful'
    BY <1>1, <1>2, AboutKept DEF OutboxInv, Truthful
  <1>4. ASSUME NEW s \in Sales, row'[s].status = "synced" PROVE s \in recorded'
    <2>1. row[s].status = "synced" => s \in recorded
      BY DEF OutboxInv, NothingSilentlyDropped, Rows
    <2>2. \A t \in Drains : drain[t].phase = "answered" /\ drain[t].sale = s /\ Settled(drain[t].code)
                              => s \in recorded
      BY CodesOfAnswers DEF OutboxInv, Truthful, About
    <2> QED
      BY <1>1, <1>4, <2>1, <2>2, RowMoves
  <1> QED
    BY <1>1, <1>3, <1>4 DEF OutboxInv, NothingSilentlyDropped, Rows

LEMMA OutboxInvariant == "short" \notin Verdicts /\ Spec => []OutboxInv
  <1>1. ASSUME "short" \notin Verdicts PROVE Spec => []OutboxInv
    <2>1. OutboxInv /\ [Next]_vars => OutboxInv'
      BY <1>1, NextOutbox
    <2> QED
      BY <2>1, InitOutbox, PTL DEF Spec
  <1> QED
    BY <1>1

(* A row the till shows as synced is a sale the server has, however drains,    *)
(* replays, lost answers and tab deaths interleave: so long as the server never *)
(* answers 409 for want of stock, which the drain takes for a sale on record.  *)
THEOREM NothingDropped ==
  ASSUME "short" \notin Verdicts
  PROVE  Spec => []NothingSilentlyDropped
  <1>1. OutboxInv => NothingSilentlyDropped
    BY DEF OutboxInv
  <1>2. Spec => []OutboxInv
    BY OutboxInvariant
  <1> QED
    BY <1>1, <1>2, PTL

(* The server has the sale of every server id a row bears, by which the sale   *)
(* is voided, whatever the server turns down, and for whatever reason.         *)
THEOREM KnownIdsAreServed == Spec => []KnownIdIsServed
  <1> DEFINE Inv == TypeOK /\ About(Carrying) /\ KnownIdIsServed
  <1>1. Init => Inv
    <2> SUFFICES ASSUME Init PROVE Inv
      OBVIOUS
    <2>1. (\A s \in Sales : ~row[s].id) /\ \A t \in Drains : drain[t].phase = "idle"
      BY DEF Init, Absent, Idle
    <2> QED
      BY <2>1, InitType DEF About, KnownIdIsServed
  <1>2. Inv /\ [Next]_vars => Inv'
    <2> SUFFICES ASSUME Inv, [Next]_vars PROVE Inv'
      OBVIOUS
    <2>1. TypeOK' /\ recorded \subseteq recorded'
      BY NextType, RecordedGrows
    <2>2. Carrying \cap Verdicts = {} /\ Carrying \subseteq Settling
      BY ConstantsAssumption DEF Carrying, Settling
    <2>3. About(Carrying)'
      BY <2>2, AboutKept
    <2>4. ASSUME NEW s \in Sales, row'[s].id PROVE s \in recorded'
      <3>1. row[s].id => s \in recorded
        BY DEF KnownIdIsServed
      <3>2. \A t \in Drains : drain[t].phase = "answered" /\ drain[t].sale = s
                                /\ CarriesId(drain[t].code) => s \in recorded
        BY CodesOfAnswers DEF About
      <3> QED
        BY <2>1, <2>4, <3>1, <3>2, RowMoves
    <2> QED
      BY <2>1, <2>3, <2>4 DEF KnownIdIsServed
  <1>3. Inv => KnownIdIsServed
    OBVIOUS
  <1> QED
    BY <1>1, <1>2, <1>3, PTL DEF Spec

-----------------------------------------------------------------------------
(* The outbox implements SaleDelivery, when its drains are serialised. *)

(* What the one drain holds is pending, and the sale it posts has left its     *)
(* batch: nobody settles a row behind its back.                                *)
HeldPending ==
    \A t \in Drains :
        /\ drain[t].phase = "looping" => drain[t].batch \subseteq Outstanding
        /\ drain[t].phase \in {"posted", "answered"} =>
              /\ drain[t].batch \union {drain[t].sale} \subseteq Outstanding
              /\ drain[t].sale \notin drain[t].batch

DeliveryInv == OutboxInv /\ HeldPending

LEMMA InitDelivery == Init => HeldPending
  <1> SUFFICES ASSUME Init PROVE HeldPending
    OBVIOUS
  <1>1. \A t \in Drains : drain[t].phase = "idle"
    BY DEF Init, Idle
  <1> QED
    BY <1>1 DEF HeldPending

(* A write of one status moves no other row. *)
LEMMA OneRow ==
  ASSUME TypeOK, NEW s \in Sales, NEW st, SetStatus(s, st)
  PROVE  /\ row'[s].status = st
         /\ \A x \in Sales \ {s} : row'[x] = row[x]
  BY DEF SetStatus, TypeOK

(* The one drain of Pushes = {}: its next state decides. *)
LEMMA OneDrain ==
  ASSUME Pushes = {}, TypeOK, NEW d, Go(Cycle, d)
  PROVE  Drains = {Cycle} /\ drain'[Cycle] = d
  BY DEF Drains, Go, TypeOK

LEMMA HeldKept ==
  ASSUME Pushes = {}, TypeOK, HeldPending, [Next]_vars
  PROVE  HeldPending'
  <1>1. Drains = {Cycle}
    BY DEF Drains
  <1>2. \A s \in Outstanding : s \in Sales /\ row[s].status \in {"queued", "sending", "error"}
    BY DEF Outstanding, Rows
  <1>3. row \in [Sales -> RowType]
    BY DEF TypeOK, RowType
  <1>4. ASSUME UNCHANGED drain, Outstanding \subseteq Outstanding' PROVE HeldPending'
    BY <1>4 DEF HeldPending
  <1>5. ASSUME NEW s \in Sales, NEW st \in {"queued", "sending", "error"}, SetStatus(s, st)
        PROVE  Outstanding \subseteq Outstanding' /\ s \in Outstanding'
    BY <1>5, OneRow DEF Outstanding, Rows
  <1>6. ASSUME NEW s \in Sales, Enqueue(s) \/ AdminRetry(s) \/ EodResubmit(s) \/ Hydrate(s)
                                \/ Replay(s) \/ Expire(s)
        PROVE  HeldPending'
    <2>1. CASE Enqueue(s) \/ Hydrate(s)
      <3>1. \A x \in Outstanding : row'[x] = row[x]
        BY <1>2, <1>3, <2>1 DEF Enqueue, Hydrate, Absent
      <3> QED
        BY <1>2, <1>4, <2>1, <3>1 DEF Outstanding, Rows, Enqueue, Hydrate
    <2>2. CASE AdminRetry(s) \/ EodResubmit(s)
      BY <1>4, <1>5, <2>2 DEF AdminRetry, EodResubmit
    <2>3. CASE Replay(s) \/ Expire(s)
      BY <1>4, <2>3 DEF Replay, Expire, Outstanding, Rows
    <2> QED
      BY <1>6, <2>1, <2>2, <2>3
  <1>7. ASSUME NEW d, Go(Cycle, d), d.phase \in {"idle", "reset"} PROVE HeldPending'
    BY <1>7, OneDrain DEF HeldPending
  <1>8. CASE Begin(Cycle)
    BY <1>7, <1>8 DEF Begin
  <1>9. CASE List(Cycle)
    <2>1. Batch \subseteq Outstanding
      BY DEF Batch, Drainable, Outstanding, Rows
    <2>2. CASE Batch = {}
      BY <1>7, <1>9, <2>2 DEF List, Idle
    <2>3. CASE Batch # {}
      <3>1. drain'[Cycle] = [phase |-> "looping", batch |-> Batch]
        BY <1>9, <2>3, OneDrain DEF List
      <3>2. Outstanding' = Outstanding
        BY <1>9 DEF List, Outstanding, Rows
      <3> QED
        BY <1>1, <2>1, <3>1, <3>2 DEF HeldPending
    <2> QED
      BY <2>2, <2>3
  <1>10. CASE Send(Cycle)
    <2>1. PICK s \in drain[Cycle].batch :
             /\ SetStatus(s, "sending")
             /\ Go(Cycle, [phase |-> "posted", sale |-> s, batch |-> drain[Cycle].batch \ {s}])
      BY <1>10 DEF Send
    <2>2. drain[Cycle].batch \subseteq Outstanding
      BY <1>1, <1>10 DEF HeldPending, Send
    <2>3. Outstanding \subseteq Outstanding' /\ s \in Outstanding'
      BY <1>2, <1>5, <2>1, <2>2
    <2>4. drain'[Cycle] = [phase |-> "posted", sale |-> s, batch |-> drain[Cycle].batch \ {s}]
      BY <2>1, OneDrain
    <2> QED
      BY <1>1, <2>2, <2>3, <2>4 DEF HeldPending
  <1>11. CASE StopOffline(Cycle) \/ NetworkError(Cycle)
    BY <1>7, <1>11 DEF StopOffline, NetworkError, Idle
  <1>12. CASE Serve(Cycle)
    <2>1. PICK code \in Codes :
             Go(Cycle, [phase |-> "answered", sale |-> drain[Cycle].sale, code |-> code,
                        batch |-> drain[Cycle].batch])
      BY <1>12 DEF Serve
    <2>2. drain'[Cycle] = [phase |-> "answered", sale |-> drain[Cycle].sale, code |-> code,
                           batch |-> drain[Cycle].batch]
      BY <2>1, OneDrain
    <2>3. Outstanding' = Outstanding
      BY <1>12 DEF Serve, Outstanding, Rows
    <2> QED
      BY <1>1, <1>12, <2>2, <2>3 DEF HeldPending, Serve
  <1>13. CASE Answer(Cycle)
    <2>1. /\ drain[Cycle].batch \subseteq Outstanding /\ drain[Cycle].sale \notin drain[Cycle].batch
      BY <1>1, <1>13 DEF HeldPending, Answer
    <2>2. \A x \in Sales \ {drain[Cycle].sale} : row'[x] = row[x]
      BY <1>1, <1>13, AnswerShape
    <2>3. drain[Cycle].batch \subseteq Outstanding'
      BY <1>2, <2>1, <2>2 DEF Outstanding, Rows
    <2>4. PICK d \in {Rest(Cycle), Idle} : Go(Cycle, d)
      BY <1>1, <1>13, AnswerShape
    <2>5. d.phase = "idle" \/ (d.phase = "looping" /\ d.batch = drain[Cycle].batch)
      BY DEF Rest, Idle
    <2> QED
      BY <1>1, <2>3, <2>4, <2>5, OneDrain DEF HeldPending
  <1>14. CASE CloseEod \/ MoveLink \/ UNCHANGED vars
    BY <1>4, <1>14 DEF CloseEod, MoveLink, vars, Outstanding, Rows
  <1>15. CASE TabDies
    BY <1>15 DEF TabDies, HeldPending, Idle
  <1> QED
    BY <1>1, <1>6, <1>8, <1>9, <1>10, <1>11, <1>12, <1>13, <1>14, <1>15 DEF Next, Step

(* A write of one row shows as a change of that sale's promise, or of none. *)
LEMMA OneShown ==
  ASSUME TypeOK, NEW s \in Sales, NEW r, row' = [row EXCEPT ![s] = r]
  PROVE  /\ Delivery!Become(s, Shown(r))
         /\ Shown(r) = Shown(row[s]) => Promised' = Promised
  BY DEF Delivery!Become, Promised, TypeOK

(* The write of a status, seen so. *)
LEMMA ShownStatus ==
  ASSUME TypeOK, NEW s \in Sales, NEW st \in {"queued", "sending", "error", "needs_attention"},
         SetStatus(s, st)
  PROVE  /\ st # "needs_attention" => Delivery!Become(s, "pending")
         /\ st = "needs_attention" => Delivery!Become(s, "needs_attention")
         /\ st # "needs_attention" /\ s \in Outstanding => Promised' = Promised
  <1> DEFINE r == [row[s] EXCEPT !.status = st]
  <1>1. row[s] \in RowType
    BY DEF TypeOK, RowType
  <1>2. row' = [row EXCEPT ![s] = r]
    BY <1>1 DEF SetStatus, TypeOK, RowType
  <1>3. r.status = st
    BY <1>1 DEF RowType
  <1>4. st # "needs_attention" => Shown(r) = "pending"
    BY <1>3 DEF Shown
  <1>5. st = "needs_attention" => Shown(r) = "needs_attention"
    BY <1>3 DEF Shown
  <1>6. s \in Outstanding => Shown(row[s]) = "pending"
    BY DEF Outstanding, Rows, Shown
  <1> HIDE DEF r
  <1> QED
    BY <1>2, <1>4, <1>5, <1>6, OneShown

(* Sales by what the promise says of them, and by the status of their row. *)
LEMMA ShownAs ==
  ASSUME TypeOK, NEW s \in Sales
  PROVE  /\ s \in Delivery!In({"absent"}) <=> row[s].status = "absent"
         /\ s \in Delivery!In({"pending"}) <=> s \in Outstanding
         /\ s \in Delivery!In({"needs_attention"}) <=> row[s].status = "needs_attention"
         /\ s \in Delivery!In({"pending", "needs_attention"}) <=>
               s \in Outstanding \/ row[s].status = "needs_attention"
  BY DEF Delivery!In, Promised, Shown, Outstanding, Rows, TypeOK

LEMMA InitRefines == Init => Delivery!Init
  BY DEF Init, Absent, Delivery!Init, Promised, Shown

(* One post of an enqueued sale: it is recorded, or nothing happens. *)
LEMMA SubmitRefines ==
  ASSUME TypeOK, NEW s \in Enqueued, NEW code, Submit(s, code), UNCHANGED <<row, missing>>
  PROVE  Delivery!Record(s) \/ UNCHANGED Delivery!vars
  <1>1. Promised' = Promised
    BY DEF Promised
  <1>2. s \in Sales /\ s \notin Delivery!In({"absent"})
    BY ShownAs DEF Enqueued, Rows
  <1> QED
    BY <1>1, <1>2 DEF Submit, Delivery!Record, Delivery!vars

LEMMA NextRefines ==
  ASSUME Pushes = {}, DeliveryInv, [Next]_vars
  PROVE  [Delivery!Next]_(Delivery!vars)
  <1>1. TypeOK /\ Truthful /\ HeldPending
    BY DEF DeliveryInv, OutboxInv
  <1>2. Drains = {Cycle}
    BY DEF Drains
  <1>3. row \in [Sales -> RowType] /\ recorded \subseteq Enqueued /\ replays \subseteq Enqueued
    BY <1>1 DEF TypeOK, RowType
  <1>4. ASSUME UNCHANGED <<row, recorded, missing>> PROVE UNCHANGED Delivery!vars
    BY <1>4 DEF Delivery!vars, Promised
  <1>5. ASSUME NEW s \in Sales, Enqueue(s) PROVE Delivery!Take(s)
    <2> DEFINE r == [status |-> "queued", id |-> FALSE]
    <2>1. row' = [row EXCEPT ![s] = r] /\ Shown(r) = "pending" /\ row[s].status = "absent"
      BY <1>5 DEF Enqueue, Shown, Absent
    <2> HIDE DEF r
    <2>2. Delivery!Become(s, "pending") /\ s \in Delivery!In({"absent"})
      BY <1>1, <2>1, OneShown, ShownAs
    <2> QED
      BY <1>5, <2>2 DEF Delivery!Take, Enqueue
  <1>6. ASSUME NEW s \in Sales, AdminRetry(s) PROVE Delivery!Retry(s)
    BY <1>1, <1>6, ShownStatus, ShownAs DEF AdminRetry, Delivery!Retry
  <1>7. ASSUME NEW s \in Sales, EodResubmit(s) PROVE Delivery!Resubmit(s)
    BY <1>1, <1>7, ShownStatus DEF EodResubmit, Delivery!Resubmit
  <1>8. ASSUME NEW s \in Sales, Hydrate(s) PROVE Delivery!Deliver(s) \/ UNCHANGED Delivery!vars
    <2> DEFINE r == [status |-> "synced", id |-> TRUE]
    <2>1. row' = [row EXCEPT ![s] = r] /\ Shown(r) = "synced"
      BY <1>8 DEF Hydrate, Shown
    <2> HIDE DEF r
    <2>2. CASE row[s].status = "needs_attention"
      <3>1. Delivery!Become(s, "synced") /\ s \in Delivery!In({"pending", "needs_attention"})
        BY <1>1, <2>1, <2>2, OneShown, ShownAs
      <3> QED
        BY <1>8, <3>1 DEF Hydrate, Delivery!Deliver
    <2>3. CASE row[s].status = "synced"
      <3>1. Shown(row[s]) = "synced"
        BY <2>3 DEF Shown
      <3> QED
        BY <1>1, <1>8, <2>1, <3>1, OneShown DEF Hydrate, Delivery!vars
    <2> QED
      BY <1>8, <2>2, <2>3 DEF Hydrate
  <1>9. ASSUME NEW s \in Sales, Replay(s) PROVE Delivery!Record(s) \/ UNCHANGED Delivery!vars
    BY <1>1, <1>3, <1>9, SubmitRefines DEF Replay
  <1>10. ASSUME CloseEod PROVE Delivery!CloseDay
    <2>1. Delivery!In({"pending"}) = {}
      BY <1>1, <1>10, ShownAs DEF CloseEod, Delivery!In
    <2>2. Sales \ Delivery!In({"absent"}) = Enqueued
      BY <1>1, ShownAs DEF Enqueued, Rows
    <2>3. Promised' = Promised
      BY <1>10 DEF CloseEod, Promised
    <2> QED
      BY <1>10, <2>1, <2>2, <2>3 DEF CloseEod, Delivery!CloseDay
  <1>11. ASSUME TabDies PROVE Delivery!Forget
    <2>1. Promised' = Promised
      BY <1>11 DEF TabDies, Promised
    <2> QED
      BY <1>11, <2>1 DEF TabDies, Delivery!Forget
  <1>12. ASSUME Begin(Cycle) PROVE UNCHANGED Delivery!vars
    <2>1. \A s \in Sales : row'[s] = Reset(row[s])
      BY <1>12 DEF Begin
    <2>2. \A s \in Sales : Shown(Reset(row[s])) = Shown(row[s])
      BY <1>3 DEF Shown, Reset, RowType
    <2>3. Promised' = Promised
      BY <2>1, <2>2 DEF Promised
    <2> QED
      BY <1>12, <2>3 DEF Begin, Delivery!vars
  <1>13. ASSUME Send(Cycle) PROVE UNCHANGED Delivery!vars
    <2>1. PICK s \in drain[Cycle].batch : SetStatus(s, "sending")
      BY <1>13 DEF Send
    <2>2. s \in Outstanding /\ s \in Sales
      BY <1>1, <1>2, <1>13, <2>1 DEF HeldPending, Send, Outstanding, Rows
    <2> QED
      BY <1>1, <1>13, <2>1, <2>2, ShownStatus DEF Send, Delivery!vars
  <1>14. ASSUME Serve(Cycle)
         PROVE  \/ \E s \in Sales : Delivery!Record(s)
                \/ UNCHANGED Delivery!vars
    <2>1. drain[Cycle].sale \in Enqueued /\ drain[Cycle].sale \in Sales
      BY <1>1, <1>2, <1>14, DrainType DEF Serve
    <2> QED
      BY <1>1, <1>14, <2>1, SubmitRefines DEF Serve
  <1>15. ASSUME Answer(Cycle)
         PROVE  LET s == drain[Cycle].sale
                IN  Delivery!Deliver(s) \/ Delivery!PutAside(s) \/ UNCHANGED Delivery!vars
    <2> DEFINE s == drain[Cycle].sale
               code == drain[Cycle].code
               r(read) == [status |-> "synced", id |-> row[s].id \/ (read /\ CarriesId(code))]
    <2>1. s \in Sales /\ s \in Outstanding
      BY <1>1, <1>2, <1>15, DrainType DEF HeldPending, Answer
    <2>2. CASE Settled(code)
      <3>1. PICK read \in BOOLEAN : row' = [row EXCEPT ![s] = r(read)]
        BY <1>15, <2>2 DEF Answer, Settled, Halting
      <3>2. Shown(r(read)) = "synced"
        BY DEF Shown
      <3>3. s \in recorded
        BY <1>1, <1>2, <1>15, <2>2, CodesOfAnswers DEF Truthful, About, Answer
      <3> HIDE DEF r
      <3> QED
        BY <1>1, <1>15, <2>1, <3>1, <3>2, <3>3, OneShown, ShownAs DEF Answer, Delivery!Deliver
    <2>3. CASE Halting(code)
      BY <1>1, <1>15, <2>1, <2>3, ShownStatus DEF Answer, Settled, Halting, Delivery!vars
    <2>4. CASE ~Settled(code) /\ ~Halting(code)
      BY <1>1, <1>15, <2>1, <2>4, ShownStatus, ShownAs DEF Answer, Delivery!PutAside
    <2> QED
      BY <2>2, <2>3, <2>4
  <1>16. ASSUME NetworkError(Cycle) PROVE UNCHANGED Delivery!vars
    <2>1. drain[Cycle].sale \in Sales /\ drain[Cycle].sale \in Outstanding
      BY <1>1, <1>2, <1>16, DrainType DEF HeldPending, NetworkError
    <2> QED
      BY <1>1, <1>16, <2>1, ShownStatus DEF NetworkError, Delivery!vars
  <1>17. ASSUME \/ \E s \in Sales : Expire(s)
                \/ List(Cycle) \/ StopOffline(Cycle) \/ MoveLink \/ UNCHANGED vars
         PROVE  UNCHANGED Delivery!vars
    BY <1>4, <1>17 DEF Expire, List, StopOffline, MoveLink, vars
  <1>18. ASSUME Answer(Cycle)
         PROVE  \/ \E s \in Sales : Delivery!Deliver(s) \/ Delivery!PutAside(s)
                \/ UNCHANGED Delivery!vars
    <2>1. drain[Cycle].sale \in Sales
      BY <1>1, <1>2, <1>18, AnswerShape
    <2> QED
      BY <1>15, <1>18, <2>1
  <1> QED
    BY <1>2, <1>5, <1>6, <1>7, <1>8, <1>9, <1>10, <1>11, <1>12, <1>13, <1>14, <1>16, <1>17, <1>18
    DEF Next, Step, Delivery!Next

(* The outbox implements its promise: so long as its drains are serialised,    *)
(* the moves of rows through queued, sending and error, drains, replays, lost  *)
(* answers and tab deaths show to the rest of the till as a sale that is       *)
(* pending until it is delivered, with the server having it, or put aside.     *)
THEOREM ImplementsDelivery ==
  ASSUME Pushes = {}, "short" \notin Verdicts
  PROVE  Spec => DeliverySpec
  <1>1. Init => DeliveryInv
    BY InitOutbox, InitDelivery DEF DeliveryInv
  <1>2. DeliveryInv /\ [Next]_vars => DeliveryInv'
    BY NextOutbox, HeldKept DEF DeliveryInv, OutboxInv
  <1>3. DeliveryInv /\ [Next]_vars => [Delivery!Next]_(Delivery!vars)
    BY NextRefines
  <1> QED
    BY <1>1, <1>2, <1>3, InitRefines, PTL DEF Spec, DeliverySpec, Delivery!Spec
==============================================================================

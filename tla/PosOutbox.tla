------------------------------ MODULE PosOutbox ------------------------------
(***************************************************************************)
(* The sale outbox of the POS: rows of pending_sales in the browser's      *)
(* database, the drains that post them to /v1/sales/submit, the service    *)
(* worker that replays posts whose fetch failed, and the server's record.  *)
(*                                                                         *)
(* A drain is one call of pushOutbox: the sync runner's cycle runs one at  *)
(* a time, but every screen's triggerPush starts another beside it.  Each  *)
(* read or write of the browser's database and each fetch is awaited, so   *)
(* each is a step.                                                         *)
(*                                                                         *)
(* Abstractions.  A sale is its number in createdAt order.  A row keeps    *)
(* its status and whether it knows the sale's server id.  The link is up   *)
(* (nothing fails), flaky (the device believes it is online; a fetch may   *)
(* fail before or after the server acted, or be answered 408, 429, 5xx) or *)
(* down (the device knows it is offline).                                  *)
(***************************************************************************)
EXTENDS Naturals, FiniteSets

CONSTANTS
    Sales,        \* the sales of the till: numbers, in createdAt order
    Cycle,        \* the drain of the sync cycle
    Pushes,       \* the drains triggerPush may have under way
    MaxPerDrain,  \* rows a drain takes at most
    MaxDeaths,    \* bound on the deaths of the tab
    Verdicts      \* how the server may turn a new sale down: "short" of stock
                  \* (409 insufficient_stock) or "refused" (any other 4xx)

ASSUME ConstantsAssumption ==
    /\ Sales \subseteq Nat /\ IsFiniteSet(Sales)
    /\ Cycle \notin Pushes
    /\ MaxPerDrain \in Nat \ {0} /\ MaxDeaths \in Nat
    /\ Verdicts \subseteq {"short", "refused"}

VARIABLES
    row,       \* per sale: its outbox row, or Absent
    drain,     \* per drain: how far it got
    recorded,  \* the sales the server has
    replays,   \* the posts the service worker will replay
    link,      \* state of the connection
    missing,   \* what the last end-of-day mismatch listed
    deaths     \* how often the tab died

vars == <<row, drain, recorded, replays, link, missing, deaths>>

Drains == {Cycle} \union Pushes
Absent == [status |-> "absent", id |-> FALSE]
Idle == [phase |-> "idle"]
Codes == {"created", "conflict", "short", "refused", "busy"}

Rows(statuses) == {s \in Sales : row[s].status \in statuses}
Enqueued == Sales \ Rows({"absent"})
Drainable == Rows({"queued", "error"})
Outstanding == Rows({"queued", "sending", "error"})

SetStatus(s, st) == row' = [row EXCEPT ![s].status = st]
Go(t, state) == drain' = [drain EXCEPT ![t] = state]

-----------------------------------------------------------------------------
(* The till. *)

Enqueue(s) ==
    /\ row[s] = Absent
    /\ \A x \in Sales : x < s => row[x] # Absent
    /\ row' = [row EXCEPT ![s] = [status |-> "queued", id |-> FALSE]]
    /\ UNCHANGED <<drain, recorded, replays, link, missing, deaths>>

(* "Coba kirim ulang" in /admin. *)
AdminRetry(s) ==
    /\ row[s].status = "needs_attention"
    /\ SetStatus(s, "queued")
    /\ UNCHANGED <<drain, recorded, replays, link, missing, deaths>>

(* Closing the day with nothing outstanding: the server lists what it lacks. *)
CloseEod ==
    /\ Outstanding = {} /\ link # "down"
    /\ missing' = Enqueued \ recorded
    /\ UNCHANGED <<row, drain, recorded, replays, link, deaths>>

(* Resubmitting what was missing: the row is requeued whatever its status. *)
EodResubmit(s) ==
    /\ s \in missing
    /\ SetStatus(s, "queued")
    /\ missing' = missing \ {s}
    /\ UNCHANGED <<drain, recorded, replays, link, deaths>>

(* upsertSyncedFromRemote: a sale found on the server; the drain owns its row *)
(* while it is outstanding.                                                   *)
Hydrate(s) ==
    /\ s \in recorded /\ link # "down"
    /\ row[s].status \in {"needs_attention", "synced"}
    /\ row' = [row EXCEPT ![s] = [status |-> "synced", id |-> TRUE]]
    /\ UNCHANGED <<drain, recorded, replays, link, missing, deaths>>

-----------------------------------------------------------------------------
(* A drain. *)

LeftInFlight(r) == r  \* mutant: rows left "sending" stay so

(* resetInFlight: whatever is "sending" is taken for left over by a dead tab. *)
Reset(r) == IF r.status = "sending" THEN [r EXCEPT !.status = "queued"] ELSE r

Begin(t) ==
    /\ drain[t] = Idle /\ link # "down"
    /\ row' = [s \in Sales |-> Reset(row[s])]
    /\ Go(t, [phase |-> "reset"])
    /\ UNCHANGED <<recorded, replays, link, missing, deaths>>

(* listDrainable cuts the index scan off before it sorts, and the index lists *)
(* the rows in "error" first.                                                 *)
Ahead(x, s) ==
    IF row[x].status = row[s].status THEN x < s ELSE row[x].status = "error"
BatchOfAny ==  \* mutant: rows are listed whatever their status
    {s \in Sales : Cardinality({x \in Sales : Ahead(x, s)}) < MaxPerDrain}
Batch == {s \in Drainable :
             Cardinality({x \in Drainable : Ahead(x, s)}) < MaxPerDrain}

List(t) ==
    /\ drain[t].phase = "reset"
    /\ Go(t, IF Batch = {} THEN Idle ELSE [phase |-> "looping", batch |-> Batch])
    /\ UNCHANGED <<row, recorded, replays, link, missing, deaths>>

(* markSending, whatever became of the row since it was listed, and the fetch. *)
Send(t) ==
    /\ drain[t].phase = "looping" /\ link # "down"
    /\ \E s \in drain[t].batch :
          /\ \A x \in drain[t].batch : s <= x
          /\ SetStatus(s, "sending")
          /\ Go(t, [phase |-> "posted", sale |-> s, batch |-> drain[t].batch \ {s}])
    /\ UNCHANGED <<recorded, replays, link, missing, deaths>>

(* The device knows it is offline: the rest of the batch is left. *)
StopOffline(t) ==
    /\ drain[t].phase = "looping" /\ link = "down"
    /\ Go(t, Idle)
    /\ UNCHANGED <<row, recorded, replays, link, missing, deaths>>

Rest(t) == IF drain[t].batch = {} THEN Idle
                                  ELSE [phase |-> "looping", batch |-> drain[t].batch]

AnyButBusy(code) == code # "busy"  \* mutant: a refused sale is taken for settled

(* How the drain reads an answer: 2xx and every 409 settle the row, 408, 429 *)
(* and 5xx halt the drain, any other 4xx parks the row.  Only the answers    *)
(* about a sale on record carry its server id; the row is synced without it  *)
(* if the body cannot be read.                                               *)
Settled(code) == code \in {"created", "conflict", "short"}
Halting(code) == code = "busy"
CarriesId(code) == code \in {"created", "conflict"}

(* The answer of the server, and what it does to the row and the drain. *)
Answer(t) ==
    /\ drain[t].phase = "answered"
    /\ LET s == drain[t].sale
           code == drain[t].code
       IN \/ /\ Settled(code)
             /\ \E read \in BOOLEAN :
                  row' = [row EXCEPT ![s] =
                             [status |-> "synced", id |-> @.id \/ (read /\ CarriesId(code))]]
             /\ Go(t, Rest(t))
          \/ /\ Halting(code)
             /\ SetStatus(s, "error")
             /\ Go(t, Idle)
          \/ /\ ~Settled(code) /\ ~Halting(code)
             /\ SetStatus(s, "needs_attention")
             /\ Go(t, Rest(t))
    /\ UNCHANGED <<recorded, replays, link, missing, deaths>>

(* The fetch rejects, before or after the server acted: the row goes to error,*)
(* the drain halts and the service worker may keep the post.                  *)
NetworkError(t) ==
    /\ drain[t].phase \in {"posted", "answered"} /\ link # "up"
    /\ SetStatus(drain[t].sale, "error")
    /\ Go(t, Idle)
    /\ replays' \in {replays, replays \union {drain[t].sale}}
    /\ UNCHANGED <<recorded, link, missing, deaths>>

(* The tab dies: its drains vanish, and the service worker may keep the posts *)
(* they had under way.                                                        *)
TabDies ==
    /\ deaths < MaxDeaths
    /\ deaths' = deaths + 1
    /\ drain' = [t \in Drains |-> Idle]
    /\ missing' = {}
    /\ \E kept \in SUBSET {drain[t].sale : t \in {u \in Drains : drain[u].phase = "posted"}} :
          replays' = replays \union kept
    /\ UNCHANGED <<row, recorded, link>>

-----------------------------------------------------------------------------
(* The server, the service worker and the connection. *)

(* One post of sale s, answered with code. *)
Submit(s, code) ==
    \/ code = "busy" /\ link = "flaky" /\ UNCHANGED recorded
    \/ code = "conflict" /\ s \in recorded /\ UNCHANGED recorded
    \/ code = "created" /\ s \notin recorded /\ recorded' = recorded \union {s}
    \/ code \in Verdicts /\ s \notin recorded /\ UNCHANGED recorded

Serve(t) ==
    /\ drain[t].phase = "posted" /\ link # "down"
    /\ \E code \in Codes :
          /\ Submit(drain[t].sale, code)
          /\ Go(t, [phase |-> "answered", sale |-> drain[t].sale, code |-> code,
                    batch |-> drain[t].batch])
    /\ UNCHANGED <<row, replays, link, missing, deaths>>

(* A replay: any answer ends it, and nobody reads the answer. *)
Replay(s) ==
    /\ s \in replays /\ link # "down"
    /\ \E code \in Codes : Submit(s, code)
    /\ replays' = replays \ {s}
    /\ UNCHANGED <<row, drain, link, missing, deaths>>

(* maxRetentionTime. *)
Expire(s) ==
    /\ s \in replays
    /\ replays' = replays \ {s}
    /\ UNCHANGED <<row, drain, recorded, link, missing, deaths>>

MoveLink ==
    /\ link' \in {"up", "flaky", "down"} \ {link}
    /\ UNCHANGED <<row, drain, recorded, replays, missing, deaths>>

-----------------------------------------------------------------------------
Init ==
    /\ row = [s \in Sales |-> Absent]
    /\ drain = [t \in Drains |-> Idle]
    /\ recorded = {}
    /\ replays = {}
    /\ link \in {"up", "down"}
    /\ missing = {}
    /\ deaths = 0

Step(t) == List(t) \/ Send(t) \/ StopOffline(t) \/ Serve(t) \/ Answer(t)

Next ==
    \/ \E s \in Sales : Enqueue(s) \/ AdminRetry(s) \/ EodResubmit(s) \/ Hydrate(s)
                        \/ Replay(s) \/ Expire(s)
    \/ CloseEod
    \/ \E t \in Drains : Begin(t) \/ Step(t) \/ NetworkError(t)
    \/ TabDies
    \/ MoveLink

Spec == Init /\ [][Next]_vars

(* The interval timer starts the cycle again and again, and what a drain awaits *)
(* comes back.  Nothing is assumed of the till, of triggerPush or of the link.  *)
FairSpec ==
    /\ Spec
    /\ WF_vars(Begin(Cycle))
    /\ \A t \in Drains : WF_vars(Step(t))

-----------------------------------------------------------------------------
(* Properties *)

DrainStates ==
    {Idle, [phase |-> "reset"]}
    \union [phase : {"looping"}, batch : (SUBSET Sales) \ {{}}]
    \union [phase : {"posted"}, sale : Sales, batch : SUBSET Sales]
    \union [phase : {"answered"}, sale : Sales, code : Codes, batch : SUBSET Sales]

(* The sales a drain holds. *)
Held(t) ==
    CASE drain[t].phase \in {"idle", "reset"} -> {}
      [] drain[t].phase = "looping" -> drain[t].batch
      [] OTHER -> drain[t].batch \union {drain[t].sale}

(* Every variable keeps its shape, and nothing is posted, replayed or recorded *)
(* that the till did not enqueue.                                              *)
TypeOK ==
    /\ row \in [Sales -> [status : {"absent", "queued", "sending", "error",
                                    "needs_attention", "synced"}, id : BOOLEAN]]
    /\ drain \in [Drains -> DrainStates]
    /\ \A t \in Drains : Held(t) \subseteq Enqueued
    /\ recorded \subseteq Enqueued
    /\ replays \subseteq Enqueued
    /\ link \in {"up", "flaky", "down"}
    /\ missing \subseteq Enqueued
    /\ deaths \in 0..MaxDeaths

(* "Nothing is silently dropped": an enqueued sale is on the server, or its  *)
(* row is still drained, or it waits in the needs-attention list.  Drains    *)
(* that overlap, replays, tab deaths and lost answers change nothing to it.  *)
NothingSilentlyDropped == \A s \in Rows({"synced"}) : s \in recorded

(* A row bears a server id only if the server has its sale, whatever the     *)
(* server turned down: not even an answer for want of stock, which the drain *)
(* takes for a replay, leaves one.  It is the id the sale is voided by.      *)
KnownIdIsServed == \A s \in Sales : row[s].id => s \in recorded

(* Once the link stays up, every outstanding row is settled: it reaches the  *)
(* server or the needs-attention list, whatever died or was lost before.  A  *)
(* clerk who retries refused rows for ever may keep a full batch ahead of it.*)
Drained ==
    /\ <>[](link = "up")
    /\ <>[][\A s \in Sales : ~AdminRetry(s)]_vars
    => \A s \in Sales : s \in Outstanding ~> row[s].status \in {"synced", "needs_attention"}

(* What the outbox promises the rest of the till (module SaleDelivery): the  *)
(* statuses a drain moves a row through are all "pending" to it.             *)
Shown(r) == IF r.status \in {"queued", "sending", "error"} THEN "pending" ELSE r.status

Promised == [s \in Sales |-> Shown(row[s])]

Delivery == INSTANCE SaleDelivery WITH state <- Promised, listed <- missing

(* With the drains serialised, the outbox keeps that promise.                *)
DeliverySpec == Delivery!Spec
=============================================================================

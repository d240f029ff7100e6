------------------------------ MODULE TillMirror ------------------------------
(***************************************************************************)
(* The till's copy of the catalog.  The sync cycle pulls the rows that     *)
(* changed, page by page, and then sends the availability toggles of the   *)
(* cashier, one row per item; a toggle writes the copy at once and its     *)
(* outbox row after that.                                                  *)
(*                                                                         *)
(* Abstractions.  One cycle at a time, without triggerPush's second drain  *)
(* (PosOutbox has it); the cashier toggles one item at a time; a drain     *)
(* sends its rows in any order, and no more than its limit are queued.     *)
(* A page is retried or given up without counting the attempts.            *)
(***************************************************************************)
EXTENDS CatalogStore

CONSTANTS
    MaxMoves,    \* bound on the cashier's toggles and the office's edits together
    MaxFaults    \* bound on lost requests, roll-backs and deaths of the tab

ASSUME TillAssumption == MaxMoves \in Nat /\ MaxFaults \in Nat

VARIABLES
    local,     \* per item: the row of the till's items table
    cursor,    \* the stamp sync_state keeps
    walk,      \* the pull: the position it asks from, then the page it got
    outbox,    \* per item: the row of pending_catalog_mutations
    batch,     \* what the drain has listed and not yet sent
    post,      \* the PATCH on its way
    tap,       \* the toggle under way, with the row it read
    cycle,     \* of the runner: at rest, pulling, sending
    intent,    \* per item: the last toggle enqueued, until the API applied it
    raced,     \* items toggled while an earlier toggle was being sent
    behind,    \* items whose copy a race has left behind the catalog
    taps, faults

tillVars == <<local, cursor, walk, outbox, batch, post, tap, cycle,
              intent, raced, behind, taps, faults>>
vars == <<storeVars, tillVars>>

None == [none |-> TRUE]
Waits(pos) == [step |-> "ask", from |-> pos]
Holds(pos, page) == [step |-> "page", from |-> pos, page |-> page]

(* What the till has heard of lies before this position. *)
Reached ==
    CASE walk = None -> AfterStamp(cursor)
      [] walk # None /\ walk.step = "ask" -> walk.from
      [] walk # None /\ walk.step = "page" ->
             IF walk.page.more THEN walk.page.last
             ELSE IF DOMAIN walk.page.rows = {} THEN walk.from
             ELSE AfterStamp(walk.page.last.at)

Init ==
    /\ CatalogInit
    /\ local = [id \in Items |-> None] /\ cursor = 0 /\ walk = None
    /\ outbox = [id \in Items |-> None] /\ batch = {} /\ post = None /\ tap = None
    /\ cycle = "rest"
    /\ intent = [id \in Items |-> None] /\ raced = {} /\ behind = {}
    /\ taps = 0 /\ faults = 0

Fault == faults < MaxFaults /\ faults' = faults + 1

-----------------------------------------------------------------------------
(* The pull. *)

StartCycle ==
    /\ cycle = "rest"
    /\ cycle' = "pull" /\ walk' = Waits(AfterStamp(cursor))
    /\ UNCHANGED <<local, cursor, outbox, batch, post, tap, intent, raced, behind,
                   taps, faults, storeVars>>

(* The API lists; from here on the answer is on its way. *)
FetchPage ==
    /\ walk # None /\ walk.step = "ask"
    /\ walk' = Holds(walk.from, ListItems(walk.from))
    /\ behind' = behind \ PageOf(walk.from)
    /\ UNCHANGED <<local, cursor, outbox, batch, post, tap, cycle, intent, raced,
                   taps, faults, storeVars>>

(* An error worth a retry, or one that ends the pull: the drains follow all  *)
(* the same, except when the device is offline.                              *)
PullFails ==
    /\ walk # None /\ Fault
    /\ \/ walk' = Waits(walk.from) /\ cycle' = cycle
       \/ walk' = None /\ cycle' \in {"push", "rest"}
    /\ UNCHANGED <<local, cursor, outbox, batch, post, tap, intent, raced, behind,
                   taps, storeVars>>

(* The stamp to pull from next: only the last page moves it. *)
EveryPage(page) == page.last.at  \* mutant: every page moves the cursor
JustPast(page) ==  \* mutant: to the first stamp the page cannot hold
    IF page.more \/ DOMAIN page.rows = {} THEN cursor ELSE page.last.at + 1
NextCursor(page) ==
    IF page.more \/ DOMAIN page.rows = {} THEN cursor ELSE page.last.at

(* The rows and the cursor, in one transaction. *)
ApplyPage ==
    /\ walk # None /\ walk.step = "page"
    /\ local' = [id \in Items |->
                   IF id \in DOMAIN walk.page.rows THEN walk.page.rows[id] ELSE local[id]]
    /\ cursor' = NextCursor(walk.page)
    /\ walk' = IF walk.page.more THEN Waits(walk.page.last) ELSE None
    /\ cycle' = IF walk.page.more THEN cycle ELSE "push"
    /\ UNCHANGED <<outbox, batch, post, tap, intent, raced, behind, taps, faults,
                   storeVars>>

-----------------------------------------------------------------------------
(* A toggle: setAvailability reads the row and puts it back, then the outbox *)
(* row is written, replacing the item's row whatever its status.             *)

BeingSent(id) ==
    \/ \E r \in batch : r.item = id
    \/ post # None /\ post.item = id
    \/ \E w \in writes : w.kind = "toggle" /\ id \in DOMAIN w.patches

Tap(id, sold) ==
    /\ tap = None /\ local[id] # None /\ local[id].data # Retired
    /\ edits + taps < MaxMoves /\ taps' = taps + 1
    /\ tap' = [stage |-> "read", item |-> id, sold |-> sold, row |-> local[id]]
    /\ UNCHANGED <<local, cursor, walk, outbox, batch, post, cycle, intent, raced,
                   behind, faults, storeVars>>

TapPuts ==
    /\ tap # None /\ tap.stage = "read"
    /\ local' = [local EXCEPT ![tap.item] = [tap.row EXCEPT !.sold = tap.sold]]
    /\ behind' = IF local[tap.item].data # tap.row.data
                 THEN behind \union {tap.item} ELSE behind
    /\ tap' = [tap EXCEPT !.stage = "put"]
    /\ UNCHANGED <<cursor, walk, outbox, batch, post, cycle, intent, raced, taps,
                   faults, storeVars>>

TapEnqueues ==
    /\ tap # None /\ tap.stage = "put"
    /\ outbox' = [outbox EXCEPT ![tap.item] = [sold |-> tap.sold, status |-> "queued"]]
    /\ intent' = [intent EXCEPT ![tap.item] = [sold |-> tap.sold]]
    /\ raced' = IF BeingSent(tap.item) THEN raced \union {tap.item} ELSE raced
    /\ tap' = None
    /\ UNCHANGED <<local, cursor, walk, batch, post, cycle, behind, taps, faults,
                   storeVars>>

-----------------------------------------------------------------------------
(* The drain. *)

Drainable(row) == row # None /\ row.status \in {"queued", "error"}
LeftInFlight(row) == row  \* mutant: what was being sent is not listed again
Reset(row) ==
    IF row # None /\ row.status = "sending" THEN [row EXCEPT !.status = "queued"] ELSE row

ListDrainable ==
    /\ cycle = "push" /\ batch = {} /\ post = None
    /\ outbox' = [id \in Items |-> Reset(outbox[id])]
    /\ batch' = {[item |-> id, sold |-> outbox'[id].sold] :
                   id \in {x \in Items : Drainable(outbox'[x])}}
    /\ cycle' = IF batch' = {} THEN "rest" ELSE "drain"
    /\ UNCHANGED <<local, cursor, walk, post, tap, intent, raced, behind, taps, faults,
                   storeVars>>

SetStatus(id, status) ==
    outbox' = [outbox EXCEPT ![id] =
                 IF @ = None THEN None ELSE [@ EXCEPT !.status = status]]

Send(r) ==
    /\ cycle = "drain" /\ post = None /\ r \in batch
    /\ SetStatus(r.item, "sending")
    /\ batch' = batch \ {r}
    /\ post' = [item |-> r.item, sold |-> r.sold, state |-> "link", at |-> 0]
    /\ UNCHANGED <<local, cursor, walk, tap, cycle, intent, raced, behind, taps, faults,
                   storeVars>>

(* The API takes the PATCH and stamps it. *)
Toggle(item, sold) == [x \in {item} |-> [sold |-> sold]]
PatchStamped ==
    /\ post # None /\ post.state = "link"
    /\ writes' = writes \union {Write("toggle", Toggle(post.item, post.sold))}
    /\ post' = [post EXCEPT !.state = "taken", !.at = clock]
    /\ UNCHANGED <<local, cursor, walk, outbox, batch, tap, cycle, intent, raced, behind,
                   taps, faults, items, clock, edits>>

NextRow == cycle' = IF batch = {} THEN "rest" ELSE "drain"

(* 200: the row is deleted, whatever it asks for by now. *)
MarkSynced ==
    /\ post # None /\ post.state = "done"
    /\ outbox' = [outbox EXCEPT ![post.item] = None]
    /\ post' = None /\ NextRow
    /\ UNCHANGED <<local, cursor, walk, batch, tap, intent, raced, behind, taps, faults,
                   storeVars>>

(* The fetch fails, before or after the API acted, or the API answers 5xx:   *)
(* the drain halts.                                                          *)
DropsRow ==  \* mutant: the row is gone, whether the PATCH was applied or not
    /\ outbox' = [outbox EXCEPT ![post.item] = None]
    /\ post' = None /\ batch' = {} /\ cycle' = "rest"
    /\ UNCHANGED <<local, cursor, walk, tap, intent, raced, behind, taps, storeVars>>

MarkError ==
    /\ SetStatus(post.item, "error")
    /\ post' = None /\ batch' = {} /\ cycle' = "rest"
    /\ UNCHANGED <<local, cursor, walk, tap, intent, raced, behind, taps, storeVars>>

PatchLost == post # None /\ Fault /\ MarkError
PatchFailed == post # None /\ post.state = "failed" /\ UNCHANGED faults /\ MarkError

(* Any other 4xx: the row is parked. *)
MarkNeedsAttention ==
    /\ post # None /\ post.state = "link"
    /\ SetStatus(post.item, "needs_attention")
    /\ post' = None /\ NextRow
    /\ UNCHANGED <<local, cursor, walk, batch, tap, intent, raced, behind, taps, faults,
                   storeVars>>

(* The tab dies: what it awaited is lost, a PATCH the API has taken goes on. *)
TabDies ==
    /\ Fault
    /\ walk' = None /\ batch' = {} /\ post' = None /\ tap' = None /\ cycle' = "rest"
    /\ behind' = IF tap # None /\ tap.stage = "put"
                 THEN behind \union {tap.item} ELSE behind
    /\ UNCHANGED <<local, cursor, outbox, intent, raced, taps, storeVars>>

-----------------------------------------------------------------------------
(* The API. *)

(* A row whose stamp the till has already heard past is not listed again.    *)
Overtaken(w) ==
    {id \in DOMAIN w.patches :
        items'[id] # items[id] /\ ~Beyond([at |-> w.at, id |-> id], Reached)}

Answers(w) ==
    /\ post # None /\ post.state = "taken" /\ w.kind = "toggle"
    /\ w.at = post.at /\ w.patches = Toggle(post.item, post.sold)

CommitWrite(w) ==
    /\ Commit(w)
    /\ behind' = behind \union Overtaken(w)
    /\ post' = IF Answers(w) THEN [post EXCEPT !.state = "done"] ELSE post
    /\ intent' = [id \in Items |->
                    IF w.kind = "toggle" /\ id \in DOMAIN w.patches
                       /\ intent[id] = [sold |-> w.patches[id].sold]
                    THEN None ELSE intent[id]]
    /\ UNCHANGED <<local, cursor, walk, outbox, batch, tap, cycle, raced, taps, faults>>

WriteFails(w) ==
    /\ RollBack(w)
    /\ Fault
    /\ post' = IF Answers(w) THEN [post EXCEPT !.state = "failed"] ELSE post
    /\ UNCHANGED <<local, cursor, walk, outbox, batch, tap, cycle, intent, raced, behind,
                   taps>>

Office ==
    /\ Tick \/ (edits + taps < MaxMoves /\ OfficeEdits)
    /\ UNCHANGED tillVars

Next ==
    \/ StartCycle \/ FetchPage \/ PullFails \/ ApplyPage
    \/ \E id \in Items, sold \in BOOLEAN : Tap(id, sold)
    \/ TapPuts \/ TapEnqueues
    \/ ListDrainable \/ \E r \in batch : Send(r)
    \/ PatchStamped \/ MarkSynced \/ PatchLost \/ PatchFailed \/ MarkNeedsAttention
    \/ TabDies
    \/ \E w \in writes : CommitWrite(w) \/ WriteFails(w)
    \/ Office

Spec == Init /\ [][Next]_vars

(* The cycle is started by a timer, and what the till or the API has begun   *)
(* goes on; losses, refusals and edits need not come.                        *)
Fairness ==
    /\ WF_vars(StartCycle) /\ WF_vars(FetchPage) /\ WF_vars(ApplyPage)
    /\ WF_vars(TapPuts) /\ WF_vars(TapEnqueues)
    /\ WF_vars(ListDrainable) /\ WF_vars(\E r \in batch : Send(r))
    /\ WF_vars(PatchStamped) /\ WF_vars(MarkSynced)
    /\ WF_vars(PatchFailed)
    /\ WF_vars(\E w \in writes : CommitWrite(w))

FairSpec == Spec /\ Fairness

-----------------------------------------------------------------------------
OutboxRow == [sold : BOOLEAN, status : {"queued", "sending", "error", "needs_attention"}]
LocalRow == [data : Contents, sold : BOOLEAN]

TypeOK ==
    /\ CatalogTypeOK
    /\ local \in [Items -> LocalRow \union {None}]
    /\ cursor \in 0..clock
    /\ outbox \in [Items -> OutboxRow \union {None}]
    /\ batch \subseteq [item : Items, sold : BOOLEAN]
    /\ cycle \in {"rest", "pull", "push", "drain"}
    /\ walk # None <=> cycle = "pull"
    /\ post # None => cycle = "drain" /\ post.item \in Items /\ post.sold \in BOOLEAN
    /\ intent \in [Items -> [sold : BOOLEAN] \union {None}]
    /\ raced \subseteq Items /\ behind \subseteq Items

Current(id) == [data |-> items[id].data, sold |-> items[id].sold]

(* The pull skips no row: what the till's copy lacks of a row lies beyond    *)
(* what the till has heard of, or is in the page it holds, though rows move  *)
(* while it walks the pages, pages are lost and the tab dies between them.   *)
(* Set apart are the rows a named race leaves behind (pull.ts 292-337).      *)
NothingSkipped ==
    \A id \in Items \ behind :
        Present(id) =>
            \/ local[id] # None /\ local[id].data = items[id].data
            \/ Beyond(PositionOf(id), Reached)
            \/ walk # None /\ walk.step = "page" /\ id \in DOMAIN walk.page.rows
               /\ walk.page.rows[id].data = items[id].data

(* The cashier's last toggle of an item stays in the outbox until the API    *)
(* has applied it, over lost requests, lost answers and deaths of the tab,   *)
(* unless the item was toggled while an earlier toggle of it was being sent  *)
(* (push-catalog.ts 129-168).                                                *)
Kept(id) == outbox[id] # None /\ outbox[id].sold = intent[id].sold
IntentKept == \A id \in Items \ raced : intent[id] # None => Kept(id)

(* The same of every toggle, as pending-catalog-mutations.ts 17-21 says:     *)
(* a row overwritten while it is being sent is the next intent and replays.  *)
EveryIntentKept == \A id \in Items : intent[id] # None => Kept(id)

(* Once the edits, toggles and faults are over, the till shows the catalog   *)
(* as it is, availability included, but for the items a named race left      *)
(* behind and those whose toggle was refused (runner.ts 125-130).            *)
Parked(id) == outbox[id] # None /\ outbox[id].status = "needs_attention"
Agrees(id) == Present(id) => local[id] = Current(id)
MirrorConverges ==
    <>[](\A id \in Items \ (behind \union raced) : Parked(id) \/ Agrees(id))

(* After a refusal the next pull brings the value of the API, as runner.ts   *)
(* 127-130 says.                                                             *)
RefusalReconciled == <>[](\A id \in Items \ (behind \union raced) : Agrees(id))
=============================================================================

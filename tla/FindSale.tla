------------------------------- MODULE FindSale -------------------------------
(***************************************************************************)
(* A buyer's receipt code at a till: the sale it finds in the till's own   *)
(* database or, on a miss, at the server, which may hold it from a sibling *)
(* till of the outlet; and the void of the sale found.                     *)
(*                                                                         *)
(* Abstractions.  All sales are of the open shift's date.  A row of        *)
(* pending_sales is absent, in the outbox (queued, sending or error) or    *)
(* synced, which means it knows the server's id, with the void it shows:   *)
(* none, a sibling's or the attempt of this till by its number.  An        *)
(* attempt's outbox row and its mark on the sale are two writes, the two   *)
(* that take it back as well; the read and the write of clearOptimisticVoid*)
(* are one.  The server's commit and its answer are two steps.  A code     *)
(* asked for is on a receipt that exists, or is on none.                   *)
(***************************************************************************)
EXTENDS Integers, FiniteSets

CONSTANTS
    Sales, NoSale,
    Own,         \* rung on this till
    Here,        \* of this outlet
    CodeOf,      \* the last six characters of the id: two sales may share them
    WrongCode,   \* a code on no receipt
    MaxLookups,  \* bound: submits of the form
    MaxVoids     \* bound: attempts to void a sale

ASSUME FindAssumption ==
    /\ NoSale \notin Sales /\ Own \subseteq Here /\ Here \subseteq Sales
    /\ MaxLookups \in Nat /\ MaxVoids \in Nat

VARIABLES
    held,      \* pending_sales: per sale [at, void]
    served,    \* the server's sale, as a row: absent or synced, and its void
    voids,     \* pending_voids, each [sale, status, step, heard, alone]: where
               \* the handler of its screen stands, whether that is mounted, and
               \* whether no other attempt to void the sale mingled with it
    draining,  \* the attempt the drain has listed, sent, or owes its stamp
    shift,     \* the shift is open
    screen,    \* [at, sale, row, shift]: "find", "history", or "void" as it loaded
    find,      \* [kind, code, sale] of the form
    lookups,   \* submits, each where its handler stands
    crossed,   \* a form was submitted while an earlier lookup was under way, or
               \* a sale rung that bears the code the server is asked for
    cut        \* the body of an answer was cut off

findVars == <<held, served, voids, draining, shift, screen, find, lookups, crossed, cut>>
records == <<held, served, voids, draining, shift>>

Idle == [kind |-> "idle", code |-> WrongCode, sale |-> NoSale]
NoVoid == 0
Theirs == -1
Nothing == [at |-> "absent", void |-> NoVoid]
Live == [at |-> "synced", void |-> NoVoid]
NoDrain == [void |-> 0, step |-> "idle"]
At(place) == [at |-> place, sale |-> NoSale, row |-> Nothing, shift |-> FALSE]
Rows == {s \in Sales : held[s].at # "absent"}
Searching == find.kind = "searching"
UnderWay(l) == l.step # "over"

-----------------------------------------------------------------------------
(* The counter, the drains and the sibling till. *)

(* A lookup has missed the sale and goes on. *)
Missed(s) ==
    \E n \in DOMAIN lookups :
        UnderWay(lookups[n]) /\ lookups[n].step # "local" /\ lookups[n].code = CodeOf[s]

Ring(s) ==
    /\ s \in Own /\ held[s].at = "absent" /\ shift
    /\ held' = [held EXCEPT ![s].at = "outbox"]
    /\ crossed' = (crossed \/ Missed(s))
    /\ UNCHANGED <<served, voids, draining, shift, screen, find, lookups, cut>>

SiblingRings(s) ==
    /\ s \notin Own /\ served[s] = Nothing
    /\ served' = [served EXCEPT ![s] = Live]
    /\ UNCHANGED <<held, voids, draining, shift, screen, find, lookups, crossed, cut>>

SiblingVoids(s) ==
    /\ served[s] = Live
    /\ served' = [served EXCEPT ![s].void = Theirs]
    /\ UNCHANGED <<held, voids, draining, shift, screen, find, lookups, crossed, cut>>

SalePosted(s) ==
    /\ held[s].at = "outbox" /\ served[s] = Nothing
    /\ served' = [served EXCEPT ![s] = Live]
    /\ UNCHANGED <<held, voids, draining, shift, screen, find, lookups, crossed, cut>>

SaleAnswered(s) ==
    /\ held[s].at = "outbox" /\ served[s] # Nothing
    /\ held' = [held EXCEPT ![s].at = "synced"]
    /\ UNCHANGED <<served, voids, draining, shift, screen, find, lookups, crossed, cut>>

CloseShift ==
    /\ shift /\ shift' = FALSE
    /\ UNCHANGED <<held, served, voids, draining, screen, find, lookups, crossed, cut>>

-----------------------------------------------------------------------------
(* handleSubmit. *)

OnReceipts == {CodeOf[s] : s \in {r \in Sales : r \in Rows \/ served[r] # Nothing}}

(* The button is disabled while a search is under way, the field is not. *)
FindForm == screen.at = "find" /\ ~Searching

Submit(code) ==
    /\ FindForm
    /\ code \in OnReceipts \union {WrongCode}
    /\ Cardinality(DOMAIN lookups) < MaxLookups
    /\ find' = [kind |-> "searching", code |-> code, sale |-> NoSale]
    /\ crossed' = (crossed \/ \E n \in DOMAIN lookups : UnderWay(lookups[n]))
    /\ lookups' = [n \in 1..(Cardinality(DOMAIN lookups) + 1) |->
                      IF n \in DOMAIN lookups THEN lookups[n]
                      ELSE [step |-> "local", code |-> code, heard |-> TRUE,
                            sale |-> NoSale, void |-> NoVoid, at |-> "absent"]]
    /\ UNCHANGED <<records, screen, cut>>

(* Nothing is left of a handler that ended but the code it was given. *)
Over(l) == [step |-> "over", code |-> l.code, heard |-> FALSE,
            sale |-> NoSale, void |-> NoVoid, at |-> "absent"]

(* setState: what the lookup ends with, if its screen is still mounted. *)
Ends(n, kind, sale) ==
    /\ lookups' = [lookups EXCEPT ![n] = Over(lookups[n])]
    /\ find' = IF lookups[n].heard
               THEN [kind |-> kind, code |-> lookups[n].code, sale |-> sale] ELSE find

GoesOn(n, step) ==
    /\ lookups' = [lookups EXCEPT ![n].step = step]
    /\ UNCHANGED find

NoneHeld(code) == {}  \* mutant: the form always asks the server

(* findByReceiptCode *)
LocalMatches(code) == {s \in Rows \cap Here : CodeOf[s] = code}

(* The rows, then the shift's, which decides what the card offers. *)
LocalRead(n) ==
    LET matches == LocalMatches(lookups[n].code)
    IN /\ lookups[n].step = "local"
       /\ \/ matches = {} /\ GoesOn(n, "missed")
          \/ \E s \in matches : (\A r \in matches : s <= r) /\ Ends(n, "found", s)
       /\ UNCHANGED <<records, screen, crossed, cut>>

(* A till that is offline or not enrolled does not ask. *)
Offline(n) ==
    /\ lookups[n].step = "missed" /\ Ends(n, "not_found", NoSale)
    /\ UNCHANGED <<records, screen, crossed, cut>>

AsksServer(n) ==
    /\ lookups[n].step = "missed" /\ GoesOn(n, "asked")
    /\ UNCHANGED <<records, screen, crossed, cut>>

OfAnyOutlet(code) ==  \* mutant: the server does not ask whose outlet it is
    {s \in Sales : served[s] # Nothing /\ CodeOf[s] = code}

(* GET /v1/sales?outletId=&receiptCode= *)
ServerMatches(code) == {s \in Here : served[s] # Nothing /\ CodeOf[s] = code}

ServerFinds(n) ==
    /\ lookups[n].step = "asked"
    /\ \E s \in ServerMatches(lookups[n].code) :
         lookups' = [lookups EXCEPT ![n].step = "answered", ![n].sale = s,
                       ![n].void = served[s].void]
    /\ UNCHANGED <<records, screen, find, crossed, cut>>

ServerMisses(n) ==
    /\ lookups[n].step = "asked" /\ ServerMatches(lookups[n].code) = {}
    /\ Ends(n, "not_found", NoSale)
    /\ UNCHANGED <<records, screen, crossed, cut>>

Throws(n) ==
    /\ lookups' = [lookups EXCEPT ![n] = Over(lookups[n])]
    /\ UNCHANGED find

Uncaught(n) == Throws(n)  \* mutant: a failed lookup is not caught

(* SalesLookupApiError: no network, or a status that is not 200. *)
Caught(n) == Ends(n, "not_found", NoSale)

LookupFails(n) ==
    /\ lookups[n].step \in {"asked", "answered"} /\ Caught(n)
    /\ UNCHANGED <<records, screen, crossed, cut>>

(* json() of a body that breaks off throws another error, which is not      *)
(* caught: the form goes on searching until it is reset.                    *)
BodyCut(n) ==
    /\ lookups[n].step = "answered" /\ Throws(n)
    /\ cut' = TRUE
    /\ UNCHANGED <<records, screen, crossed>>

(* The row that is made of the server's sale. *)
AsSynced(l) == [at |-> "synced", void |-> l.void]

(* upsertSyncedFromRemote: the row is read, then written; one that is in the *)
(* outbox stays there.                                                       *)
UpsertReads(n) ==
    /\ lookups[n].step = "answered"
    /\ lookups' = [lookups EXCEPT ![n].step = "read", ![n].at = held[lookups[n].sale].at]
    /\ UNCHANGED <<records, screen, find, crossed, cut>>

UpsertWrites(n) ==
    LET l == lookups[n]
    IN /\ l.step = "read"
       /\ held' = [held EXCEPT ![l.sale] =
                      IF l.at = "outbox" THEN [@ EXCEPT !.void = l.void] ELSE AsSynced(l)]
       /\ Ends(n, "found", l.sale)
       /\ UNCHANGED <<served, voids, draining, shift, screen, crossed, cut>>

(* The reset button shows in every state but idle, a search included. *)
ResetForm ==
    /\ screen.at = "find" /\ find.kind # "idle"
    /\ find' = Idle
    /\ UNCHANGED <<records, screen, lookups, crossed, cut>>

-----------------------------------------------------------------------------
(* The other screens; what a screen that is left awaits goes on unheard. *)

Unheard(handlers) == [n \in DOMAIN handlers |-> [handlers[n] EXCEPT !.heard = FALSE]]

(* The screen is replaced by another, with the attempts as they are now.     *)
Opens(there, attempts) ==
    /\ screen' = there /\ find' = Idle
    /\ lookups' = Unheard(lookups) /\ voids' = Unheard(attempts)

Go(there) ==
    /\ there # screen /\ Opens(there, voids)
    /\ UNCHANGED <<held, served, draining, shift, crossed, cut>>

GoFind == Go(At("find"))
GoHistory == Go(At("history"))

(* computeEligibility *)
MayVoid(row, open) == row.void = NoVoid /\ open /\ row.at = "synced"

(* From the card of the sale found, or from its row in the history, which    *)
(* offer the void if it is eligible.                                         *)
GoVoid(s) ==
    /\ s \in Rows \cap Here /\ MayVoid(held[s], shift)
    /\ screen.at = "history" \/ (screen.at = "find" /\ find.kind = "found" /\ find.sale = s)
    /\ Go([at |-> "void", sale |-> s, row |-> held[s], shift |-> shift])

(* All that is mounted or awaited is gone; what the tables hold stays.       *)
TabLost ==
    /\ screen' = At("find") /\ find' = Idle /\ draining' = NoDrain
    /\ lookups' = [n \in DOMAIN lookups |-> Over(lookups[n])]
    /\ voids' = [n \in DOMAIN voids |->
                    [voids[n] EXCEPT !.heard = FALSE,
                       !.step = IF @ \in {"marking", "undoing"} THEN "unmarked"
                                ELSE IF @ = "posting" THEN "over" ELSE @]]
    /\ UNCHANGED <<held, served, shift, crossed, cut>>

-----------------------------------------------------------------------------
(* The void screen's handleSubmit.  Its handler stands before the mark,      *)
(* before the answer, between the two writes that take the mark back, or is  *)
(* over; an attempt that ends "unmarked" has not left its mark.              *)

OnVoid == screen.at = "void"
Handling(v) == v.step \in {"marking", "posting", "undoing"}
Submitting == \E n \in DOMAIN voids : voids[n].heard /\ Handling(voids[n])

(* The screen has a form only for a sale that may be voided, and refuses     *)
(* with its reason otherwise; it goes by the row and the shift it loaded.    *)
VoidForm == OnVoid /\ MayVoid(screen.row, screen.shift) /\ ~Submitting

Attempts(s) == {n \in DOMAIN voids : voids[n].sale = s}

(* enqueueVoid: the outbox row. *)
Void ==
    LET s == screen.sale
    IN /\ VoidForm /\ Cardinality(DOMAIN voids) < MaxVoids
       /\ voids' = [n \in 1..(Cardinality(DOMAIN voids) + 1) |->
                       IF n \in DOMAIN voids
                       THEN [voids[n] EXCEPT !.alone = @ /\ voids[n].sale # s]
                       ELSE [sale |-> s, status |-> "queued", step |-> "marking", heard |-> TRUE,
                             alone |-> \A m \in Attempts(s) : ~Handling(voids[m])]]
       /\ UNCHANGED <<held, served, draining, shift, screen, find, lookups, crossed, cut>>

(* enqueueVoid: the mark on the sale. *)
MarkVoided(n) ==
    /\ voids[n].step = "marking"
    /\ voids' = [voids EXCEPT ![n].step = "posting"]
    /\ held' = [held EXCEPT ![voids[n].sale].void = n]
    /\ UNCHANGED <<served, draining, shift, screen, find, lookups, crossed, cut>>

(* The write throws, and the form is open again. *)
MarkFails(n) ==
    /\ voids[n].step = "marking"
    /\ voids' = [voids EXCEPT ![n].step = "unmarked", ![n].heard = FALSE]
    /\ UNCHANGED <<held, served, draining, shift, screen, find, lookups, crossed, cut>>

(* The request of the screen, or of the drain, at the server. *)
VoidPosted(n) ==
    /\ voids[n].step = "posting" \/ draining = [void |-> n, step |-> "sent"]
    /\ served[voids[n].sale] = Live
    /\ served' = [served EXCEPT ![voids[n].sale].void = n]
    /\ UNCHANGED <<held, voids, draining, shift, screen, find, lookups, crossed, cut>>

Voided(n) == served[voids[n].sale].void # NoVoid

(* The handler opens the receipt, from whatever screen it is heard or not.   *)
EndsOn(n, status) ==
    /\ Opens(At("history"), [voids EXCEPT ![n].step = "over", ![n].status = status])
    /\ UNCHANGED <<held, served, draining, shift, crossed, cut>>

(* A sale a sibling voided in the meantime is as good. *)
VoidAnswered(n) == voids[n].step = "posting" /\ Voided(n) /\ EndsOn(n, "synced")

(* No network, no enrolment, or an answer to be tried again. *)
VoidLeftQueued(n) == voids[n].step = "posting" /\ EndsOn(n, voids[n].status)

(* Refused: a wrong PIN, a closed shift.  The screen takes its own mark back, *)
RollsBack(n) ==
    /\ voids[n].step = "posting"
    /\ voids' = [voids EXCEPT ![n].step = "undoing"]
    /\ held' = [held EXCEPT ![voids[n].sale].void = IF @ = n THEN NoVoid ELSE @]
    /\ UNCHANGED <<served, draining, shift, screen, find, lookups, crossed, cut>>

(* then the outbox row; its form may be submitted again.                     *)
MarkRefused(n) ==
    /\ voids[n].step = "undoing"
    /\ voids' = [voids EXCEPT ![n].step = "unmarked", ![n].status = "refused", ![n].heard = FALSE]
    /\ UNCHANGED <<held, served, draining, shift, screen, find, lookups, crossed, cut>>

-----------------------------------------------------------------------------
(* The drain of the voids, one row at a time, beside the screen. *)

DrainLists(n) ==
    /\ draining = NoDrain /\ voids[n].status = "queued"
    /\ draining' = [void |-> n, step |-> "listed"]
    /\ UNCHANGED <<held, served, voids, shift, screen, find, lookups, crossed, cut>>

(* By now the screen may have closed the row; it is sent and queued again.   *)
DrainSends(n) ==
    /\ draining = [void |-> n, step |-> "listed"]
    /\ draining' = [void |-> n, step |-> "sent"]
    /\ voids' = [voids EXCEPT ![n].status = "queued"]
    /\ UNCHANGED <<held, served, shift, screen, find, lookups, crossed, cut>>

DrainEnds(n, status, step) ==
    /\ draining = [void |-> n, step |-> "sent"]
    /\ draining' = step
    /\ voids' = [voids EXCEPT ![n].status = status]
    /\ UNCHANGED <<held, served, shift, screen, find, lookups, crossed, cut>>

(* The server's own void of this attempt; another's is a conflict.           *)
DrainSynced(n) ==
    served[voids[n].sale].void = n /\ DrainEnds(n, "synced", [void |-> n, step |-> "owes"])
DrainFailed(n) == DrainEnds(n, "queued", NoDrain)
DrainRefused(n) == DrainEnds(n, "refused", NoDrain)  \* the mark stays

(* onVoidSynced *)
Restamps(n) ==
    /\ draining = [void |-> n, step |-> "owes"] /\ draining' = NoDrain
    /\ held' = [held EXCEPT ![voids[n].sale].void = n]
    /\ UNCHANGED <<served, voids, shift, screen, find, lookups, crossed, cut>>

-----------------------------------------------------------------------------
FindInit ==
    /\ held = [s \in Sales |-> Nothing]
    /\ served = [s \in Sales |-> Nothing]
    /\ voids = [n \in {} |-> n] /\ draining = NoDrain
    /\ shift = TRUE
    /\ screen = At("find") /\ find = Idle /\ lookups = [n \in {} |-> n]
    /\ crossed = FALSE /\ cut = FALSE

LookupStep ==
    \E n \in DOMAIN lookups :
        \/ LocalRead(n) \/ Offline(n) \/ AsksServer(n)
        \/ ServerFinds(n) \/ ServerMisses(n) \/ LookupFails(n) \/ BodyCut(n)
        \/ UpsertReads(n) \/ UpsertWrites(n)

VoidStep ==
    \E n \in DOMAIN voids :
        \/ MarkVoided(n) \/ MarkFails(n) \/ VoidPosted(n) \/ VoidAnswered(n)
        \/ VoidLeftQueued(n) \/ RollsBack(n) \/ MarkRefused(n)
        \/ DrainLists(n) \/ DrainSends(n) \/ DrainSynced(n) \/ DrainFailed(n) \/ DrainRefused(n) \/ Restamps(n)

FindNext ==
    \/ \E s \in Sales :
         \/ Ring(s) \/ SiblingRings(s) \/ SiblingVoids(s)
         \/ SalePosted(s) \/ SaleAnswered(s)
         \/ GoVoid(s)
    \/ CloseShift \/ ResetForm \/ GoFind \/ GoHistory \/ Void \/ VoidStep \/ TabLost
    \/ \E code \in {CodeOf[s] : s \in Sales} \union {WrongCode} : Submit(code)
    \/ LookupStep

-----------------------------------------------------------------------------
(* The code the form was last submitted with. *)
LastAsked == lookups[Cardinality(DOMAIN lookups)].code

(* The sale on the card is in the till's database, is of this outlet and     *)
(* bears the code asked for last, whatever sale of another outlet shares it. *)
(* Unless two lookups crossed: a search that was reset goes on, and its      *)
(* answer replaces the card of the search that follows.                      *)
FoundIsAsked ==
    (find.kind = "found" /\ ~crossed) =>
        find.sale \in Rows \cap Here /\ CodeOf[find.sale] = LastAsked

(* A void of this till that is queued or carried out shows on the till's     *)
(* row, from its second write on and until a refusal takes it back, whatever *)
(* is looked up and brought from the server afterwards.  It may not show     *)
(* between the two writes, nor after the tab died there.  Excluded as well:  *)
(* an attempt beside another of the same sale, whose refusal may take the    *)
(* one mark of both; and two lookups that crossed, or a sale rung while the  *)
(* server was asked for its code, when a lookup may bring the sale as it was *)
(* before the void.                                                          *)
VoidSticks ==
    ~crossed =>
        \A n \in DOMAIN voids :
            LET v == voids[n]
            IN v.alone /\ v.step \in {"posting", "over"} /\ v.status \in {"queued", "synced"} =>
                   held[v.sale].void # NoVoid

(* Every search ends on a card or on the dead end, or is reset, whatever the *)
(* network does to it, save that a body was cut off.                         *)
SearchesEnd == Searching ~> (~Searching \/ cut)
=============================================================================

---------------------------- MODULE SaleDelivery ----------------------------
(***************************************************************************)
(* What the sale outbox promises the rest of the till, whatever happens to *)
(* drains, posts, replays and the tab: a pending sale is either delivered, *)
(* and then the server has it, or put aside for the clerk's attention; a   *)
(* delivered sale stays so unless an end-of-day close found it missing.    *)
(***************************************************************************)
EXTENDS Naturals

CONSTANT Sales

VARIABLES
    state,     \* per sale: absent, pending, synced or needs_attention
    recorded,  \* the sales the server has
    listed     \* what the last end-of-day mismatch listed

vars == <<state, recorded, listed>>

In(states) == {s \in Sales : state[s] \in states}
Become(s, st) == state' = [state EXCEPT ![s] = st]

Take(s) ==
    /\ s \in In({"absent"})
    /\ Become(s, "pending")
    /\ UNCHANGED <<recorded, listed>>

(* The server records a sale as soon as one post of it gets through. *)
Record(s) ==
    /\ s \notin In({"absent"})
    /\ recorded' = recorded \union {s}
    /\ UNCHANGED <<state, listed>>

Deliver(s) ==
    /\ s \in recorded \intersect In({"pending", "needs_attention"})
    /\ Become(s, "synced")
    /\ UNCHANGED <<recorded, listed>>

PutAside(s) ==
    /\ s \in In({"pending"})
    /\ Become(s, "needs_attention")
    /\ UNCHANGED <<recorded, listed>>

Retry(s) ==
    /\ s \in In({"needs_attention"})
    /\ Become(s, "pending")
    /\ UNCHANGED <<recorded, listed>>

CloseDay ==
    /\ In({"pending"}) = {}
    /\ listed' = (Sales \ In({"absent"})) \ recorded
    /\ UNCHANGED <<state, recorded>>

Resubmit(s) ==
    /\ s \in listed
    /\ Become(s, "pending")
    /\ listed' = listed \ {s}
    /\ UNCHANGED recorded

Forget ==
    /\ listed' = {}
    /\ UNCHANGED <<state, recorded>>

Init ==
    /\ state = [s \in Sales |-> "absent"]
    /\ recorded = {}
    /\ listed = {}

Next ==
    \/ \E s \in Sales : Take(s) \/ Record(s) \/ Deliver(s) \/ PutAside(s)
                        \/ Retry(s) \/ Resubmit(s)
    \/ CloseDay
    \/ Forget

Spec == Init /\ [][Next]_vars
=============================================================================

---------------------------- MODULE CatalogStore ----------------------------
(***************************************************************************)
(* The item catalog of one merchant at the API, and the listing the tills  *)
(* pull.  A write takes its stamp from the clock of the API and is applied *)
(* later: with PgItemsRepository, the repository of production, the        *)
(* statement travels to the database and commits there.  The listing is    *)
(* ordered by stamp and id, and is read from a stamp or from the row a     *)
(* page ended with.                                                        *)
(*                                                                         *)
(* Abstractions.  An item is known by one number, for its id and its code. *)
(* Its fields are its data, one value for name, price, unit, recipe, tax   *)
(* and isActive, and its availability, on sale or sold out.  The clock     *)
(* counts milliseconds.                                                    *)
(***************************************************************************)
EXTENDS Naturals, FiniteSets

CONSTANTS
    NItems,      \* items are numbered in the order of their ids
    Data,        \* what an item's fields may hold
    Retired,     \* the fields of an item that was soft-deleted
    Stock,       \* the items there from the start, with their data
    PageSize,
    MaxClock,    \* bound on the clock
    MaxEdits     \* bound on the writes of the back office

Items == 1..NItems

ASSUME CatalogAssumption ==
    /\ NItems \in Nat /\ {PageSize, MaxClock} \subseteq Nat \ {0} /\ MaxEdits \in Nat
    /\ Retired \notin Data
    /\ DOMAIN Stock \subseteq Items /\ Stock \in [DOMAIN Stock -> Data]

VARIABLES
    items,    \* the rows of the catalog
    clock,
    writes,   \* writes that have their stamp and have not committed
    edits     \* how many writes the back office has made

storeVars == <<items, clock, writes, edits>>

Absent == [at |-> 0]
Contents == Data \union {Retired}
Row == [at : 1..MaxClock, data : Contents, sold : BOOLEAN]
Present(id) == items[id] # Absent

(* A patch names the fields it sets. *)
Patch == [data : Contents] \union [sold : BOOLEAN]
Merged(row, patch) ==
    [f \in DOMAIN row |-> IF f \in DOMAIN patch THEN patch[f] ELSE row[f]]

CatalogInit ==
    /\ items = [id \in Items |->
                  IF id \in DOMAIN Stock
                  THEN [at |-> 1, data |-> Stock[id], sold |-> FALSE] ELSE Absent]
    /\ clock = 1 /\ writes = {} /\ edits = 0

Tick ==
    /\ clock < MaxClock
    /\ clock' = clock + 1
    /\ UNCHANGED <<items, writes, edits>>

-----------------------------------------------------------------------------
(* Writes: the patch of each row they name, applied in one transaction. *)

Kinds == {"create", "update", "toggle", "import"}
Write(kind, patches) == [kind |-> kind, at |-> clock, patches |-> patches]

(* The insert of a code that is taken is refused. *)
Created(id, w) ==
    IF Present(id) THEN items[id]
    ELSE [at |-> w.at, data |-> w.patches[id].data, sold |-> FALSE]

Updated(id, w) ==
    IF Present(id) THEN [Merged(items[id], w.patches[id]) EXCEPT !.at = w.at]
    ELSE Absent

(* A row that already holds what the file says keeps its stamp. *)
Imported(id, w) ==
    IF Present(id) /\ items[id].data # w.patches[id].data
    THEN Updated(id, w) ELSE Created(id, w)

Result(id, w) ==
    IF id \notin DOMAIN w.patches THEN items[id]
    ELSE CASE w.kind = "create" -> Created(id, w)
           [] w.kind \in {"update", "toggle"} -> Updated(id, w)
           [] w.kind = "import" -> Imported(id, w)

Commit(w) ==
    /\ items' = [id \in Items |-> Result(id, w)]
    /\ writes' = writes \ {w}
    /\ UNCHANGED <<clock, edits>>

(* A missing unit or recipe, a code taken meanwhile: the transaction is      *)
(* rolled back.                                                              *)
RollBack(w) ==
    /\ writes' = writes \ {w}
    /\ UNCHANGED <<items, clock, edits>>

(* The back office: create, update, soft delete, import of a file. *)
OfficeEdits ==
    /\ edits < MaxEdits
    /\ edits' = edits + 1
    /\ \/ \E id \in Items, data \in Data :
             writes' = writes \union {Write("create", [x \in {id} |-> [data |-> data]])}
       \/ \E id \in Items, patch \in Patch :
             writes' = writes \union {Write("update", [x \in {id} |-> patch])}
       \/ \E file \in [Items -> [data : Data]] :
             writes' = writes \union {Write("import", file)}
    /\ UNCHANGED <<items, clock>>

-----------------------------------------------------------------------------
(* The listing.  A position is a stamp and an id; what lies beyond it is     *)
(* what a page read from there may hold.                                     *)

AfterStamp(stamp) == [at |-> stamp, id |-> NItems]
PositionOf(id) == [at |-> items[id].at, id |-> id]
Beyond(p, q) == p.at > q.at \/ (p.at = q.at /\ p.id > q.id)
Ahead(p) == {id \in Items : Present(id) /\ Beyond(PositionOf(id), p)}

(* The rows of a page, the first of those ahead. *)
PageOf(p) ==
    {id \in Ahead(p) :
        Cardinality({x \in Ahead(p) : Beyond(PositionOf(id), PositionOf(x))}) < PageSize}

LastOf(page, p) ==
    IF page = {} THEN p
    ELSE PositionOf(CHOOSE id \in page :
                      \A x \in page : ~Beyond(PositionOf(x), PositionOf(id)))

ListItems(p) ==
    [rows |-> [id \in PageOf(p) |-> [data |-> items[id].data, sold |-> items[id].sold]],
     last |-> LastOf(PageOf(p), p),
     more |-> PageOf(p) # Ahead(p)]

-----------------------------------------------------------------------------
CatalogTypeOK ==
    /\ items \in [Items -> {Absent} \union Row]
    /\ clock \in 1..MaxClock
    /\ \A w \in writes : w.kind \in Kinds /\ w.at \in 1..clock
    /\ \A id \in Items : items[id].at <= clock
    /\ edits \in 0..MaxEdits
=============================================================================

--------------------------- MODULE TillMirrorProofs ---------------------------
(***************************************************************************)
(* Theorems about TillMirror, for any number of items, any page size and   *)
(* any bounds on edits, toggles and faults.                                *)
(***************************************************************************)
EXTENDS TillMirror, FindSale, Sums

-----------------------------------------------------------------------------
(* Type correctness.  The writes under way name items and fields, and the    *)
(* walk of the pull is at a position between the cursor and the clock.       *)

WritesInv ==
    \A w \in writes :
        /\ w.kind \in Kinds /\ w.at \in 1..clock
        /\ DOMAIN w.patches \subseteq Items
        /\ \A id \in DOMAIN w.patches :
              /\ w.kind \in {"create", "import"} => w.patches[id] \in [data : Data]
              /\ w.kind = "update" => w.patches[id] \in Patch
              /\ w.kind = "toggle" => w.patches[id] \in [sold : BOOLEAN]

Placed(p) == p.at \in 0..clock /\ p.id \in 0..NItems

WalkInv ==
    walk # None =>
        /\ walk.step \in {"ask", "page"}
        /\ Placed(walk.from) /\ ~Beyond(AfterStamp(cursor), walk.from)
        /\ walk.step = "page" =>
              /\ DOMAIN walk.page.rows \subseteq Items
              /\ \A id \in DOMAIN walk.page.rows : walk.page.rows[id] \in LocalRow
              /\ walk.page.more \in BOOLEAN
              /\ Placed(walk.page.last) /\ ~Beyond(walk.from, walk.page.last)

TapInv ==
    tap # None =>
        /\ tap.stage \in {"read", "put"} /\ tap.item \in Items /\ tap.sold \in BOOLEAN
        /\ tap.row \in LocalRow

PostInv ==
    post # None =>
        post \in [item : Items, sold : BOOLEAN, at : Nat,
                  state : {"link", "taken", "done", "failed"}]

MirrorType == TypeOK /\ WritesInv /\ WalkInv /\ TapInv /\ PostInv

LEMMA NoneIsNone ==
  /\ \A pos : Waits(pos) # None
  /\ \A pos, page : Holds(pos, page) # None
  /\ \A s, w, m, n : [item |-> s, sold |-> w, state |-> m, at |-> n] # None
  /\ \A s, i, v, row : [stage |-> s, item |-> i, sold |-> v, row |-> row] # None
  /\ None \notin OutboxRow /\ None \notin LocalRow /\ None \notin [sold : BOOLEAN]
  BY DEF None, Waits, Holds, OutboxRow, LocalRow

LEMMA AbsentIsNoRow == Absent \notin Row /\ \A row \in Row : row # Absent
  BY DEF Absent, Row

(* What a committed write leaves in a row of the catalog. *)
LEMMA ResultType ==
  ASSUME CatalogTypeOK, WritesInv, NEW w \in writes, NEW id \in Items
  PROVE  /\ Result(id, w) \in {Absent} \union Row
         /\ Result(id, w).at <= clock
         /\ Result(id, w) # items[id] =>
               Result(id, w) # Absent /\ Result(id, w).at = w.at /\ id \in DOMAIN w.patches
  <1>1. /\ items[id] \in {Absent} \union Row /\ items[id].at <= clock
        /\ clock \in 1..MaxClock /\ w.at \in 1..clock /\ w.kind \in Kinds
    BY DEF CatalogTypeOK, WritesInv
  <1>2. w.at \in 1..MaxClock /\ w.at <= clock
    BY <1>1, CatalogAssumption
  <1>3. CASE id \notin DOMAIN w.patches
    BY <1>1, <1>3 DEF Result
  <1>4. CASE id \in DOMAIN w.patches
    <2>1. /\ w.kind \in {"create", "import"} => w.patches[id] \in [data : Data]
          /\ w.kind \in {"update", "toggle"} => w.patches[id] \in Patch
      BY <1>4 DEF WritesInv, Patch
    <2>2. w.kind \in {"create", "import"} => w.patches[id].data \in Contents
      BY <2>1 DEF Contents
    <2>3. w.kind \in {"create", "import"} =>
             [at |-> w.at, data |-> w.patches[id].data, sold |-> FALSE] \in Row
      BY <1>2, <2>2 DEF Row
    <2>4. Present(id) => [Merged(items[id], w.patches[id]) EXCEPT !.at = w.at] \in Row
      <3> SUFFICES ASSUME Present(id)
                   PROVE  [Merged(items[id], w.patches[id]) EXCEPT !.at = w.at] \in Row
        OBVIOUS
      <3>1. items[id] \in Row
        BY <1>1 DEF Present
      <3>2. w.patches[id] \in Patch
        <4>1. [data : Data] \subseteq Patch
          BY DEF Patch, Contents
        <4> QED
          BY <1>1, <2>1, <4>1 DEF Kinds
      <3>3. /\ "data" \in DOMAIN w.patches[id] => w.patches[id]["data"] \in Contents
            /\ "sold" \in DOMAIN w.patches[id] => w.patches[id]["sold"] \in BOOLEAN
            /\ "at" \notin DOMAIN w.patches[id]
        BY <3>2 DEF Patch
      <3>4. DOMAIN items[id] = {"at", "data", "sold"}
        BY <3>1 DEF Row
      <3>5. Merged(items[id], w.patches[id]) =
               [f \in {"at", "data", "sold"} |->
                   IF f \in DOMAIN w.patches[id] THEN w.patches[id][f] ELSE items[id][f]]
        BY <3>4 DEF Merged
      <3> QED
        BY <1>2, <3>1, <3>3, <3>5 DEF Row
    <2>5. Present(id) => [Merged(items[id], w.patches[id]) EXCEPT !.at = w.at].at = w.at
      <3>1. Present(id) => "at" \in DOMAIN Merged(items[id], w.patches[id])
        BY <1>1 DEF Present, Row, Merged
      <3> QED
        BY <3>1
    <2>6. \/ Result(id, w) = items[id]
          \/ /\ w.kind \in {"create", "import"}
             /\ Result(id, w) = [at |-> w.at, data |-> w.patches[id].data, sold |-> FALSE]
          \/ /\ Present(id)
             /\ Result(id, w) = [Merged(items[id], w.patches[id]) EXCEPT !.at = w.at]
      <3>1. CASE w.kind = "create"
        BY <1>4, <3>1 DEF Result, Created
      <3>2. CASE w.kind \in {"update", "toggle"}
        BY <1>4, <3>2 DEF Result, Updated, Present
      <3>3. CASE w.kind = "import"
        BY <1>4, <3>3 DEF Result, Imported, Created, Updated, Present
      <3> QED
        BY <1>1, <3>1, <3>2, <3>3 DEF Kinds
    <2>7. CASE Result(id, w) = items[id]
      BY <1>1, <2>7
    <2>8. CASE Result(id, w) # items[id]
      <3>1. Result(id, w) \in Row /\ Result(id, w).at = w.at
        <4>1. CASE /\ w.kind \in {"create", "import"}
                   /\ Result(id, w) = [at |-> w.at, data |-> w.patches[id].data, sold |-> FALSE]
          <5>1. Result(id, w) \in Row
            BY <2>3, <4>1, Zenon
          <5>2. Result(id, w).at = w.at
            BY <4>1
          <5> QED
            BY <5>1, <5>2
        <4>2. CASE /\ Present(id)
                   /\ Result(id, w) = [Merged(items[id], w.patches[id]) EXCEPT !.at = w.at]
          BY <2>4, <2>5, <4>2, Zenon
        <4> QED
          BY <2>6, <2>8, <4>1, <4>2, Zenon
      <3> QED
        BY <1>2, <1>4, <3>1, AbsentIsNoRow
    <2> QED
      BY <2>7, <2>8
  <1> QED
    BY <1>3, <1>4

-----------------------------------------------------------------------------
(* Positions and pages *)

(* Positions are ordered by stamp, then by id. *)
LEMMA BeyondOrders ==
  ASSUME NEW p, NEW q, NEW r,
         p.at \in Nat, p.id \in Nat, q.at \in Nat, q.id \in Nat, r.at \in Nat, r.id \in Nat
  PROVE  /\ ~Beyond(p, p)
         /\ Beyond(p, q) => ~Beyond(q, p)
         /\ p.id # q.id => Beyond(p, q) \/ Beyond(q, p)
         /\ Beyond(p, q) /\ ~Beyond(r, q) => Beyond(p, r)
         /\ ~Beyond(p, q) /\ ~Beyond(q, r) => ~Beyond(p, r)
  BY DEF Beyond

LEMMA Positions ==
  ASSUME CatalogTypeOK, NEW id \in Items
  PROVE  /\ PositionOf(id).at \in Nat /\ PositionOf(id).id \in Nat
         /\ PositionOf(id).id = id /\ Placed(PositionOf(id))
  <1>1. items[id].at \in Nat /\ items[id].at <= clock /\ clock \in Nat
    BY DEF CatalogTypeOK, Row, Absent
  <1>2. id \in 1..NItems /\ NItems \in Nat
    BY CatalogAssumption DEF Items
  <1> QED
    BY <1>1, <1>2 DEF PositionOf, Placed

LEMMA PlacedType ==
  ASSUME CatalogTypeOK, NEW p, Placed(p)
  PROVE  p.at \in Nat /\ p.id \in Nat
  BY CatalogAssumption DEF Placed, CatalogTypeOK

LEMMA ItemsFinite ==
  ASSUME NEW S \in SUBSET Items
  PROVE  IsFiniteSet(S) /\ Cardinality(S) \in Nat
  <1>1. IsFiniteSet(1..NItems)
    <2>1. 1 \in Int /\ NItems \in Int
      BY CatalogAssumption
    <2> QED
      BY <2>1, FS_Interval
  <1>2. IsFiniteSet(Items)
    BY <1>1 DEF Items
  <1> QED
    BY <1>2, FS_Subset, FS_CardinalityType

(* A page that is not empty has a last row. *)
LEMMA PageHasLast ==
  ASSUME CatalogTypeOK, NEW page \in SUBSET Items, page # {}
  PROVE  \E id \in page : \A x \in page : ~Beyond(PositionOf(x), PositionOf(id))
  <1> DEFINE after(y) == {z \in page : Beyond(PositionOf(z), PositionOf(y))}
             sizes == {Cardinality(after(y)) : y \in page}
  <1>1. \A y \in page : IsFiniteSet(after(y)) /\ Cardinality(after(y)) \in Nat
    BY ItemsFinite
  <1>2. PICK n \in sizes : \A m \in sizes : n <= m
    <2>1. sizes \subseteq Nat /\ sizes # {}
      BY <1>1
    <2> HIDE DEF sizes
    <2> QED
      BY <2>1, LeastNumber
  <1>3. PICK id \in page : n = Cardinality(after(id))
    OBVIOUS
  <1>4. ASSUME NEW x \in page, Beyond(PositionOf(x), PositionOf(id))
        PROVE  FALSE
    <2>1. x \in after(id) /\ x \notin after(x)
      BY <1>4, Positions, BeyondOrders
    <2>2. after(x) \subseteq after(id)
      <3> SUFFICES ASSUME NEW z \in page, Beyond(PositionOf(z), PositionOf(x))
                   PROVE  Beyond(PositionOf(z), PositionOf(id))
        OBVIOUS
      <3>1. ~Beyond(PositionOf(id), PositionOf(x))
        BY <1>4, Positions, BeyondOrders
      <3> QED
        BY <3>1, Positions, BeyondOrders
    <2> HIDE DEF after
    <2>3. Cardinality(after(x)) <= Cardinality(after(id)) /\ after(x) # after(id)
          /\ (Cardinality(after(id)) = Cardinality(after(x)) => after(id) = after(x))
      BY <1>1, <2>1, <2>2, FS_Subset
    <2>4. Cardinality(after(x)) \in Nat /\ Cardinality(after(id)) \in Nat
      BY <1>1
    <2>5. n <= Cardinality(after(x))
      BY <1>2
    <2> QED
      BY <1>3, <2>3, <2>4, <2>5
  <1> QED
    BY <1>4

(* The listing: the rows of a page lie ahead of the position it was asked from, *)
(* and every row ahead that the page does not hold lies beyond its last one.    *)
LEMMA PageListed ==
  ASSUME CatalogTypeOK, NEW p, Placed(p)
  PROVE  LET page == ListItems(p) IN
         /\ DOMAIN page.rows = PageOf(p) /\ PageOf(p) \subseteq Items
         /\ \A id \in PageOf(p) :
               /\ page.rows[id] \in LocalRow /\ page.rows[id].data = items[id].data
               /\ Beyond(PositionOf(id), p)
               /\ ~Beyond(PositionOf(id), page.last)
         /\ page.more \in BOOLEAN /\ (~page.more => PageOf(p) = Ahead(p))
         /\ Placed(page.last) /\ ~Beyond(p, page.last)
         /\ PageOf(p) = {} => page.last = p
         /\ \A id \in Ahead(p) \ PageOf(p) : Beyond(PositionOf(id), page.last)
  <1> DEFINE page == ListItems(p)
             before(y) == {x \in Ahead(p) : Beyond(PositionOf(y), PositionOf(x))}
  <1>1. /\ DOMAIN page.rows = PageOf(p) /\ page.last = LastOf(PageOf(p), p)
        /\ page.more = (PageOf(p) # Ahead(p))
        /\ \A id \in PageOf(p) : page.rows[id] = [data |-> items[id].data, sold |-> items[id].sold]
    BY DEF ListItems
  <1>2. /\ PageOf(p) \subseteq Ahead(p) /\ Ahead(p) \subseteq Items
        /\ \A id \in Ahead(p) : Beyond(PositionOf(id), p) /\ Present(id)
        /\ \A id \in Ahead(p) : id \in PageOf(p) <=> Cardinality(before(id)) < PageSize
    BY DEF PageOf, Ahead
  <1>3. ASSUME NEW id \in PageOf(p)
        PROVE  page.rows[id] \in LocalRow /\ page.rows[id].data = items[id].data
    <2>1. items[id] \in Row
      BY <1>2 DEF CatalogTypeOK, Present
    <2>2. items[id].data \in Contents /\ items[id].sold \in BOOLEAN
      BY <2>1 DEF Row
    <2> HIDE DEF page
    <2>3. page.rows[id] = [data |-> items[id].data, sold |-> items[id].sold]
      BY <1>1
    <2> QED
      BY <2>2, <2>3 DEF LocalRow
  <1>4. p.at \in Nat /\ p.id \in Nat
    BY PlacedType
  <1>5. CASE PageOf(p) = {}
    <2>1. page.last = p
      BY <1>1, <1>5 DEF LastOf
    <2>2. ~Beyond(p, p)
      BY <1>4, BeyondOrders
    <2>3. (page.more => Ahead(p) # {}) /\ PageOf(p) \subseteq Items
      BY <1>1, <1>2, <1>5
    <2>4. \A id \in Ahead(p) \ PageOf(p) : Beyond(PositionOf(id), page.last)
      BY <1>2, <2>1
    <2> HIDE DEF page
    <2> QED
      BY <1>1, <1>3, <1>5, <2>1, <2>2, <2>3, <2>4 DEF page
  <1>6. CASE PageOf(p) # {}
    <2>1. PICK z \in PageOf(p) :
             /\ page.last = PositionOf(z)
             /\ \A x \in PageOf(p) : ~Beyond(PositionOf(x), PositionOf(z))
      <3> DEFINE z == CHOOSE id \in PageOf(p) :
                        \A x \in PageOf(p) : ~Beyond(PositionOf(x), PositionOf(id))
      <3>1. \E id \in PageOf(p) : \A x \in PageOf(p) : ~Beyond(PositionOf(x), PositionOf(id))
        BY <1>2, <1>6, PageHasLast
      <3>2. z \in PageOf(p) /\ \A x \in PageOf(p) : ~Beyond(PositionOf(x), PositionOf(z))
        BY <3>1
      <3>3. page.last = PositionOf(z)
        BY <1>1, <1>6 DEF LastOf
      <3> QED
        BY <3>2, <3>3
    <2>2. Placed(page.last) /\ ~Beyond(p, page.last)
      BY <1>2, <1>4, <2>1, Positions, BeyondOrders
    <2>3. ASSUME NEW id \in Ahead(p) \ PageOf(p)
          PROVE  Beyond(PositionOf(id), PositionOf(z))
      <3> SUFFICES ASSUME ~Beyond(PositionOf(id), PositionOf(z)) PROVE FALSE
        OBVIOUS
      <3>1. id \in Items /\ z \in Items /\ id # z /\ z \in Ahead(p)
        BY <1>2
      <3>2. before(id) \subseteq before(z)
        <4> SUFFICES ASSUME NEW x \in Ahead(p), Beyond(PositionOf(id), PositionOf(x))
                     PROVE  Beyond(PositionOf(z), PositionOf(x))
          OBVIOUS
        <4>1. x \in Items
          BY <1>2
        <4>2. ~Beyond(PositionOf(x), PositionOf(id))
          BY <3>1, <4>1, Positions, BeyondOrders
        <4>3. Beyond(PositionOf(z), PositionOf(id))
          BY <3>1, Positions, BeyondOrders
        <4> QED
          BY <3>1, <4>1, <4>2, <4>3, Positions, BeyondOrders
      <3>3. before(z) \in SUBSET Items /\ before(id) \in SUBSET Items
        BY <1>2
      <3> HIDE DEF before
      <3>4. Cardinality(before(id)) <= Cardinality(before(z))
        BY <3>2, <3>3, ItemsFinite, FS_Subset
      <3>5. Cardinality(before(id)) \in Nat /\ Cardinality(before(z)) \in Nat /\ PageSize \in Nat
        BY <3>3, ItemsFinite, CatalogAssumption
      <3>6. Cardinality(before(z)) < PageSize /\ ~(Cardinality(before(id)) < PageSize)
        BY <1>2, <3>1
      <3> QED
        BY <3>4, <3>5, <3>6
    <2> HIDE DEF page
    <2> QED
      BY <1>1, <1>2, <1>3, <1>6, <2>1, <2>2, <2>3 DEF page
  <1> QED
    BY <1>5, <1>6

-----------------------------------------------------------------------------
(* Type correctness, one lemma for the catalog and one for the till. *)

LEMMA InitMirrorType == Init => MirrorType
  <1> SUFFICES ASSUME Init PROVE MirrorType
    OBVIOUS
  <1> USE CatalogAssumption
  <1>1. CatalogTypeOK
    <2>1. items \in [Items -> {Absent} \union Row] /\ \A id \in Items : items[id].at <= 1
      <3> SUFFICES ASSUME NEW id \in Items
                   PROVE  items[id] \in {Absent} \union Row /\ items[id].at <= 1
        BY DEF Init, CatalogInit
      <3>1. CASE id \in DOMAIN Stock
        <4>1. items[id] = [at |-> 1, data |-> Stock[id], sold |-> FALSE]
          BY <3>1 DEF Init, CatalogInit
        <4>2. Stock[id] \in Contents /\ 1 \in 1..MaxClock
          BY <3>1 DEF Contents
        <4> QED
          BY <4>1, <4>2 DEF Row
      <3>2. CASE id \notin DOMAIN Stock
        BY <3>2 DEF Init, CatalogInit, Absent
      <3> QED
        BY <3>1, <3>2
    <2> QED
      BY <2>1 DEF Init, CatalogInit, CatalogTypeOK
  <1> QED
    BY <1>1 DEF Init, CatalogInit, MirrorType, TypeOK, WritesInv, WalkInv, TapInv, PostInv, None

(* A write that joins those under way. *)
LEMMA WriteJoins ==
  ASSUME CatalogTypeOK, WritesInv, NEW kind \in Kinds, NEW patches,
         DOMAIN patches \subseteq Items,
         \A id \in DOMAIN patches :
            /\ kind \in {"create", "import"} => patches[id] \in [data : Data]
            /\ kind = "update" => patches[id] \in Patch
            /\ kind = "toggle" => patches[id] \in [sold : BOOLEAN],
         writes' = writes \union {Write(kind, patches)}, clock' = clock
  PROVE  WritesInv' /\ (\A w \in writes' : w.kind \in Kinds /\ w.at \in 1..clock')
  <1> DEFINE new == Write(kind, patches)
  <1>1. new.kind = kind /\ new.at = clock /\ new.patches = patches /\ clock \in 1..clock
    BY CatalogAssumption DEF Write, CatalogTypeOK
  <1> HIDE DEF new
  <1>2. \A w \in writes' : w \in writes \/ w = new
    BY DEF new
  <1> QED
    BY <1>1, <1>2 DEF WritesInv

(* The catalog keeps its type, and its clock does not go back. *)
LEMMA CatalogKept ==
  ASSUME MirrorType, [Next]_vars
  PROVE  CatalogTypeOK' /\ WritesInv' /\ clock <= clock'
  <1> USE DEF MirrorType, TypeOK
  <1>1. clock \in 1..MaxClock /\ clock \in Nat
    BY CatalogAssumption DEF CatalogTypeOK
  <1>2. CASE UNCHANGED storeVars
    BY <1>1, <1>2 DEF storeVars, CatalogTypeOK, WritesInv, Row, Contents
  <1>3. CASE PatchStamped
    <2> DEFINE patches == Toggle(post.item, post.sold)
    <2>1. post.item \in Items /\ post.sold \in BOOLEAN
      BY <1>3 DEF PatchStamped
    <2>2. DOMAIN patches \subseteq Items /\ \A id \in DOMAIN patches : patches[id] \in [sold : BOOLEAN]
      BY <2>1 DEF Toggle
    <2>3. "toggle" \in Kinds /\ writes' = writes \union {Write("toggle", patches)}
      BY <1>3 DEF PatchStamped, Kinds
    <2>4. UNCHANGED <<items, clock, edits>>
      BY <1>3 DEF PatchStamped
    <2> HIDE DEF patches
    <2>5. WritesInv' /\ (\A w \in writes' : w.kind \in Kinds /\ w.at \in 1..clock')
      BY <2>2, <2>3, <2>4, WriteJoins
    <2> QED
      BY <1>1, <2>4, <2>5 DEF CatalogTypeOK
  <1>4. ASSUME NEW w \in writes, Commit(w)
        PROVE  CatalogTypeOK' /\ WritesInv' /\ clock <= clock'
    <2>1. \A id \in Items : /\ items'[id] = Result(id, w)
                            /\ items'[id] \in {Absent} \union Row /\ items'[id].at <= clock
      BY <1>4, ResultType DEF Commit
    <2>2. items' \in [Items -> {Absent} \union Row]
      <3>1. items' = [id \in Items |-> items'[id]]
        BY <1>4 DEF Commit
      <3> QED
        BY <2>1, <3>1
    <2>3. writes' \subseteq writes /\ UNCHANGED <<clock, edits>>
      BY <1>4 DEF Commit
    <2> QED
      BY <1>1, <2>1, <2>2, <2>3 DEF CatalogTypeOK, WritesInv
  <1>5. ASSUME NEW w \in writes, RollBack(w)
        PROVE  CatalogTypeOK' /\ WritesInv' /\ clock <= clock'
    BY <1>1, <1>5 DEF RollBack, CatalogTypeOK, WritesInv
  <1>6. CASE Tick
    <2>1. clock' \in 1..MaxClock /\ clock < clock' /\ UNCHANGED <<items, writes, edits>>
      BY <1>1, <1>6, CatalogAssumption DEF Tick
    <2>2. 1..clock \subseteq 1..clock' /\ \A n \in Nat : n <= clock => n <= clock'
      BY <1>1, <2>1
    <2>3. \A id \in Items : items[id].at \in Nat
      BY DEF CatalogTypeOK, Row, Absent
    <2> QED
      BY <1>1, <2>1, <2>2, <2>3 DEF CatalogTypeOK, WritesInv
  <1>7. CASE OfficeEdits
    <2>1. edits' \in 0..MaxEdits /\ UNCHANGED <<items, clock>>
      BY <1>7, CatalogAssumption DEF OfficeEdits, CatalogTypeOK
    <2>2. WritesInv' /\ (\A w \in writes' : w.kind \in Kinds /\ w.at \in 1..clock')
      <3>1. ASSUME NEW id \in Items, NEW data \in Data,
                   writes' = writes \union {Write("create", [x \in {id} |-> [data |-> data]])}
            PROVE  WritesInv' /\ (\A w \in writes' : w.kind \in Kinds /\ w.at \in 1..clock')
        <4> DEFINE patches == [x \in {id} |-> [data |-> data]]
        <4>1. DOMAIN patches \subseteq Items /\ \A x \in DOMAIN patches : patches[x] \in [data : Data]
          OBVIOUS
        <4>2. "create" \in Kinds /\ writes' = writes \union {Write("create", patches)}
          BY <3>1 DEF Kinds
        <4> HIDE DEF patches
        <4> QED
          BY <2>1, <4>1, <4>2, WriteJoins
      <3>2. ASSUME NEW id \in Items, NEW patch \in Patch,
                   writes' = writes \union {Write("update", [x \in {id} |-> patch])}
            PROVE  WritesInv' /\ (\A w \in writes' : w.kind \in Kinds /\ w.at \in 1..clock')
        <4> DEFINE patches == [x \in {id} |-> patch]
        <4>1. DOMAIN patches \subseteq Items /\ \A x \in DOMAIN patches : patches[x] \in Patch
          OBVIOUS
        <4>2. "update" \in Kinds /\ writes' = writes \union {Write("update", patches)}
          BY <3>2 DEF Kinds
        <4> HIDE DEF patches
        <4> QED
          BY <2>1, <4>1, <4>2, WriteJoins
      <3>3. ASSUME NEW file \in [Items -> [data : Data]],
                   writes' = writes \union {Write("import", file)}
            PROVE  WritesInv' /\ (\A w \in writes' : w.kind \in Kinds /\ w.at \in 1..clock')
        <4>1. DOMAIN file \subseteq Items /\ \A x \in DOMAIN file : file[x] \in [data : Data]
          OBVIOUS
        <4>2. "import" \in Kinds
          BY DEF Kinds
        <4> QED
          BY <2>1, <3>3, <4>1, <4>2, WriteJoins
      <3> QED
        BY <1>7, <3>1, <3>2, <3>3 DEF OfficeEdits
    <2> QED
      BY <1>1, <2>1, <2>2 DEF CatalogTypeOK
  <1> QED
    <2> USE <1>2
    <2>1. CASE UNCHANGED vars
      BY <2>1 DEF vars
    <2>2. CASE StartCycle \/ FetchPage \/ PullFails \/ ApplyPage
      BY <2>2 DEF StartCycle, FetchPage, PullFails, ApplyPage
    <2>3. CASE (\E id \in Items, sold \in BOOLEAN : Tap(id, sold)) \/ TapPuts \/ TapEnqueues
      BY <2>3 DEF Tap, TapPuts, TapEnqueues
    <2>4. CASE ListDrainable \/ (\E r \in batch : Send(r)) \/ MarkSynced
      BY <2>4 DEF ListDrainable, Send, MarkSynced
    <2>5. CASE PatchLost \/ PatchFailed \/ MarkNeedsAttention \/ TabDies
      BY <2>5 DEF PatchLost, PatchFailed, MarkError, MarkNeedsAttention, TabDies
    <2>6. CASE \E w \in writes : CommitWrite(w) \/ WriteFails(w)
      BY <1>4, <1>5, <2>6 DEF CommitWrite, WriteFails
    <2>7. CASE Office
      BY <1>6, <1>7, <2>7 DEF Office
    <2> QED
      BY <1>3, <2>1, <2>2, <2>3, <2>4, <2>5, <2>6, <2>7 DEF Next

(* The copy and the toggle that is writing it. *)
LEMMA LocalKept ==
  ASSUME MirrorType, [Next]_vars
  PROVE  local' \in [Items -> LocalRow \union {None}] /\ TapInv'
  <1> USE DEF MirrorType, TypeOK
  <1>1. CASE UNCHANGED <<local, tap>>
    BY <1>1 DEF TapInv, LocalRow, Contents, None
  <1>2. CASE ApplyPage
    <2>1. \A id \in Items : local'[id] \in LocalRow \union {None}
      BY <1>2 DEF ApplyPage, WalkInv
    <2>2. local' = [id \in Items |-> local'[id]] /\ tap' = tap
      BY <1>2 DEF ApplyPage
    <2> QED
      BY <2>1, <2>2 DEF TapInv, LocalRow
  <1>3. ASSUME NEW id \in Items, NEW sold \in BOOLEAN, Tap(id, sold)
        PROVE  local' \in [Items -> LocalRow \union {None}] /\ TapInv'
    BY <1>3 DEF Tap, TapInv
  <1>4. CASE TapPuts
    <2>1. [tap.row EXCEPT !.sold = tap.sold] \in LocalRow /\ tap.item \in Items
      BY <1>4 DEF TapPuts, TapInv, LocalRow
    <2>2. tap' = [tap EXCEPT !.stage = "put"] /\ tap # None
      BY <1>4 DEF TapPuts
    <2>3. TapInv'
      BY <2>2 DEF TapInv
    <2> QED
      BY <1>4, <2>1, <2>3 DEF TapPuts
  <1>5. CASE TapEnqueues \/ TabDies
    BY <1>5 DEF TapEnqueues, TabDies, TapInv
  <1> QED
    <2> USE <1>1
    <2>1. CASE UNCHANGED vars
      BY <2>1 DEF vars, tillVars
    <2>2. CASE StartCycle \/ FetchPage \/ PullFails
      BY <2>2 DEF StartCycle, FetchPage, PullFails
    <2>3. CASE ListDrainable \/ (\E r \in batch : Send(r)) \/ MarkSynced \/ PatchStamped
      BY <2>3 DEF ListDrainable, Send, MarkSynced, PatchStamped
    <2>4. CASE PatchLost \/ PatchFailed \/ MarkNeedsAttention
      BY <2>4 DEF PatchLost, PatchFailed, MarkError, MarkNeedsAttention
    <2>5. CASE \E w \in writes : CommitWrite(w) \/ WriteFails(w)
      BY <2>5 DEF CommitWrite, WriteFails
    <2>6. CASE Office
      BY <2>6 DEF Office, tillVars
    <2> QED
      BY <1>2, <1>3, <1>4, <1>5, <2>1, <2>2, <2>3, <2>4, <2>5, <2>6 DEF Next

(* The pull: it moves ahead from the cursor, and the cursor never passes the clock. *)
LEMMA WalkKept ==
  ASSUME MirrorType, [Next]_vars
  PROVE  cursor' \in 0..clock' /\ WalkInv'
  <1> USE DEF MirrorType, TypeOK
  <1>1. clock \in Nat /\ clock' \in Nat /\ clock <= clock' /\ NItems \in Nat
    BY CatalogKept, CatalogAssumption DEF CatalogTypeOK
  <1>2. \A p : Placed(p) => Placed(p)' /\ p.at \in Nat /\ p.id \in Nat
    BY <1>1 DEF Placed
  <1>3. Placed(AfterStamp(cursor)) /\ ~Beyond(AfterStamp(cursor), AfterStamp(cursor))
    BY <1>1 DEF Placed, AfterStamp, Beyond
  <1>4. cursor \in Nat /\ cursor \in 0..clock'
    BY <1>1
  <1>5. CASE UNCHANGED <<cursor, walk>>
    BY <1>2, <1>4, <1>5 DEF WalkInv, Placed, Beyond, AfterStamp
  <1>6. CASE walk' = None /\ cursor' = cursor
    BY <1>4, <1>6 DEF WalkInv
  <1>7. CASE StartCycle
    <2>1. walk' = Waits(AfterStamp(cursor)) /\ cursor' = cursor /\ clock' = clock
      BY <1>7 DEF StartCycle, storeVars
    <2> QED
      BY <1>3, <1>4, <2>1, NoneIsNone DEF WalkInv, Waits, Placed, AfterStamp, Beyond
  <1>8. CASE FetchPage
    <2>1. /\ walk' = Holds(walk.from, ListItems(walk.from)) /\ cursor' = cursor /\ clock' = clock
          /\ Placed(walk.from) /\ ~Beyond(AfterStamp(cursor), walk.from)
      BY <1>8 DEF FetchPage, storeVars, WalkInv
    <2>2. PICK page : page = ListItems(walk.from)
      OBVIOUS
    <2>3. /\ DOMAIN page.rows \subseteq Items
          /\ \A id \in DOMAIN page.rows : page.rows[id] \in LocalRow
          /\ page.more \in BOOLEAN
          /\ Placed(page.last) /\ ~Beyond(walk.from, page.last)
      BY <2>1, <2>2, PageListed
    <2>4. PICK from : from = walk.from
      OBVIOUS
    <2>5. walk' = Holds(from, page) /\ Placed(from) /\ ~Beyond(AfterStamp(cursor), from)
      BY <2>1, <2>2, <2>4
    <2> QED
      BY <1>4, <2>1, <2>3, <2>4, <2>5 DEF WalkInv, Holds, Placed, AfterStamp, Beyond, LocalRow
  <1>9. CASE PullFails /\ walk' # None
    <2>1. /\ walk' = Waits(walk.from) /\ cursor' = cursor /\ clock' = clock
          /\ Placed(walk.from) /\ ~Beyond(AfterStamp(cursor), walk.from)
      BY <1>9 DEF PullFails, storeVars, WalkInv
    <2> QED
      BY <1>4, <2>1 DEF WalkInv, Waits, Placed, AfterStamp, Beyond
  <1>10. CASE ApplyPage
    <2>1. PICK from, page : from = walk.from /\ page = walk.page
      OBVIOUS
    <2>2. /\ Placed(from) /\ ~Beyond(AfterStamp(cursor), from) /\ page.more \in BOOLEAN
          /\ Placed(page.last) /\ ~Beyond(from, page.last)
      BY <1>10, <2>1 DEF ApplyPage, WalkInv
    <2>3. /\ cursor' = NextCursor(page) /\ clock' = clock
          /\ walk' = IF page.more THEN Waits(page.last) ELSE None
      BY <1>10, <2>1 DEF ApplyPage, storeVars
    <2>4. ~Beyond(AfterStamp(cursor), page.last)
      BY <1>2, <1>3, <2>2, BeyondOrders
    <2>5. CASE page.more
      BY <1>4, <2>2, <2>3, <2>4, <2>5 DEF NextCursor, WalkInv, Waits, Placed, AfterStamp, Beyond
    <2>6. CASE ~page.more
      <3>1. NextCursor(page) \in 0..clock'
        BY <1>4, <2>2, <2>3, <2>6 DEF NextCursor, Placed
      <3> QED
        BY <2>3, <2>6, <3>1 DEF WalkInv
    <2> QED
      BY <2>2, <2>5, <2>6
  <1> QED
    <2> USE <1>5, <1>6
    <2>1. CASE UNCHANGED vars
      BY <2>1 DEF vars, tillVars
    <2>2. CASE (\E id \in Items, sold \in BOOLEAN : Tap(id, sold)) \/ TapPuts \/ TapEnqueues
      BY <2>2 DEF Tap, TapPuts, TapEnqueues
    <2>3. CASE ListDrainable \/ (\E r \in batch : Send(r)) \/ MarkSynced \/ PatchStamped
      BY <2>3 DEF ListDrainable, Send, MarkSynced, PatchStamped
    <2>4. CASE PatchLost \/ PatchFailed \/ MarkNeedsAttention \/ TabDies
      BY <2>4 DEF PatchLost, PatchFailed, MarkError, MarkNeedsAttention, TabDies
    <2>5. CASE \E w \in writes : CommitWrite(w) \/ WriteFails(w)
      BY <2>5 DEF CommitWrite, WriteFails
    <2>6. CASE Office
      BY <2>6 DEF Office, tillVars
    <2>7. CASE PullFails
      BY <1>9, <2>7 DEF PullFails
    <2> QED
      BY <1>7, <1>8, <1>10, <2>1, <2>2, <2>3, <2>4, <2>5, <2>6, <2>7 DEF Next

(* The outbox, its drain and the bookkeeping of the toggles. *)
LEMMA DrainKept ==
  ASSUME MirrorType, [Next]_vars
  PROVE  /\ outbox' \in [Items -> OutboxRow \union {None}]
         /\ batch' \subseteq [item : Items, sold : BOOLEAN]
         /\ intent' \in [Items -> [sold : BOOLEAN] \union {None}]
         /\ raced' \subseteq Items /\ behind' \subseteq Items
  <1> USE DEF MirrorType, TypeOK
  <1>1. ASSUME NEW id \in Items, NEW status \in {"sending", "error", "needs_attention"},
               SetStatus(id, status)
        PROVE  outbox' \in [Items -> OutboxRow \union {None}]
    BY <1>1 DEF SetStatus, OutboxRow, None
  <1>2. CASE UNCHANGED <<outbox, batch, intent, raced, behind>>
    BY <1>2 DEF OutboxRow, None
  <1>3. CASE StartCycle \/ PullFails \/ ApplyPage \/ FetchPage
    BY <1>3 DEF StartCycle, PullFails, ApplyPage, FetchPage, OutboxRow, None
  <1>4. CASE TapPuts \/ TabDies
    BY <1>4 DEF TapPuts, TabDies, TapInv, OutboxRow, None
  <1>5. CASE TapEnqueues
    BY <1>5 DEF TapEnqueues, TapInv, OutboxRow, None
  <1>6. CASE ListDrainable
    <2>1. \A id \in Items : outbox'[id] \in OutboxRow \union {None}
      BY <1>6 DEF ListDrainable, Reset, OutboxRow
    <2>2. outbox' = [id \in Items |-> outbox'[id]]
      BY <1>6 DEF ListDrainable
    <2>3. \A id \in Items : Drainable(outbox'[id]) => outbox'[id].sold \in BOOLEAN
      BY <2>1 DEF Drainable, OutboxRow
    <2>4. batch' = {[item |-> id, sold |-> outbox'[id].sold] : id \in {x \in Items : Drainable(outbox'[x])}}
      BY <1>6 DEF ListDrainable
    <2>5. batch' \subseteq [item : Items, sold : BOOLEAN]
      BY <2>3, <2>4
    <2>6. outbox' \in [Items -> OutboxRow \union {None}]
      BY <2>1, <2>2
    <2> QED
      BY <1>6, <2>5, <2>6 DEF ListDrainable, None
  <1>7. ASSUME NEW r \in batch, Send(r)
        PROVE  /\ outbox' \in [Items -> OutboxRow \union {None}]
               /\ batch' \subseteq [item : Items, sold : BOOLEAN]
               /\ UNCHANGED <<intent, raced, behind>>
    BY <1>1, <1>7 DEF Send
  <1>8. CASE MarkSynced
    BY <1>8 DEF MarkSynced, OutboxRow, None
  <1>9. ASSUME post # None, MarkError
        PROVE  /\ outbox' \in [Items -> OutboxRow \union {None}]
               /\ batch' \subseteq [item : Items, sold : BOOLEAN]
               /\ UNCHANGED <<intent, raced, behind>>
    BY <1>1, <1>9 DEF MarkError
  <1>10. CASE MarkNeedsAttention
    BY <1>1, <1>10 DEF MarkNeedsAttention, None
  <1>11. ASSUME NEW w \in writes, CommitWrite(w)
         PROVE  /\ intent' \in [Items -> [sold : BOOLEAN] \union {None}]
                /\ behind' \subseteq Items /\ UNCHANGED <<outbox, batch, raced>>
    <2>1. DOMAIN w.patches \subseteq Items
      BY DEF WritesInv
    <2> QED
      BY <1>11, <2>1 DEF CommitWrite, Overtaken
  <1> QED
    <2>1. CASE UNCHANGED vars
      BY <1>2, <2>1 DEF vars, tillVars
    <2>2. CASE \E id \in Items, sold \in BOOLEAN : Tap(id, sold)
      BY <1>2, <2>2 DEF Tap
    <2>3. CASE PatchStamped
      BY <1>2, <2>3 DEF PatchStamped
    <2>4. CASE \E r \in batch : Send(r)
      BY <1>7, <2>4 DEF None
    <2>5. CASE PatchLost \/ PatchFailed
      BY <1>9, <2>5 DEF PatchLost, PatchFailed, None
    <2>6. CASE \E w \in writes : CommitWrite(w)
      BY <1>11, <2>6 DEF OutboxRow, None
    <2>7. CASE \E w \in writes : WriteFails(w)
      BY <1>2, <2>7 DEF WriteFails
    <2>8. CASE Office
      BY <1>2, <2>8 DEF Office, tillVars
    <2> QED
      BY <1>3, <1>4, <1>5, <1>6, <1>8, <1>10, <2>1, <2>2, <2>3, <2>4, <2>5, <2>6, <2>7, <2>8
         DEF Next

(* The PATCH under way. *)
LEMMA PostKept ==
  ASSUME MirrorType, [Next]_vars
  PROVE  /\ PostInv'
         /\ \A w \in writes : CommitWrite(w) \/ WriteFails(w) =>
               /\ walk' = walk /\ cycle' = cycle
               /\ post' # None =>
                     post # None /\ post'.item = post.item /\ post'.sold = post.sold
  <1> USE DEF MirrorType, TypeOK
  <1>1. UNCHANGED post => PostInv'
    BY DEF PostInv, None
  <1>2. post' = None => PostInv'
    BY DEF PostInv
  <1>3. ASSUME NEW r \in batch, Send(r)
        PROVE  PostInv'
    BY <1>3 DEF Send, PostInv
  <1>4. ASSUME PatchStamped PROVE PostInv'
    <2>1. clock \in Nat
      BY CatalogAssumption DEF CatalogTypeOK
    <2>2. post' = [post EXCEPT !.state = "taken", !.at = clock] /\ post # None
      BY <1>4 DEF PatchStamped
    <2> QED
      BY <2>1, <2>2 DEF PostInv
  <1>5. ASSUME NEW w \in writes, CommitWrite(w) \/ WriteFails(w)
        PROVE  /\ PostInv' /\ walk' = walk /\ cycle' = cycle
               /\ post' # None =>
                     post # None /\ post'.item = post.item /\ post'.sold = post.sold
    <2>1. walk' = walk /\ cycle' = cycle
      BY <1>5 DEF CommitWrite, WriteFails
    <2>2. \/ post' = post
          \/ post # None /\ \E state \in {"done", "failed"} : post' = [post EXCEPT !.state = state]
      BY <1>5 DEF CommitWrite, WriteFails, Answers
    <2>3. CASE post' = post
      BY <1>1, <2>1, <2>3
    <2>4. ASSUME post # None, NEW state \in {"done", "failed"}, post' = [post EXCEPT !.state = state]
          PROVE  PostInv' /\ post'.item = post.item /\ post'.sold = post.sold
      BY <2>4 DEF PostInv
    <2> QED
      BY <2>1, <2>2, <2>3, <2>4
  <1>6. PostInv'
    <2> USE <1>1, <1>2
    <2>1. CASE UNCHANGED vars
      BY <2>1 DEF vars, tillVars
    <2>2. CASE StartCycle \/ FetchPage \/ PullFails \/ ApplyPage
      BY <2>2 DEF StartCycle, FetchPage, PullFails, ApplyPage
    <2>3. CASE (\E id \in Items, sold \in BOOLEAN : Tap(id, sold)) \/ TapPuts \/ TapEnqueues
      BY <2>3 DEF Tap, TapPuts, TapEnqueues
    <2>4. CASE ListDrainable \/ MarkSynced \/ MarkNeedsAttention \/ TabDies
      BY <2>4 DEF ListDrainable, MarkSynced, MarkNeedsAttention, TabDies
    <2>5. CASE PatchLost \/ PatchFailed
      BY <2>5 DEF PatchLost, PatchFailed, MarkError
    <2>6. CASE Office
      BY <2>6 DEF Office, tillVars
    <2> QED
      BY <1>3, <1>4, <1>5, <2>1, <2>2, <2>3, <2>4, <2>5, <2>6 DEF Next
  <1> QED
    BY <1>5, <1>6

(* One thing at a time: the runner pulls while it walks and drains while it sends. *)
LEMMA CycleKept ==
  ASSUME MirrorType, [Next]_vars
  PROVE  /\ cycle' \in {"rest", "pull", "push", "drain"}
         /\ walk' # None <=> cycle' = "pull"
         /\ post' # None => cycle' = "drain" /\ post'.item \in Items /\ post'.sold \in BOOLEAN
  <1> USE DEF MirrorType, TypeOK
  <1>1. CASE UNCHANGED <<walk, post, cycle>>
    BY <1>1 DEF None
  <1>2. CASE StartCycle \/ FetchPage
    BY <1>2, NoneIsNone DEF StartCycle, FetchPage, None
  <1>3. CASE PullFails \/ ApplyPage
    BY <1>3, NoneIsNone DEF PullFails, ApplyPage, None
  <1>4. CASE ListDrainable \/ TabDies
    BY <1>4 DEF ListDrainable, TabDies, None
  <1>5. ASSUME NEW r \in batch, Send(r)
        PROVE  /\ cycle' = "drain" /\ cycle = "drain" /\ walk' = walk
               /\ post'.item \in Items /\ post'.sold \in BOOLEAN
    BY <1>5 DEF Send
  <1>6. CASE PatchStamped
    BY <1>6 DEF PatchStamped, PostInv, None
  <1>7. CASE MarkSynced \/ MarkNeedsAttention
    BY <1>7 DEF MarkSynced, MarkNeedsAttention, NextRow, None
  <1>8. CASE PatchLost \/ PatchFailed
    BY <1>8 DEF PatchLost, PatchFailed, MarkError, None
  <1> QED
    <2>1. CASE UNCHANGED vars
      BY <1>1, <2>1 DEF vars, tillVars
    <2>2. CASE (\E id \in Items, sold \in BOOLEAN : Tap(id, sold)) \/ TapPuts \/ TapEnqueues
      BY <1>1, <2>2 DEF Tap, TapPuts, TapEnqueues
    <2>3. CASE \E r \in batch : Send(r)
      BY <1>5, <2>3 DEF None
    <2>4. CASE \E w \in writes : CommitWrite(w) \/ WriteFails(w)
      BY <2>4, PostKept DEF None
    <2>5. CASE Office
      BY <1>1, <2>5 DEF Office, tillVars
    <2> QED
      BY <1>2, <1>3, <1>4, <1>6, <1>7, <1>8, <2>1, <2>2, <2>3, <2>4, <2>5 DEF Next

LEMMA MirrorTypeKept == MirrorType /\ [Next]_vars => MirrorType'
  <1> SUFFICES ASSUME MirrorType, [Next]_vars PROVE MirrorType'
    OBVIOUS
  <1> QED
    BY CatalogKept, LocalKept, WalkKept, DrainKept, CycleKept, PostKept
       DEF MirrorType, TypeOK, LocalRow, OutboxRow, Contents, None

(* Type correctness of the mirror, and where its walk is: the catalog holds  *)
(* rows, the cursor and the page asked for lie within the stamps given out,  *)
(* and the runner never pulls and sends at once (runner.ts, pull.ts).        *)
THEOREM TypesHold == Spec => [](TypeOK /\ WritesInv /\ WalkInv /\ TapInv /\ PostInv)
  <1>1. Init => MirrorType
    BY InitMirrorType
  <1>2. MirrorType /\ [Next]_vars => MirrorType'
    BY MirrorTypeKept
  <1> QED
    BY <1>1, <1>2, PTL DEF Spec, MirrorType

-----------------------------------------------------------------------------
(* The cashier's last toggle.  What the drain has listed and what it is      *)
(* sending carry the value the cashier last asked for, but for items toggled *)
(* meanwhile; so the answer that deletes the row answers that very toggle.   *)

Asked(id) == id \notin raced /\ intent[id] # None

IntentInv ==
    /\ IntentKept
    /\ \A r \in batch : Asked(r.item) => r.sold = intent[r.item].sold
    /\ post # None /\ Asked(post.item) =>
          post.state # "done" /\ post.sold = intent[post.item].sold

LEMMA InitIntentInv == Init => IntentInv
  BY DEF Init, IntentInv, IntentKept, Asked

(* A change of status keeps what a row asks for. *)
LEMMA StatusKeepsRow ==
  ASSUME MirrorType, NEW item \in Items, NEW status, SetStatus(item, status), NEW id \in Items
  PROVE  /\ outbox'[id] = None <=> outbox[id] = None
         /\ outbox[id] # None => outbox'[id].sold = outbox[id].sold
  <1>1. outbox[id] \in OutboxRow \union {None} /\ outbox \in [Items -> OutboxRow \union {None}]
    BY DEF MirrorType, TypeOK
  <1>2. CASE id # item \/ outbox[id] = None
    BY <1>1, <1>2 DEF SetStatus
  <1>3. CASE id = item /\ outbox[id] # None
    <2>1. outbox'[id] = [outbox[id] EXCEPT !.status = status] /\ outbox[id] \in OutboxRow
      BY <1>1, <1>3 DEF SetStatus
    <2>2. outbox'[id].sold = outbox[id].sold /\ "sold" \in DOMAIN outbox'[id]
      BY <2>1 DEF OutboxRow
    <2>3. "sold" \notin DOMAIN None
      BY DEF None
    <2> QED
      BY <1>3, <2>2, <2>3
  <1> QED
    BY <1>2, <1>3

LEMMA ResetKeepsRow ==
  ASSUME NEW row \in OutboxRow
  PROVE  Reset(row) \in OutboxRow /\ Reset(row).sold = row.sold /\ Reset(row) # None
  <1>1. CASE row.status = "sending"
    <2>1. Reset(row) = [row EXCEPT !.status = "queued"]
      BY <1>1, NoneIsNone DEF Reset
    <2>2. Reset(row) \in OutboxRow /\ Reset(row).sold = row.sold
      BY <2>1 DEF OutboxRow
    <2> QED
      BY <2>2, NoneIsNone
  <1>2. CASE row.status # "sending"
    BY <1>2, NoneIsNone DEF Reset
  <1> QED
    BY <1>1, <1>2

LEMMA IntentInvKept == MirrorType /\ IntentInv /\ [Next]_vars => IntentInv'
  <1> SUFFICES ASSUME MirrorType, IntentInv, [Next]_vars PROVE IntentInv'
    OBVIOUS
  <1> USE DEF MirrorType
  <1>1. UNCHANGED <<outbox, batch, post, intent, raced>> => IntentInv'
    BY DEF IntentInv, IntentKept, Kept, Asked
  <1>2. ASSUME TapEnqueues PROVE IntentInv'
    <2>1. PICK item, sold : item = tap.item /\ sold = tap.sold
      OBVIOUS
    <2>2. /\ outbox' = [outbox EXCEPT ![item] = [sold |-> sold, status |-> "queued"]]
          /\ intent' = [intent EXCEPT ![item] = [sold |-> sold]]
          /\ raced' = IF BeingSent(item) THEN raced \union {item} ELSE raced
          /\ batch' = batch /\ post' = post /\ item \in Items
      BY <1>2, <2>1 DEF TapEnqueues, TapInv
    <2>3. ASSUME NEW id \in Items \ raced', intent'[id] # None
          PROVE  outbox'[id] # None /\ outbox'[id].sold = intent'[id].sold
      <3>1. CASE id = item
        <4>1. outbox'[id] = [sold |-> sold, status |-> "queued"] /\ intent'[id] = [sold |-> sold]
          BY <2>2, <3>1 DEF TypeOK
        <4> QED
          BY <4>1 DEF None
      <3>2. CASE id # item
        BY <2>2, <2>3, <3>2 DEF TypeOK, IntentInv, IntentKept, Kept
      <3> QED
        BY <3>1, <3>2
    <2>4. ASSUME NEW r \in batch, r.item \notin raced', intent'[r.item] # None
          PROVE  r.sold = intent'[r.item].sold
      <3>1. r.item # item
        BY <2>2, <2>4 DEF BeingSent
      <3> QED
        BY <2>2, <2>4, <3>1 DEF TypeOK, IntentInv, Asked
    <2>5. ASSUME post # None, post.item \notin raced', intent'[post.item] # None
          PROVE  post.state # "done" /\ post.sold = intent'[post.item].sold
      <3>1. post.item # item
        BY <2>2, <2>5 DEF BeingSent
      <3> QED
        BY <2>2, <2>5, <3>1 DEF TypeOK, IntentInv, Asked
    <2> QED
      BY <2>2, <2>3, <2>4, <2>5 DEF IntentInv, IntentKept, Kept, Asked
  <1>3. ASSUME ListDrainable PROVE IntentInv'
    <2>1. /\ post = None /\ post' = post /\ intent' = intent /\ raced' = raced
          /\ outbox' = [id \in Items |-> Reset(outbox[id])]
          /\ batch' = {[item |-> id, sold |-> outbox'[id].sold] :
                         id \in {x \in Items : Drainable(outbox'[x])}}
      BY <1>3 DEF ListDrainable
    <2>2. ASSUME NEW id \in Items, Asked(id)
          PROVE  outbox'[id] # None /\ outbox'[id].sold = intent[id].sold
      <3>1. outbox[id] # None /\ outbox[id].sold = intent[id].sold
        BY <2>2 DEF Asked, IntentInv, IntentKept, Kept
      <3>2. outbox[id] \in OutboxRow
        BY <3>1 DEF TypeOK
      <3>3. outbox'[id] = Reset(outbox[id])
        BY <2>1
      <3> QED
        BY <3>1, <3>2, <3>3, ResetKeepsRow
    <2>3. ASSUME NEW r \in batch', Asked(r.item)
          PROVE  r.sold = intent[r.item].sold
      <3>1. PICK id \in Items : r = [item |-> id, sold |-> outbox'[id].sold]
        BY <2>1
      <3>2. r.item = id /\ r.sold = outbox'[id].sold
        BY <3>1
      <3> QED
        BY <2>2, <2>3, <3>2
    <2> QED
      BY <2>1, <2>2, <2>3 DEF IntentInv, IntentKept, Kept, Asked
  <1>4. ASSUME NEW r \in batch, Send(r) PROVE IntentInv'
    <2>1. /\ SetStatus(r.item, "sending") /\ batch' \subseteq batch
          /\ post' = [item |-> r.item, sold |-> r.sold, state |-> "link", at |-> 0]
          /\ intent' = intent /\ raced' = raced /\ r.item \in Items
      BY <1>4 DEF Send, TypeOK
    <2>2. ASSUME NEW id \in Items, Asked(id)
          PROVE  outbox'[id] # None /\ outbox'[id].sold = intent[id].sold
      BY <2>1, <2>2, StatusKeepsRow DEF Asked, IntentInv, IntentKept, Kept
    <2>3. Asked(r.item) => r.sold = intent[r.item].sold
      BY DEF IntentInv
    <2>4. post'.item = r.item /\ post'.sold = r.sold /\ post'.state = "link"
      BY <2>1
    <2> QED
      BY <2>1, <2>2, <2>3, <2>4 DEF IntentInv, IntentKept, Kept, Asked
  <1>5. ASSUME PatchStamped PROVE IntentInv'
    <2>1. /\ UNCHANGED <<outbox, batch, intent, raced>> /\ post # None
          /\ post' = [post EXCEPT !.state = "taken", !.at = clock]
      BY <1>5 DEF PatchStamped
    <2>2. post'.item = post.item /\ post'.sold = post.sold /\ post'.state = "taken"
      BY <2>1 DEF PostInv
    <2> QED
      BY <2>1, <2>2 DEF IntentInv, IntentKept, Kept, Asked
  <1>6. ASSUME MarkSynced PROVE IntentInv'
    <2>1. /\ outbox' = [outbox EXCEPT ![post.item] = None] /\ post' = None /\ post # None
          /\ post.state = "done" /\ UNCHANGED <<batch, intent, raced>>
      BY <1>6 DEF MarkSynced
    <2>2. ~Asked(post.item)
      BY <2>1 DEF IntentInv
    <2>3. ASSUME NEW id \in Items, Asked(id)
          PROVE  outbox'[id] # None /\ outbox'[id].sold = intent[id].sold
      BY <2>1, <2>2, <2>3 DEF TypeOK, Asked, IntentInv, IntentKept, Kept
    <2> QED
      BY <2>1, <2>3 DEF IntentInv, IntentKept, Kept, Asked
  <1>7. ASSUME PatchLost \/ PatchFailed \/ MarkNeedsAttention PROVE IntentInv'
    <2>1. PICK status : SetStatus(post.item, status)
      BY <1>7 DEF PatchLost, PatchFailed, MarkError, MarkNeedsAttention
    <2>2. post # None /\ post' = None /\ batch' \subseteq batch /\ UNCHANGED <<intent, raced>>
      BY <1>7 DEF PatchLost, PatchFailed, MarkError, MarkNeedsAttention
    <2>3. post.item \in Items
      BY <2>2 DEF TypeOK
    <2>4. ASSUME NEW id \in Items, Asked(id)
          PROVE  outbox'[id] # None /\ outbox'[id].sold = intent[id].sold
      BY <2>1, <2>3, <2>4, StatusKeepsRow DEF Asked, IntentInv, IntentKept, Kept
    <2> QED
      BY <2>2, <2>4 DEF IntentInv, IntentKept, Kept, Asked
  <1>8. ASSUME TabDies PROVE IntentInv'
    BY <1>8 DEF TabDies, IntentInv, IntentKept, Kept, Asked
  <1>9. ASSUME NEW w \in writes, CommitWrite(w) PROVE IntentInv'
    <2>1. /\ UNCHANGED <<outbox, batch, raced>>
          /\ post' = IF Answers(w) THEN [post EXCEPT !.state = "done"] ELSE post
      BY <1>9 DEF CommitWrite
    <2>2. ASSUME NEW id \in Items, intent'[id] # None
          PROVE  /\ intent'[id] = intent[id] /\ intent[id] # None
                 /\ w.kind = "toggle" /\ id \in DOMAIN w.patches
                       => intent[id] # [sold |-> w.patches[id].sold]
      BY <1>9, <2>2 DEF CommitWrite
    <2>3. ASSUME post' # None, post'.item \notin raced', intent'[post'.item] # None
          PROVE  post'.state # "done" /\ post'.sold = intent'[post'.item].sold
      <3>1. post # None /\ post'.item = post.item /\ post'.sold = post.sold /\ post.item \in Items
        BY <1>9, <2>3, PostKept DEF TypeOK
      <3>2. intent'[post.item] = intent[post.item] /\ Asked(post.item)
        <4>1. PICK item \in Items : item = post.item
          BY <3>1
        <4>2. intent'[item] # None /\ item \notin raced'
          BY <2>3, <3>1, <4>1
        <4>3. intent'[item] = intent[item] /\ intent[item] # None
          BY <2>2, <4>2
        <4> QED
          BY <2>1, <4>1, <4>2, <4>3 DEF Asked
      <3>3. post.state # "done" /\ post.sold = intent[post.item].sold
        BY <3>1, <3>2 DEF IntentInv
      <3>4. ~Answers(w)
        <4> SUFFICES ASSUME Answers(w) PROVE FALSE
          OBVIOUS
        <4>1. w.kind = "toggle" /\ w.patches = Toggle(post.item, post.sold)
          BY DEF Answers
        <4>2. post.item \in DOMAIN w.patches /\ w.patches[post.item] = [sold |-> post.sold]
          BY <4>1 DEF Toggle
        <4>3. intent[post.item] \in [sold : BOOLEAN]
          BY <3>1, <3>2 DEF Asked, TypeOK
        <4>4. intent[post.item] = [sold |-> intent[post.item].sold]
          BY <4>3
        <4>5. intent[post.item] # [sold |-> w.patches[post.item].sold]
          BY <2>2, <2>3, <3>1, <4>1, <4>2
        <4>6. w.patches[post.item].sold = post.sold
          BY <4>2
        <4> QED
          BY <3>3, <4>4, <4>5, <4>6
      <3> QED
        BY <2>1, <3>2, <3>3, <3>4
    <2>4. \A r \in batch : r.item \in Items
      BY DEF TypeOK
    <2> QED
      BY <2>1, <2>2, <2>3, <2>4 DEF IntentInv, IntentKept, Kept, Asked
  <1>10. ASSUME NEW w \in writes, WriteFails(w) PROVE IntentInv'
    <2>1. /\ UNCHANGED <<outbox, batch, intent, raced>>
          /\ post' = IF Answers(w) THEN [post EXCEPT !.state = "failed"] ELSE post
      BY <1>10 DEF WriteFails
    <2>2. post' # None => post # None /\ post'.item = post.item /\ post'.sold = post.sold
      BY <1>10, PostKept
    <2>3. post' # None => post'.state = "failed" \/ post'.state = post.state
      <3>1. CASE Answers(w)
        BY <2>1, <3>1 DEF Answers, PostInv
      <3> QED
        BY <2>1, <3>1
    <2> QED
      BY <2>1, <2>2, <2>3 DEF IntentInv, IntentKept, Kept, Asked
  <1> QED
    <2> USE <1>1
    <2>1. CASE UNCHANGED vars
      BY <2>1 DEF vars, tillVars
    <2>2. CASE StartCycle \/ FetchPage \/ PullFails \/ ApplyPage
      BY <2>2 DEF StartCycle, FetchPage, PullFails, ApplyPage
    <2>3. CASE (\E id \in Items, sold \in BOOLEAN : Tap(id, sold)) \/ TapPuts
      BY <2>3 DEF Tap, TapPuts
    <2>4. CASE Office
      BY <2>4 DEF Office, tillVars
    <2> QED
      BY <1>2, <1>3, <1>4, <1>5, <1>6, <1>7, <1>8, <1>9, <1>10, <2>1, <2>2, <2>3, <2>4 DEF Next

(* The cashier's last toggle of an item stays in the outbox until the API    *)
(* has applied it, over lost requests, lost answers and deaths of the tab,   *)
(* unless the item was toggled while an earlier toggle of it was being sent  *)
(* (push-catalog.ts 129-168).                                                *)
THEOREM TogglesKept == Spec => []IntentKept
  <1>1. Init => MirrorType /\ IntentInv
    BY InitMirrorType, InitIntentInv
  <1>2. MirrorType /\ IntentInv /\ [Next]_vars => (MirrorType /\ IntentInv)'
    BY MirrorTypeKept, IntentInvKept
  <1>3. MirrorType /\ IntentInv => IntentKept
    BY DEF IntentInv
  <1> QED
    BY <1>1, <1>2, <1>3, PTL DEF Spec

-----------------------------------------------------------------------------
(* The pull skips no row.  Every row of the page the till holds lies ahead   *)
(* of the position it was asked from, so a page that is lost is asked for    *)
(* again; and it is still the row of the catalog, or the catalog has moved   *)
(* it beyond what the till has heard of.                                     *)

PageInv ==
    walk # None /\ walk.step = "page" =>
        \A id \in DOMAIN walk.page.rows \ behind :
            Present(id) =>
                /\ Beyond(PositionOf(id), walk.from)
                /\ \/ walk.page.rows[id].data = items[id].data
                   \/ Beyond(PositionOf(id), Reached)

Skipless == NothingSkipped /\ PageInv

(* What the till has heard of is a position, not short of its cursor nor of  *)
(* the page it asks for.                                                     *)
LEMMA ReachedLies ==
  ASSUME MirrorType
  PROVE  /\ Reached.at \in Nat /\ Reached.id \in Nat
         /\ AfterStamp(cursor).at \in Nat /\ AfterStamp(cursor).id \in Nat
         /\ ~Beyond(AfterStamp(cursor), Reached)
         /\ walk # None => /\ walk.from.at \in Nat /\ walk.from.id \in Nat
                           /\ ~Beyond(walk.from, Reached)
  <1> USE DEF MirrorType, TypeOK
  <1>1. clock \in Nat /\ NItems \in Nat
    BY CatalogAssumption DEF CatalogTypeOK
  <1>2. \A p : Placed(p) => p.at \in Nat /\ p.id \in Nat /\ ~Beyond(p, p)
    BY <1>1 DEF Placed, Beyond
  <1>3. Placed(AfterStamp(cursor))
    BY <1>1 DEF Placed, AfterStamp
  <1>4. CASE walk = None
    BY <1>2, <1>3, <1>4 DEF Reached
  <1>5. CASE walk # None /\ walk.step = "ask"
    <2>1. Reached = walk.from
      BY <1>5 DEF Reached
    <2> QED
      BY <1>2, <1>3, <1>5, <2>1 DEF WalkInv
  <1>6. CASE walk # None /\ walk.step = "page"
    <2>1. PICK from, page : from = walk.from /\ page = walk.page
      OBVIOUS
    <2>2. /\ Placed(from) /\ Placed(page.last)
          /\ ~Beyond(AfterStamp(cursor), from) /\ ~Beyond(from, page.last)
      BY <1>6, <2>1 DEF WalkInv
    <2>3. ~Beyond(page.last, AfterStamp(page.last.at)) /\ Placed(AfterStamp(page.last.at))
      BY <1>1, <2>2 DEF Placed, Beyond, AfterStamp
    <2>4. Reached = page.last \/ Reached = from \/ Reached = AfterStamp(page.last.at)
      BY <1>6, <2>1 DEF Reached
    <2>5. ~Beyond(from, Reached) /\ Placed(Reached)
      <3>1. ~Beyond(from, AfterStamp(page.last.at))
        BY <1>2, <2>2, <2>3, BeyondOrders
      <3> QED
        BY <1>2, <2>2, <2>3, <2>4, <3>1
    <2>6. ~Beyond(AfterStamp(cursor), Reached)
      BY <1>2, <1>3, <2>2, <2>5, BeyondOrders
    <2> QED
      BY <1>2, <1>3, <2>1, <2>2, <2>5, <2>6
  <1> QED
    BY <1>4, <1>5, <1>6 DEF WalkInv

(* A row that lies beyond what the till has heard of lies ahead of the page  *)
(* it asks for and of its cursor.                                            *)
LEMMA LiesAhead ==
  ASSUME MirrorType, NEW id \in Items, Beyond(PositionOf(id), Reached)
  PROVE  /\ Beyond(PositionOf(id), AfterStamp(cursor))
         /\ walk # None => Beyond(PositionOf(id), walk.from)
  <1>1. PositionOf(id).at \in Nat /\ PositionOf(id).id \in Nat
    BY Positions DEF MirrorType, TypeOK
  <1> QED
    BY <1>1, ReachedLies, BeyondOrders

(* So does every row of the page it holds. *)
LEMMA RowsLieAhead ==
  ASSUME MirrorType, PageInv, walk # None, walk.step = "page",
         NEW id \in DOMAIN walk.page.rows \ behind, Present(id)
  PROVE  Beyond(PositionOf(id), walk.from) /\ Beyond(PositionOf(id), AfterStamp(cursor))
  <1>1. Beyond(PositionOf(id), walk.from) /\ id \in Items
    BY DEF PageInv, MirrorType, WalkInv
  <1>2. PositionOf(id).at \in Nat /\ PositionOf(id).id \in Nat
    BY <1>1, Positions DEF MirrorType, TypeOK
  <1>3. ~Beyond(AfterStamp(cursor), walk.from)
    BY DEF MirrorType, WalkInv
  <1> QED
    BY <1>1, <1>2, <1>3, ReachedLies, BeyondOrders

(* A pull that is asked for again, or given up, has heard of less. *)
LEMMA HeardLess ==
  ASSUME MirrorType, Skipless, items' = items, local' = local, behind \subseteq behind',
         walk' = None \/ walk'.step = "ask",
         Reached' = AfterStamp(cursor) \/ (walk # None /\ Reached' = walk.from)
  PROVE  Skipless'
  <1> SUFFICES ASSUME NEW id \in Items \ behind', Present(id),
                      ~(local[id] # None /\ local[id].data = items[id].data)
               PROVE  Beyond(PositionOf(id), Reached')
    BY DEF Skipless, NothingSkipped, PageInv, Present, PositionOf, Beyond
  <1>1. CASE Beyond(PositionOf(id), Reached)
    BY <1>1, LiesAhead
  <1>2. CASE walk # None /\ walk.step = "page" /\ id \in DOMAIN walk.page.rows
    BY <1>2, RowsLieAhead DEF Skipless
  <1> QED
    BY <1>1, <1>2 DEF Skipless, NothingSkipped

LEMMA InitSkipless == Init => Skipless
  <1> SUFFICES ASSUME Init, NEW id \in Items, Present(id)
               PROVE  Beyond(PositionOf(id), Reached)
    BY DEF Skipless, NothingSkipped, PageInv, Init
  <1>1. items[id].at = 1
    BY DEF Init, CatalogInit, Present
  <1>2. Reached = AfterStamp(0)
    BY DEF Init, Reached
  <1> QED
    BY <1>1, <1>2 DEF PositionOf, AfterStamp, Beyond

(* The API answers with the rows next to the position, and all others ahead  *)
(* lie beyond the last of them.                                              *)
LEMMA FetchSkipless == MirrorType /\ Skipless /\ FetchPage => Skipless'
  <1> SUFFICES ASSUME MirrorType, Skipless, FetchPage PROVE Skipless'
    OBVIOUS
  <1>1. PICK from : from = walk.from
    OBVIOUS
  <1>2. PICK page : page = ListItems(from)
    OBVIOUS
  <1>3. /\ walk # None /\ walk.step = "ask" /\ walk' = Holds(from, page)
        /\ behind' = behind \ PageOf(from) /\ UNCHANGED <<items, local, cursor, clock>>
    BY <1>1, <1>2 DEF FetchPage, storeVars
  <1>4. Placed(from) /\ CatalogTypeOK
    BY <1>1, <1>3 DEF MirrorType, WalkInv, TypeOK
  <1>5. /\ DOMAIN page.rows = PageOf(from) /\ PageOf(from) \subseteq Items
        /\ \A id \in PageOf(from) : /\ page.rows[id].data = items[id].data
                                    /\ Beyond(PositionOf(id), from)
        /\ ~page.more => PageOf(from) = Ahead(from)
        /\ \A id \in Ahead(from) \ PageOf(from) : Beyond(PositionOf(id), page.last)
    BY <1>2, <1>4, PageListed
  <1>6. Reached = from
    BY <1>1, <1>3 DEF Reached
  <1>7. walk' # None /\ walk'.step = "page" /\ walk'.page = page /\ walk'.from = from
    BY <1>3, NoneIsNone DEF Holds
  <1>8. page.more => Reached' = page.last
    BY <1>7 DEF Reached
  <1>9. ASSUME NEW id \in Items \ behind', Present(id),
               ~(local[id] # None /\ local[id].data = items[id].data), id \notin PageOf(from)
        PROVE  Beyond(PositionOf(id), Reached')
    <2>1. Beyond(PositionOf(id), from)
      BY <1>3, <1>6, <1>9 DEF Skipless, NothingSkipped
    <2>2. id \in Ahead(from) \ PageOf(from)
      BY <1>9, <2>1 DEF Ahead
    <2>3. page.more \in BOOLEAN /\ page.more
      BY <1>2, <1>4, <1>5, <2>2, PageListed
    <2> QED
      BY <1>5, <1>8, <2>2, <2>3
  <1>10. NothingSkipped'
    <2> SUFFICES ASSUME NEW id \in Items \ behind', Present(id)
                 PROVE  \/ local[id] # None /\ local[id].data = items[id].data
                        \/ Beyond(PositionOf(id), Reached')
                        \/ id \in PageOf(from) /\ page.rows[id].data = items[id].data
      BY <1>3, <1>5, <1>7 DEF NothingSkipped, Present, PositionOf, Beyond
    <2> QED
      BY <1>5, <1>9
  <1>11. PageInv'
    BY <1>3, <1>5, <1>7 DEF PageInv, Present, PositionOf, Beyond
  <1> QED
    BY <1>10, <1>11 DEF Skipless

(* The rows are in the copy when the cursor, or the next request, is past them. *)
LEMMA ApplySkipless == MirrorType /\ Skipless /\ ApplyPage => Skipless'
  <1> SUFFICES ASSUME MirrorType, Skipless, ApplyPage PROVE Skipless'
    OBVIOUS
  <1>1. PICK from, page : from = walk.from /\ page = walk.page
    OBVIOUS
  <1>2. /\ walk # None /\ walk.step = "page"
        /\ local' = [id \in Items |-> IF id \in DOMAIN page.rows THEN page.rows[id] ELSE local[id]]
        /\ cursor' = NextCursor(page)
        /\ walk' = IF page.more THEN Waits(page.last) ELSE None
        /\ UNCHANGED <<items, behind>>
    BY <1>1 DEF ApplyPage, storeVars
  <1>3. /\ \A id \in DOMAIN page.rows : page.rows[id] \in LocalRow
        /\ page.more \in BOOLEAN
    BY <1>1, <1>2 DEF MirrorType, WalkInv
  <1>4. walk' = None \/ walk'.step = "ask"
    BY <1>2 DEF Waits
  <1>5. ASSUME NEW id \in Items, Beyond(PositionOf(id), Reached)
        PROVE  Beyond(PositionOf(id), Reached')
    <2>1. CASE page.more
      <3>1. Reached = page.last
        BY <1>1, <1>2, <2>1 DEF Reached
      <3>2. walk' # None /\ walk'.step = "ask" /\ walk'.from = page.last
        BY <1>2, <2>1, NoneIsNone DEF Waits
      <3>3. Reached' = page.last
        BY <3>2 DEF Reached
      <3> QED
        BY <1>5, <3>1, <3>3
    <2>2. CASE ~page.more
      <3>1. Reached' = AfterStamp(NextCursor(page))
        BY <1>2, <2>2 DEF Reached
      <3>2. CASE DOMAIN page.rows = {}
        <4>1. NextCursor(page) = cursor
          BY <3>2 DEF NextCursor
        <4> QED
          BY <1>5, <3>1, <4>1, LiesAhead
      <3>3. CASE DOMAIN page.rows # {}
        <4>1. Reached = AfterStamp(page.last.at) /\ NextCursor(page) = page.last.at
          BY <1>1, <1>2, <2>2, <3>3 DEF Reached, NextCursor
        <4> QED
          BY <1>5, <3>1, <4>1
      <3> QED
        BY <3>2, <3>3
    <2> QED
      BY <1>3, <2>1, <2>2
  <1>6. ASSUME NEW id \in Items \ behind, Present(id)
        PROVE  \/ local'[id] # None /\ local'[id].data = items[id].data
               \/ Beyond(PositionOf(id), Reached')
    <2>1. CASE id \in DOMAIN page.rows
      <3>1. page.rows[id].data = items[id].data \/ Beyond(PositionOf(id), Reached)
        BY <1>1, <1>2, <1>6, <2>1 DEF Skipless, PageInv
      <3>2. local'[id] = page.rows[id] /\ local'[id] # None
        BY <1>2, <1>3, <2>1, NoneIsNone
      <3> QED
        BY <1>5, <3>1, <3>2
    <2>2. CASE id \notin DOMAIN page.rows
      <3>1. \/ local[id] # None /\ local[id].data = items[id].data
            \/ Beyond(PositionOf(id), Reached)
        BY <1>1, <1>6, <2>2 DEF Skipless, NothingSkipped
      <3>2. local'[id] = local[id]
        BY <1>2, <2>2
      <3> QED
        BY <1>5, <3>1, <3>2
    <2> QED
      BY <2>1, <2>2
  <1>7. NothingSkipped'
    BY <1>2, <1>6 DEF NothingSkipped, Present, PositionOf, Beyond
  <1>8. PageInv'
    BY <1>4 DEF PageInv
  <1> QED
    BY <1>7, <1>8 DEF Skipless

(* A committed write moves its rows to its stamp: beyond what the till has   *)
(* heard of, or named as left behind.                                        *)
LEMMA CommitSkipless ==
  ASSUME MirrorType, Skipless, NEW w \in writes, CommitWrite(w), CatalogTypeOK'
  PROVE  Skipless'
  <1>1. /\ items' = [id \in Items |-> Result(id, w)]
        /\ behind' = behind \union Overtaken(w)
        /\ UNCHANGED <<local, cursor, walk>>
    BY DEF CommitWrite, Commit
  <1>2. Reached' = Reached
    BY <1>1 DEF Reached
  <1>3. ASSUME NEW id \in Items, items'[id] # items[id], id \notin behind'
        PROVE  Beyond(PositionOf(id)', Reached)
    <2>1. items'[id] = Result(id, w)
      BY <1>1
    <2>2. items'[id].at = w.at /\ id \in DOMAIN w.patches
      BY <1>3, <2>1, ResultType DEF MirrorType, TypeOK
    <2>3. Beyond([at |-> w.at, id |-> id], Reached)
      BY <1>1, <1>3, <2>2 DEF Overtaken
    <2> QED
      BY <2>2, <2>3 DEF PositionOf
  <1>4. \A id \in Items : items'[id] = items[id] =>
           Present(id)' = Present(id) /\ PositionOf(id)' = PositionOf(id)
    BY DEF Present, PositionOf
  <1>5. ASSUME NEW id \in Items \ behind', Present(id)'
        PROVE  \/ local[id] # None /\ local[id].data = items'[id].data
               \/ Beyond(PositionOf(id)', Reached)
               \/ walk # None /\ walk.step = "page" /\ id \in DOMAIN walk.page.rows
                  /\ walk.page.rows[id].data = items'[id].data
    <2>1. CASE items'[id] = items[id]
      BY <1>1, <1>4, <1>5, <2>1 DEF Skipless, NothingSkipped
    <2> QED
      BY <1>3, <1>5, <2>1
  <1>6. ASSUME walk # None, walk.step = "page",
               NEW id \in DOMAIN walk.page.rows \ behind', Present(id)'
        PROVE  /\ Beyond(PositionOf(id)', walk.from)
               /\ \/ walk.page.rows[id].data = items'[id].data
                  \/ Beyond(PositionOf(id)', Reached)
    <2>1. id \in Items
      BY <1>6 DEF MirrorType, WalkInv
    <2>2. CASE items'[id] = items[id]
      BY <1>1, <1>4, <1>6, <2>1, <2>2 DEF Skipless, PageInv
    <2>3. CASE items'[id] # items[id]
      <3>1. Beyond(PositionOf(id)', Reached)
        BY <1>3, <1>6, <2>1, <2>3
      <3>2. PositionOf(id)'.at \in Nat /\ PositionOf(id)'.id \in Nat
        <4>1. items'[id] \in {Absent} \union [at : 1..MaxClock, data : Contents, sold : BOOLEAN]
          BY <2>1 DEF CatalogTypeOK, Row
        <4> QED
          BY <2>1, <4>1, CatalogAssumption DEF PositionOf, Absent, Items
      <3>3. Beyond(PositionOf(id)', walk.from)
        BY <1>6, <3>1, <3>2, ReachedLies, BeyondOrders
      <3> QED
        BY <3>1, <3>3
    <2> QED
      BY <2>2, <2>3
  <1>7. NothingSkipped'
    BY <1>1, <1>2, <1>5 DEF NothingSkipped, Present, PositionOf, Beyond
  <1>8. PageInv'
    BY <1>1, <1>2, <1>6 DEF PageInv, Present, PositionOf, Beyond
  <1> QED
    BY <1>7, <1>8 DEF Skipless

(* A toggle puts back the row it read, or leaves the copy behind. *)
LEMMA TapSkipless == MirrorType /\ Skipless /\ TapPuts => Skipless'
  <1> SUFFICES ASSUME MirrorType, Skipless, TapPuts PROVE Skipless'
    OBVIOUS
  <1>1. PICK item, row : item = tap.item /\ row = [tap.row EXCEPT !.sold = tap.sold]
    OBVIOUS
  <1>2. /\ local' = [local EXCEPT ![item] = row]
        /\ behind' = IF local[item].data # row.data THEN behind \union {item} ELSE behind
        /\ UNCHANGED <<items, cursor, walk>> /\ row \in LocalRow /\ item \in Items
    <2>1. tap.row \in LocalRow /\ tap.sold \in BOOLEAN /\ tap.item \in Items
      BY DEF TapPuts, MirrorType, TapInv
    <2>2. row \in LocalRow /\ row.data = tap.row.data
      BY <1>1, <2>1 DEF LocalRow
    <2> QED
      BY <1>1, <2>1, <2>2 DEF TapPuts, storeVars
  <1>3. Reached' = Reached
    BY <1>2 DEF Reached
  <1>4. ASSUME NEW id \in Items \ behind', local[id] # None, local[id].data = items[id].data
        PROVE  local'[id] # None /\ local'[id].data = items[id].data
    BY <1>2, <1>4, NoneIsNone DEF MirrorType, TypeOK
  <1>5. behind \subseteq behind'
    BY <1>2
  <1>6. NothingSkipped'
    BY <1>2, <1>3, <1>4, <1>5 DEF Skipless, NothingSkipped, Present, PositionOf, Beyond
  <1>7. PageInv'
    BY <1>2, <1>3, <1>5 DEF Skipless, PageInv, Present, PositionOf, Beyond
  <1> QED
    BY <1>6, <1>7 DEF Skipless

LEMMA SkiplessKept == MirrorType /\ Skipless /\ [Next]_vars => Skipless'
  <1> SUFFICES ASSUME MirrorType, Skipless, [Next]_vars PROVE Skipless'
    OBVIOUS
  <1>1. UNCHANGED <<items, local, cursor, walk, behind>> => Skipless'
    <2> SUFFICES ASSUME UNCHANGED <<items, local, cursor, walk, behind>> PROVE Skipless'
      OBVIOUS
    <2>1. Reached' = Reached
      BY DEF Reached
    <2>2. NothingSkipped'
      BY <2>1 DEF Skipless, NothingSkipped, Present, PositionOf, Beyond
    <2>3. PageInv'
      BY <2>1 DEF Skipless, PageInv, Present, PositionOf, Beyond
    <2> QED
      BY <2>2, <2>3 DEF Skipless
  <1>2. ASSUME StartCycle PROVE Skipless'
    <2>1. /\ walk' = Waits(AfterStamp(cursor)) /\ items' = items /\ local' = local /\ behind \subseteq behind'
      BY <1>2 DEF StartCycle, storeVars
    <2>2. walk' # None /\ walk'.step = "ask" /\ walk'.from = AfterStamp(cursor)
      BY <2>1, NoneIsNone DEF Waits
    <2>3. Reached' = AfterStamp(cursor)
      BY <2>2 DEF Reached
    <2>4. Reached' = AfterStamp(cursor) \/ (walk # None /\ Reached' = walk.from)
      BY <2>3
    <2>5. walk' = None \/ walk'.step = "ask"
      BY <2>2
    <2> QED
      BY <2>1, <2>4, <2>5, HeardLess
  <1>3. ASSUME PullFails PROVE Skipless'
    <2>1. walk # None /\ items' = items /\ local' = local /\ behind \subseteq behind' /\ cursor' = cursor
      BY <1>3 DEF PullFails, storeVars
    <2>2. CASE walk' = Waits(walk.from)
      <3>1. walk' # None /\ walk'.step = "ask" /\ walk'.from = walk.from
        BY <2>2, NoneIsNone DEF Waits
      <3>2. Reached' = walk.from
        BY <3>1 DEF Reached
      <3> QED
        BY <2>1, <3>1, <3>2, HeardLess
    <2>3. CASE walk' = None
      <3>1. Reached' = AfterStamp(cursor)
        BY <2>1, <2>3 DEF Reached
      <3>2. Reached' = AfterStamp(cursor) \/ (walk # None /\ Reached' = walk.from)
        BY <3>1
      <3>3. walk' = None \/ walk'.step = "ask"
        BY <2>3
      <3> QED
        BY <2>1, <3>2, <3>3, HeardLess
    <2> QED
      BY <1>3, <2>2, <2>3 DEF PullFails
  <1>4. ASSUME TabDies PROVE Skipless'
    <2>1. /\ walk' = None /\ behind \subseteq behind' /\ items' = items /\ local' = local
          /\ cursor' = cursor
      BY <1>4 DEF TabDies, storeVars
    <2>2. Reached' = AfterStamp(cursor)
      BY <2>1 DEF Reached
    <2>3. Reached' = AfterStamp(cursor) \/ (walk # None /\ Reached' = walk.from)
      BY <2>2
    <2>4. walk' = None \/ walk'.step = "ask"
      BY <2>1
    <2> QED
      BY <2>1, <2>3, <2>4, HeardLess
  <1> QED
    <2> USE <1>1
    <2>1. CASE UNCHANGED vars
      BY <2>1 DEF vars, tillVars, storeVars
    <2>2. CASE (\E id \in Items, sold \in BOOLEAN : Tap(id, sold)) \/ TapEnqueues
      BY <2>2 DEF Tap, TapEnqueues, storeVars
    <2>3. CASE ListDrainable \/ (\E r \in batch : Send(r)) \/ MarkSynced \/ PatchStamped
      BY <2>3 DEF ListDrainable, Send, MarkSynced, PatchStamped, storeVars
    <2>4. CASE PatchLost \/ PatchFailed \/ MarkNeedsAttention
      BY <2>4 DEF PatchLost, PatchFailed, MarkError, MarkNeedsAttention, storeVars
    <2>5. CASE \E w \in writes : CommitWrite(w)
      BY <2>5, CommitSkipless, CatalogKept
    <2>6. CASE \E w \in writes : WriteFails(w)
      BY <2>6 DEF WriteFails, RollBack
    <2>7. CASE Office
      BY <2>7 DEF Office, tillVars, Tick, OfficeEdits
    <2> QED
      BY <1>2, <1>3, <1>4, FetchSkipless, ApplySkipless, TapSkipless,
         <2>1, <2>2, <2>3, <2>4, <2>5, <2>6, <2>7 DEF Next

(* The pull skips no row: what the till's copy lacks of a row lies beyond    *)
(* what the till has heard of, or is in the page it holds, though rows move  *)
(* while it walks the pages, pages are lost and the tab dies between them.   *)
(* Set apart are the rows a named race leaves behind (pull.ts 292-337).      *)
THEOREM PullSkipsNothing == Spec => []NothingSkipped
  <1>1. Init => MirrorType /\ Skipless
    BY InitMirrorType, InitSkipless
  <1>2. MirrorType /\ Skipless /\ [Next]_vars => (MirrorType /\ Skipless)'
    BY MirrorTypeKept, SkiplessKept
  <1>3. MirrorType /\ Skipless => NothingSkipped
    BY DEF Skipless
  <1> QED
    BY <1>1, <1>2, <1>3, PTL DEF Spec

-----------------------------------------------------------------------------
FindSpec == FindInit /\ [][FindNext]_findVars

Codes == {CodeOf[s] : s \in Sales} \union {WrongCode}
Marks == Int
HeldRow == [at : {"absent", "outbox", "synced"}, void : Marks]
Lookup == [step : {"local", "missed", "asked", "answered", "read", "over"}, code : Codes,
           heard : BOOLEAN, sale : Sales \union {NoSale}, void : Marks,
           at : {"absent", "outbox", "synced"}]

Attempt == [sale : Sales, status : {"queued", "synced", "refused"},
            step : {"marking", "posting", "undoing", "over", "unmarked"},
            heard : BOOLEAN, alone : BOOLEAN]

FindTypeOK ==
    /\ held \in [Sales -> HeldRow] /\ served \in [Sales -> HeldRow]
    /\ \E k \in Nat : voids \in [1..k -> Attempt]
    /\ \E k \in Nat : lookups \in [1..k -> Lookup]
    /\ screen \in [at : {"find", "history", "void"}, sale : Sales \union {NoSale}, row : HeldRow,
                   shift : BOOLEAN]
    /\ crossed \in BOOLEAN /\ shift \in BOOLEAN

(* What a lookup brings from the server is the sale it was asked for. *)
Brought ==
    \A n \in DOMAIN lookups : lookups[n].step \in {"answered", "read"} =>
        /\ lookups[n].sale \in Here /\ CodeOf[lookups[n].sale] = lookups[n].code
        /\ lookups[n].step = "read" /\ lookups[n].at = "outbox" => lookups[n].sale \in Rows

Missing(n) == LocalMatches(lookups[n].code) = {}

(* Unless two crossed, the last lookup is the only one under way, and what it *)
(* missed in the till's database is still not there.                          *)
OneAtATime ==
    ~crossed =>
        \A n \in DOMAIN lookups : UnderWay(lookups[n]) =>
            /\ n = Cardinality(DOMAIN lookups)
            /\ lookups[n].step # "local" => Missing(n)

(* A sale is voided from a row the till has. *)
VoidsHeld ==
    /\ \A n \in DOMAIN voids : voids[n].sale \in Rows \cap Here
    /\ OnVoid => screen.sale \in Rows \cap Here

(* No other attempt of the sale is under way beside one that is alone. *)
AloneIsAlone ==
    \A n, m \in DOMAIN voids :
        n # m /\ voids[n].alone /\ voids[m].sale = voids[n].sale => ~Handling(voids[m])

(* The second write of an attempt shows until the screen takes it back,      *)
(* whatever became of its outbox row.                                        *)
Stays(v) == v.alone /\ v.step \in {"posting", "over"}
MarkStays == ~crossed => \A n \in DOMAIN voids : Stays(voids[n]) => held[voids[n].sale].void # NoVoid

VoidInv == VoidsHeld /\ AloneIsAlone /\ MarkStays

SearchInv == FindTypeOK /\ Brought /\ OneAtATime /\ VoidInv /\ FoundIsAsked

LEMMA MarkTypes == NoVoid \in Marks /\ Theirs \in Marks /\ \A n \in Nat : n \in Marks /\ (n # 0 => n # NoVoid)
  BY DEF Marks, NoVoid, Theirs

LEMMA LookupsCounted ==
  ASSUME NEW f, NEW k \in Nat, DOMAIN f = 1..k
  PROVE  Cardinality(DOMAIN f) = k
  <1>1. 1 \in Int /\ k \in Int
    OBVIOUS
  <1>2. Cardinality(1..k) = k
    BY <1>1, FS_Interval
  <1> QED
    BY <1>2

LEMMA LookupType ==
  ASSUME FindTypeOK, NEW n \in DOMAIN lookups
  PROVE  lookups[n] \in Lookup
  BY DEF FindTypeOK

LEMMA FindInitType == FindInit => FindTypeOK
  <1> SUFFICES ASSUME FindInit PROVE FindTypeOK
    OBVIOUS
  <1>1. lookups \in [1..0 -> Lookup] /\ voids \in [1..0 -> Attempt]
    BY DEF FindInit
  <1>2. Nothing \in HeldRow
    BY MarkTypes DEF Nothing, HeldRow
  <1> QED
    BY <1>1, <1>2 DEF FindInit, FindTypeOK, At

LEMMA FindInitHolds == FindInit => SearchInv
  BY FindInitType DEF FindInit, SearchInv, Brought, OneAtATime, VoidInv, VoidsHeld, AloneIsAlone,
     MarkStays, FoundIsAsked, OnVoid, At, Idle, Nothing

(* The form may show what it likes as long as it stays in its code. *)
LEMMA AskedLast ==
  ASSUME FindTypeOK, OneAtATime, ~crossed, NEW n \in DOMAIN lookups, UnderWay(lookups[n])
  PROVE  LastAsked = lookups[n].code
  BY DEF OneAtATime, LastAsked

(* A lookup goes on, or ends. *)
LEMMA LookupGoesOn ==
  ASSUME SearchInv, NEW n \in DOMAIN lookups, NEW l \in Lookup,
         lookups' = [lookups EXCEPT ![n] = l], l.code = lookups[n].code, UnderWay(lookups[n]),
         UNCHANGED <<served, voids, draining, shift, screen, crossed>>,
         held' \in [Sales -> HeldRow], Rows \subseteq Rows', MarkStays',
         l.step \in {"answered", "read"} =>
            /\ l.sale \in Here /\ CodeOf[l.sale] = l.code
            /\ l.step = "read" /\ l.at = "outbox" => l.sale \in Rows',
         ~crossed /\ l.step \notin {"local", "over"} => LocalMatches(l.code)' = {},
         \/ find' = find
         \/ find'.kind = "found" => find'.sale \in Rows' \cap Here /\ CodeOf[find'.sale] = l.code
  PROVE  SearchInv'
  <1>1. PICK k \in Nat : lookups \in [1..k -> Lookup]
    BY DEF SearchInv, FindTypeOK
  <1>2. /\ lookups' \in [1..k -> Lookup] /\ DOMAIN lookups' = DOMAIN lookups /\ lookups'[n] = l
        /\ \A m \in DOMAIN lookups : m # n => lookups'[m] = lookups[m]
    BY <1>1
  <1>3. FindTypeOK'
    BY <1>2 DEF SearchInv, FindTypeOK
  <1>4. Brought'
    <2>1. ASSUME NEW m \in DOMAIN lookups', m # n, lookups'[m].step \in {"answered", "read"}
          PROVE  /\ lookups'[m].sale \in Here /\ CodeOf[lookups'[m].sale] = lookups'[m].code
                 /\ lookups'[m].step = "read" /\ lookups'[m].at = "outbox" => lookups'[m].sale \in Rows'
      BY <1>2, <2>1 DEF SearchInv, Brought
    <2> QED
      BY <1>2, <2>1 DEF Brought
  <1>5. OneAtATime'
    <2> SUFFICES ASSUME ~crossed, NEW m \in DOMAIN lookups', UnderWay(lookups'[m])
                 PROVE  /\ m = Cardinality(DOMAIN lookups')
                        /\ lookups'[m].step # "local" => Missing(m)'
      BY DEF OneAtATime
    <2>1. n = Cardinality(DOMAIN lookups)
      BY DEF SearchInv, OneAtATime
    <2>2. m = n
      BY <1>2, <2>1 DEF SearchInv, OneAtATime
    <2>3. lookups'[m].step # "local" => LocalMatches(l.code)' = {}
      BY <1>2, <2>2 DEF UnderWay
    <2>4. lookups'[m].step # "local" => Missing(m)'
      BY <1>2, <2>2, <2>3 DEF Missing, LocalMatches
    <2> QED
      BY <1>2, <2>1, <2>2, <2>4
  <1>6. VoidInv'
    BY DEF SearchInv, VoidInv, VoidsHeld, AloneIsAlone, OnVoid
  <1>7. FoundIsAsked'
    <2> SUFFICES ASSUME find'.kind = "found", ~crossed
                 PROVE  find'.sale \in Rows' \cap Here /\ CodeOf[find'.sale] = LastAsked'
      BY DEF FoundIsAsked
    <2>1. LastAsked = lookups[n].code /\ n = Cardinality(DOMAIN lookups)
      BY AskedLast DEF SearchInv, OneAtATime
    <2>2. LastAsked' = l.code
      BY <1>2, <2>1 DEF LastAsked
    <2>3. CASE find' = find
      BY <2>1, <2>2, <2>3 DEF SearchInv, FoundIsAsked
    <2> QED
      BY <2>2, <2>3
  <1> QED
    BY <1>3, <1>4, <1>5, <1>6, <1>7 DEF SearchInv

(* The records move, and no lookup does. *)
LEMMA RecordsMove ==
  ASSUME SearchInv, UNCHANGED <<screen, find, lookups>>, FindTypeOK', Rows \subseteq Rows',
         crossed => crossed',
         ~crossed' => \A n \in DOMAIN lookups :
             UnderWay(lookups[n]) /\ lookups[n].step # "local" => Missing(n)',
         VoidInv'
  PROVE  SearchInv'
  <1>1. Brought'
    BY DEF SearchInv, Brought
  <1>2. OneAtATime'
    BY DEF SearchInv, OneAtATime
  <1>4. FoundIsAsked'
    BY DEF SearchInv, FoundIsAsked, LastAsked
  <1> QED
    BY <1>1, <1>2, <1>4 DEF SearchInv

(* No row is added. *)
LEMMA RecordsStay ==
  ASSUME SearchInv, UNCHANGED <<screen, find, lookups, crossed>>, FindTypeOK',
         \A s \in Sales : held'[s].at = "absent" <=> held[s].at = "absent",
         VoidInv'
  PROVE  SearchInv'
  <1>1. Rows' = Rows
    BY DEF Rows
  <1>2. \A n \in DOMAIN lookups : Missing(n)' = Missing(n)
    BY <1>1 DEF Missing, LocalMatches
  <1>4. ~crossed' => \A n \in DOMAIN lookups :
             UnderWay(lookups[n]) /\ lookups[n].step # "local" => Missing(n)'
    BY <1>2 DEF SearchInv, OneAtATime
  <1> QED
    BY <1>1, <1>4, RecordsMove

(* The attempts go on, or end, and no mark is written or taken back. *)
LEMMA AttemptsGoOn ==
  ASSUME VoidInv, held' = held, crossed' = crossed, DOMAIN voids' = DOMAIN voids,
         \A n \in DOMAIN voids :
             /\ voids'[n].sale = voids[n].sale /\ voids'[n].alone = voids[n].alone
             /\ Handling(voids'[n]) => Handling(voids[n])
             /\ Stays(voids'[n]) => Stays(voids[n]),
         OnVoid' => screen'.sale \in Rows \cap Here
  PROVE  VoidInv'
  <1>1. Rows' = Rows
    BY DEF Rows
  <1>2. VoidsHeld'
    BY <1>1 DEF VoidInv, VoidsHeld
  <1>3. AloneIsAlone'
    BY DEF VoidInv, AloneIsAlone
  <1>4. MarkStays'
    BY DEF VoidInv, MarkStays
  <1> QED
    BY <1>2, <1>3, <1>4 DEF VoidInv

(* A mark is written, or taken back by the attempt whose it is. *)
LEMMA MarkMoves ==
  ASSUME FindTypeOK, VoidInv, NEW n \in DOMAIN voids, NEW v \in Marks, UNCHANGED <<screen, crossed>>,
         held' = [held EXCEPT ![voids[n].sale].void = v], DOMAIN voids' = DOMAIN voids,
         \A m \in DOMAIN voids :
             /\ voids'[m].sale = voids[m].sale /\ voids'[m].alone = voids[m].alone
             /\ Handling(voids'[m]) => Handling(voids[m])
             /\ m # n => (Stays(voids'[m]) => Stays(voids[m])),
         v = NoVoid => Handling(voids[n]) /\ ~Stays(voids'[n])
  PROVE  VoidInv' /\ held' \in [Sales -> HeldRow] /\ Rows' = Rows
                  /\ \A s \in Sales : held'[s].at = held[s].at
  <1> DEFINE s == voids[n].sale
  <1>1. s \in Sales
    BY DEF VoidInv, VoidsHeld, Rows
  <1> HIDE DEF s
  <1>2. held' = [held EXCEPT ![s].void = v]
    BY DEF s
  <1>3. /\ held' \in [Sales -> HeldRow] /\ held'[s].void = v
        /\ \A r \in Sales : held'[r].at = held[r].at /\ (r # s => held'[r] = held[r])
    <2> DEFINE row == [held[s] EXCEPT !.void = v]
    <2>1. held[s] \in HeldRow /\ held \in [Sales -> HeldRow]
      BY <1>1 DEF FindTypeOK
    <2>2. row \in HeldRow /\ row.void = v /\ row.at = held[s].at
      BY <2>1 DEF HeldRow
    <2>3. held' = [held EXCEPT ![s] = row]
      BY <1>2
    <2> HIDE DEF row
    <2> QED
      BY <1>1, <2>1, <2>2, <2>3
  <1>4. Rows' = Rows
    BY <1>3 DEF Rows
  <1>5. VoidsHeld'
    BY <1>4 DEF VoidInv, VoidsHeld, OnVoid
  <1>6. AloneIsAlone'
    BY DEF VoidInv, AloneIsAlone
  <1>7. MarkStays'
    <2> SUFFICES ASSUME ~crossed, NEW m \in DOMAIN voids, Stays(voids'[m])
                 PROVE  held'[voids[m].sale].void # NoVoid
      BY DEF MarkStays
    <2>1. voids[m].sale \in Sales
      BY DEF VoidInv, VoidsHeld, Rows
    <2>2. CASE voids[m].sale # s
      <3>1. m # n
        BY <2>2 DEF s
      <3> QED
        BY <1>3, <2>1, <2>2, <3>1 DEF VoidInv, MarkStays
    <2>3. CASE voids[m].sale = s
      <3>1. v # NoVoid
        BY <2>3 DEF VoidInv, AloneIsAlone, Stays, s
      <3> QED
        BY <1>3, <2>3, <3>1
    <2> QED
      BY <2>2, <2>3
  <1> QED
    BY <1>3, <1>4, <1>5, <1>6, <1>7 DEF VoidInv

-----------------------------------------------------------------------------

LEMMA RingHolds ==
  ASSUME SearchInv, NEW s \in Sales, Ring(s)
  PROVE  SearchInv'
  <1>1. /\ held' = [held EXCEPT ![s].at = "outbox"] /\ crossed' = (crossed \/ Missed(s))
        /\ held[s].at = "absent"
        /\ UNCHANGED <<served, voids, draining, shift, screen, find, lookups>>
    BY DEF Ring
  <1>2. /\ held' \in [Sales -> HeldRow]
        /\ \A r \in Sales : held'[r].void = held[r].void
        /\ \A r \in Sales : r # s => held'[r] = held[r]
        /\ held'[s].at = "outbox"
    BY <1>1 DEF SearchInv, FindTypeOK, HeldRow
  <1>3. Rows' = Rows \union {s}
    BY <1>1, <1>2 DEF Rows
  <1>4. FindTypeOK'
    BY <1>1, <1>2 DEF SearchInv, FindTypeOK
  <1>5. ASSUME ~crossed', NEW n \in DOMAIN lookups, UnderWay(lookups[n]), lookups[n].step # "local"
        PROVE  Missing(n)'
    <2>1. LocalMatches(lookups[n].code) = {} /\ CodeOf[s] # lookups[n].code
      BY <1>1, <1>5 DEF Missed, SearchInv, OneAtATime, Missing
    <2> QED
      BY <1>1, <1>3, <2>1 DEF LocalMatches, Missing
  <1>6. VoidInv'
    <2>1. \A n \in DOMAIN voids : voids[n].sale \in Sales
      BY DEF SearchInv, VoidInv, VoidsHeld, Rows
    <2> QED
      BY <1>1, <1>2, <1>3, <2>1 DEF SearchInv, VoidInv, VoidsHeld, AloneIsAlone, MarkStays, OnVoid
  <1> QED
    BY <1>1, <1>3, <1>4, <1>5, <1>6, RecordsMove

LEMMA VoidsUntouched ==
  ASSUME SearchInv, UNCHANGED <<held, voids, screen, crossed>>
  PROVE  VoidInv'
  BY DEF SearchInv, VoidInv, VoidsHeld, AloneIsAlone, MarkStays, OnVoid, Rows

LEMMA ServerHolds ==
  ASSUME SearchInv, NEW s \in Sales, SiblingRings(s) \/ SiblingVoids(s) \/ SalePosted(s)
  PROVE  SearchInv'
  <1>1. UNCHANGED <<held, voids, draining, shift, screen, find, lookups, crossed>>
    BY DEF SiblingRings, SiblingVoids, SalePosted
  <1>2. served' \in [Sales -> HeldRow]
    <2>1. Live \in HeldRow /\ Theirs \in Marks
      BY MarkTypes DEF Live, HeldRow
    <2> DEFINE row == [served[s] EXCEPT !.void = Theirs]
    <2>2. served \in [Sales -> HeldRow] /\ row \in HeldRow
      BY <2>1 DEF SearchInv, FindTypeOK, HeldRow
    <2>3. served' = [served EXCEPT ![s] = Live] \/ served' = [served EXCEPT ![s] = row]
      BY DEF SiblingRings, SiblingVoids, SalePosted
    <2> HIDE DEF row
    <2> QED
      BY <2>1, <2>2, <2>3
  <1>3. FindTypeOK'
    BY <1>1, <1>2 DEF SearchInv, FindTypeOK
  <1> QED
    BY <1>1, <1>3, RecordsStay, VoidsUntouched

LEMMA SaleAnsweredHolds ==
  ASSUME SearchInv, NEW s \in Sales, SaleAnswered(s)
  PROVE  SearchInv'
  <1>1. /\ held' = [held EXCEPT ![s].at = "synced"] /\ held[s].at = "outbox"
        /\ UNCHANGED <<served, voids, draining, shift, screen, find, lookups, crossed>>
    BY DEF SaleAnswered
  <1>2. /\ held' \in [Sales -> HeldRow]
        /\ \A r \in Sales : held'[r].void = held[r].void
        /\ \A r \in Sales : held'[r].at = "absent" <=> held[r].at = "absent"
    BY <1>1 DEF SearchInv, FindTypeOK, HeldRow
  <1>3. FindTypeOK'
    BY <1>1, <1>2 DEF SearchInv, FindTypeOK
  <1>4. VoidInv'
    <2>1. Rows' = Rows /\ \A n \in DOMAIN voids : voids[n].sale \in Sales
      BY <1>2 DEF SearchInv, VoidInv, VoidsHeld, Rows
    <2> QED
      BY <1>1, <1>2, <2>1 DEF SearchInv, VoidInv, VoidsHeld, AloneIsAlone, MarkStays, OnVoid
  <1> QED
    BY <1>1, <1>2, <1>3, <1>4, RecordsStay

(* One more attempt.  It is alone beside those that are over, and none that   *)
(* were made before it stays so.                                              *)
LEMMA VoidHolds ==
  ASSUME SearchInv, Void
  PROVE  SearchInv'
  <1> DEFINE s == screen.sale
  <1>1. PICK k \in Nat : voids \in [1..k -> Attempt]
    BY DEF SearchInv, FindTypeOK
  <1>2. Cardinality(DOMAIN voids) = k
    BY <1>1, LookupsCounted
  <1> DEFINE alone == \A m \in Attempts(s) : ~Handling(voids[m])
             new == [sale |-> s, status |-> "queued", step |-> "marking", heard |-> TRUE,
                     alone |-> alone]
             Older(v) == [v EXCEPT !.alone = @ /\ v.sale # s]
  <1>3. /\ voids' = [n \in 1..(k + 1) |-> IF n \in 1..k THEN Older(voids[n]) ELSE new]
        /\ UNCHANGED <<held, served, draining, shift, screen, find, lookups, crossed>> /\ OnVoid
    BY <1>1, <1>2 DEF Void, VoidForm
  <1>4. s \in Rows \cap Here /\ s \in Sales
    BY <1>3 DEF SearchInv, VoidInv, VoidsHeld, Rows
  <1>5. alone \in BOOLEAN
    BY DEF Attempts
  <1>6. new \in Attempt /\ new.sale = s /\ new.alone = alone /\ new.step = "marking"
    BY <1>4, <1>5 DEF Attempt
  <1>7. ASSUME NEW v \in Attempt
        PROVE  /\ Older(v) \in Attempt
               /\ Older(v).sale = v.sale /\ Older(v).step = v.step
               /\ Older(v).alone => v.alone /\ v.sale # s
    BY <1>7 DEF Attempt
  <1>8. /\ voids' \in [1..(k + 1) -> Attempt] /\ DOMAIN voids' = 1..(k + 1) /\ voids'[k + 1] = new
        /\ \A n \in 1..k : voids'[n] = Older(voids[n]) /\ voids[n] \in Attempt /\ n # k + 1
        /\ \A n \in 1..(k + 1) : n \in 1..k \/ n = k + 1
    <2> HIDE DEF new, Older
    <2> QED
      BY <1>1, <1>3, <1>6, <1>7
  <1>9. alone => \A m \in 1..k : voids[m].sale = s => ~Handling(voids[m])
    BY <1>1 DEF Attempts
  <1> HIDE DEF s, new, Older, alone
  <1>10. FindTypeOK'
    <2>1. k + 1 \in Nat
      OBVIOUS
    <2> QED
      BY <1>3, <1>8, <2>1 DEF SearchInv, FindTypeOK
  <1>11. VoidsHeld'
    <2>1. Rows' = Rows /\ OnVoid' = OnVoid
      BY <1>3 DEF Rows, OnVoid
    <2> QED
      BY <1>1, <1>3, <1>4, <1>6, <1>7, <1>8, <2>1 DEF SearchInv, VoidInv, VoidsHeld
  <1>12. AloneIsAlone'
    <2> SUFFICES ASSUME NEW n \in 1..(k + 1), NEW m \in 1..(k + 1), n # m, voids'[n].alone,
                        voids'[m].sale = voids'[n].sale
                 PROVE  ~Handling(voids'[m])
      BY <1>8 DEF AloneIsAlone
    <2>1. CASE n = k + 1
      <3>1. m \in 1..k /\ voids[m].sale = s /\ alone
        BY <1>6, <1>7, <1>8, <2>1
      <3> QED
        BY <1>7, <1>8, <1>9, <3>1 DEF Handling
    <2>2. CASE n \in 1..k
      <3>1. voids[n].alone /\ voids[n].sale # s /\ voids'[n].sale = voids[n].sale
        BY <1>7, <1>8, <2>2
      <3>2. m \in 1..k
        BY <1>6, <1>8, <3>1
      <3> QED
        BY <1>1, <1>7, <1>8, <2>2, <3>1, <3>2 DEF SearchInv, VoidInv, AloneIsAlone, Handling
    <2> QED
      BY <1>8, <2>1, <2>2
  <1>13. MarkStays'
    <2> SUFFICES ASSUME ~crossed, NEW n \in 1..(k + 1), Stays(voids'[n])
                 PROVE  held[voids'[n].sale].void # NoVoid
      BY <1>3, <1>8 DEF MarkStays
    <2>1. n \in 1..k
      BY <1>6, <1>8 DEF Stays
    <2> QED
      BY <1>1, <1>7, <1>8, <2>1 DEF SearchInv, VoidInv, MarkStays, Stays
  <1> QED
    BY <1>3, <1>10, <1>11, <1>12, <1>13, RecordsStay DEF VoidInv

(* What one attempt becomes. *)
LEMMA AttemptType ==
  ASSUME FindTypeOK, NEW n \in DOMAIN voids, NEW v \in Attempt, voids' = [voids EXCEPT ![n] = v]
  PROVE  /\ \E k \in Nat : voids' \in [1..k -> Attempt]
         /\ DOMAIN voids' = DOMAIN voids /\ voids'[n] = v
         /\ \A m \in DOMAIN voids : m # n => voids'[m] = voids[m]
  <1>1. PICK k \in Nat : voids \in [1..k -> Attempt]
    BY DEF FindTypeOK
  <1> QED
    BY <1>1

LEMMA OneAttempt ==
  ASSUME FindTypeOK, NEW n \in DOMAIN voids
  PROVE  voids[n] \in Attempt /\ n \in Marks /\ n # NoVoid
  <1>1. PICK k \in Nat : voids \in [1..k -> Attempt]
    BY DEF FindTypeOK
  <1>2. n \in 1..k
    BY <1>1
  <1>3. n \in Nat /\ n # 0
    BY <1>2
  <1> QED
    BY <1>1, <1>2, <1>3, MarkTypes

(* The steps that write or take back the mark. *)
LEMMA MarkHolds ==
  ASSUME SearchInv, NEW n \in DOMAIN voids, MarkVoided(n) \/ RollsBack(n) \/ Restamps(n)
  PROVE  SearchInv'
  <1>1. voids[n] \in Attempt /\ n \in Marks /\ n # NoVoid /\ FindTypeOK /\ VoidInv
    BY OneAttempt DEF SearchInv
  <1>2. UNCHANGED <<served, shift, screen, find, lookups, crossed>>
    BY DEF MarkVoided, RollsBack, Restamps
  <1>3. \E v \in Marks, a \in Attempt :
           /\ held' = [held EXCEPT ![voids[n].sale].void = v]
           /\ voids' = [voids EXCEPT ![n] = a]
           /\ a.sale = voids[n].sale /\ a.alone = voids[n].alone
           /\ Handling(a) => Handling(voids[n])
           /\ v = NoVoid => Handling(voids[n]) /\ ~Stays(a)
    <2>1. CASE MarkVoided(n)
      <3> DEFINE a == [voids[n] EXCEPT !.step = "posting"]
      <3>1. a \in Attempt /\ a.sale = voids[n].sale /\ a.alone = voids[n].alone
        BY <1>1 DEF Attempt
      <3> QED
        BY <1>1, <2>1, <3>1 DEF MarkVoided, Handling
    <2>2. CASE RollsBack(n)
      <3> DEFINE a == [voids[n] EXCEPT !.step = "undoing"]
                 w == held[voids[n].sale].void
                 v == IF w = n THEN NoVoid ELSE w
      <3>1. a \in Attempt /\ a.sale = voids[n].sale /\ a.alone = voids[n].alone /\ a.step = "undoing"
        BY <1>1 DEF Attempt
      <3>2. w \in Marks
        BY <1>1 DEF FindTypeOK, HeldRow, Attempt
      <3>3. v \in Marks
        BY <3>2, MarkTypes
      <3>4. held' = [held EXCEPT ![voids[n].sale].void = v] /\ voids' = [voids EXCEPT ![n] = a]
            /\ Handling(voids[n])
        BY <2>2 DEF RollsBack, Handling
      <3>5. ~Stays(a)
        BY <3>1 DEF Stays
      <3> HIDE DEF v, a, w
      <3> QED
        BY <3>1, <3>3, <3>4, <3>5
    <2>3. CASE Restamps(n)
      <3>1. voids' = [voids EXCEPT ![n] = voids[n]]
        <4>1. voids' = voids
          BY <2>3 DEF Restamps
        <4> QED
          BY <1>1, <4>1 DEF FindTypeOK
      <3> QED
        BY <1>1, <2>3, <3>1 DEF Restamps
    <2> QED
      BY <2>1, <2>2, <2>3
  <1>4. PICK v \in Marks, a \in Attempt :
           /\ held' = [held EXCEPT ![voids[n].sale].void = v]
           /\ voids' = [voids EXCEPT ![n] = a]
           /\ a.sale = voids[n].sale /\ a.alone = voids[n].alone
           /\ Handling(a) => Handling(voids[n])
           /\ v = NoVoid => Handling(voids[n]) /\ ~Stays(a)
    BY <1>3
  <1>5. /\ \E k \in Nat : voids' \in [1..k -> Attempt]
        /\ DOMAIN voids' = DOMAIN voids /\ voids'[n] = a
        /\ \A m \in DOMAIN voids : m # n => voids'[m] = voids[m]
    BY <1>1, <1>4, AttemptType
  <1>6. \A m \in DOMAIN voids :
             /\ voids'[m].sale = voids[m].sale /\ voids'[m].alone = voids[m].alone
             /\ Handling(voids'[m]) => Handling(voids[m])
             /\ m # n => (Stays(voids'[m]) => Stays(voids[m]))
    BY <1>4, <1>5
  <1>7. VoidInv' /\ held' \in [Sales -> HeldRow] /\ \A s \in Sales : held'[s].at = held[s].at
    <2>1. v = NoVoid => Handling(voids[n]) /\ ~Stays(voids'[n])
      BY <1>4, <1>5
    <2>2. DOMAIN voids' = DOMAIN voids /\ UNCHANGED <<screen, crossed>>
          /\ held' = [held EXCEPT ![voids[n].sale].void = v]
      BY <1>2, <1>4, <1>5
    <2> QED
      BY <1>1, <1>6, <2>1, <2>2, MarkMoves
  <1>8. FindTypeOK'
    BY <1>1, <1>2, <1>5, <1>7 DEF FindTypeOK
  <1> QED
    BY <1>2, <1>7, <1>8, RecordsStay

(* The other steps of an attempt that leave the screen where it is. *)
LEMMA AttemptHolds ==
  ASSUME SearchInv, NEW n \in DOMAIN voids,
         \/ MarkFails(n) \/ VoidPosted(n) \/ MarkRefused(n) \/ DrainLists(n) \/ DrainSends(n)
         \/ DrainSynced(n) \/ DrainFailed(n) \/ DrainRefused(n)
  PROVE  SearchInv'
  <1>1. voids[n] \in Attempt /\ n \in Marks /\ FindTypeOK /\ VoidInv
    BY OneAttempt DEF SearchInv
  <1>2. UNCHANGED <<held, shift, screen, find, lookups, crossed>>
    BY DEF MarkFails, VoidPosted, MarkRefused, DrainLists, DrainSends, DrainSynced, DrainFailed,
           DrainRefused, DrainEnds
  <1>3. served' \in [Sales -> HeldRow]
    <2>1. CASE VoidPosted(n)
      BY <1>1, <2>1 DEF VoidPosted, FindTypeOK, HeldRow, Attempt
    <2>2. CASE ~VoidPosted(n)
      BY <1>1, <2>2 DEF MarkFails, MarkRefused, DrainLists, DrainSends, DrainSynced, DrainFailed,
           DrainRefused, DrainEnds, FindTypeOK
    <2> QED
      BY <2>1, <2>2
  <1>4. \E a \in Attempt :
           /\ voids' = [voids EXCEPT ![n] = a]
           /\ a.sale = voids[n].sale /\ a.alone = voids[n].alone
           /\ a.step = voids[n].step \/ a.step = "unmarked"
    <2>1. CASE MarkFails(n) \/ MarkRefused(n)
      <3> DEFINE F == [voids[n] EXCEPT !.step = "unmarked", !.heard = FALSE]
                 R == [voids[n] EXCEPT !.step = "unmarked", !.status = "refused", !.heard = FALSE]
      <3>1. F \in Attempt /\ F.sale = voids[n].sale /\ F.alone = voids[n].alone /\ F.step = "unmarked"
        BY <1>1 DEF Attempt
      <3>2. R \in Attempt /\ R.sale = voids[n].sale /\ R.alone = voids[n].alone /\ R.step = "unmarked"
        BY <1>1 DEF Attempt
      <3>3. voids' = [voids EXCEPT ![n] = F] \/ voids' = [voids EXCEPT ![n] = R]
        BY <1>1, <2>1 DEF MarkFails, MarkRefused, FindTypeOK
      <3> HIDE DEF F, R
      <3> QED
        BY <3>1, <3>2, <3>3
    <2>2. CASE DrainSends(n) \/ DrainSynced(n) \/ DrainFailed(n) \/ DrainRefused(n)
      <3>1. PICK st \in {"queued", "synced", "refused"} : voids' = [voids EXCEPT ![n].status = st]
        BY <2>2 DEF DrainSends, DrainSynced, DrainFailed, DrainRefused, DrainEnds
      <3> DEFINE a == [voids[n] EXCEPT !.status = st]
      <3>2. a \in Attempt /\ a.sale = voids[n].sale /\ a.alone = voids[n].alone /\ a.step = voids[n].step
        BY <1>1 DEF Attempt
      <3> QED
        BY <3>1, <3>2
    <2>3. CASE VoidPosted(n) \/ DrainLists(n)
      <3>1. voids' = voids
        BY <2>3 DEF VoidPosted, DrainLists
      <3>2. voids' = [voids EXCEPT ![n] = voids[n]]
        BY <1>1, <3>1 DEF FindTypeOK
      <3> QED
        BY <1>1, <3>2
    <2> QED
      BY <2>1, <2>2, <2>3
  <1>5. PICK a \in Attempt :
           /\ voids' = [voids EXCEPT ![n] = a]
           /\ a.sale = voids[n].sale /\ a.alone = voids[n].alone
           /\ a.step = voids[n].step \/ a.step = "unmarked"
    BY <1>4
  <1>6. /\ \E k \in Nat : voids' \in [1..k -> Attempt]
        /\ DOMAIN voids' = DOMAIN voids /\ voids'[n] = a
        /\ \A m \in DOMAIN voids : m # n => voids'[m] = voids[m]
    BY <1>1, <1>5, AttemptType
  <1>7. \A m \in DOMAIN voids :
             /\ voids'[m].sale = voids[m].sale /\ voids'[m].alone = voids[m].alone
             /\ Handling(voids'[m]) => Handling(voids[m])
             /\ Stays(voids'[m]) => Stays(voids[m])
    BY <1>5, <1>6 DEF Handling, Stays
  <1>8. OnVoid' => screen'.sale \in Rows \cap Here
    BY <1>1, <1>2 DEF VoidInv, VoidsHeld, OnVoid
  <1>9. VoidInv'
    BY <1>1, <1>2, <1>6, <1>7, <1>8, AttemptsGoOn
  <1>10. FindTypeOK'
    BY <1>1, <1>2, <1>3, <1>6 DEF FindTypeOK
  <1> QED
    BY <1>2, <1>9, <1>10, RecordsStay

LEMMA CloseShiftHolds ==
  ASSUME SearchInv, CloseShift
  PROVE  SearchInv'
  <1>1. UNCHANGED <<held, served, voids, draining, screen, find, lookups, crossed>> /\ shift' = FALSE
    BY DEF CloseShift
  <1>2. FindTypeOK'
    BY <1>1 DEF SearchInv, FindTypeOK
  <1> QED
    BY <1>1, <1>2, RecordsStay, VoidsUntouched

-----------------------------------------------------------------------------

(* The lookup reads nothing new, or the till's own database. *)
LEMMA LocalReadHolds ==
  ASSUME SearchInv, NEW n \in DOMAIN lookups, LocalRead(n)
  PROVE  SearchInv'
  <1>1. /\ UNCHANGED <<held, served, voids, draining, shift, screen, crossed>> /\ UnderWay(lookups[n])
        /\ lookups[n] \in Lookup
    BY LookupType DEF LocalRead, UnderWay, records, SearchInv
  <1>2. Rows' = Rows /\ MarkStays' /\ held' \in [Sales -> HeldRow]
        /\ LocalMatches(lookups[n].code) = {s \in Rows \cap Here : CodeOf[s] = lookups[n].code}
    BY <1>1 DEF Rows, SearchInv, VoidInv, MarkStays, FindTypeOK, LocalMatches
  <1>3. CASE LocalMatches(lookups[n].code) = {} /\ GoesOn(n, "missed")
    <2>1. PICK l \in Lookup :
             /\ l.code = lookups[n].code /\ l.step = "missed"
             /\ lookups' = [lookups EXCEPT ![n] = l] /\ find' = find
      <3>1. [lookups[n] EXCEPT !.step = "missed"] \in Lookup
        BY <1>1 DEF Lookup
      <3> QED
        BY <1>1, <1>3, <3>1 DEF Lookup, GoesOn
    <2>2. LocalMatches(l.code)' = {}
      BY <1>2, <1>3, <2>1 DEF LocalMatches
    <2> QED
      BY <1>1, <1>2, <2>1, <2>2, LookupGoesOn
  <1>4. CASE \E s \in LocalMatches(lookups[n].code) : Ends(n, "found", s)
    <2> DEFINE l == Over(lookups[n])
    <2>1. /\ l \in Lookup /\ l.code = lookups[n].code /\ l.step = "over"
          /\ lookups' = [lookups EXCEPT ![n] = l]
      BY <1>1, <1>4, MarkTypes DEF Lookup, Ends, Over
    <2>2. \/ find' = find
          \/ find'.kind = "found" => find'.sale \in Rows' \cap Here /\ CodeOf[find'.sale] = l.code
      BY <1>2, <1>4, <2>1 DEF Ends
    <2> HIDE DEF l
    <2> QED
      BY <1>1, <1>2, <2>1, <2>2, LookupGoesOn
  <1> QED
    BY <1>3, <1>4 DEF LocalRead

(* The lookup ends without a sale. *)
LEMMA DeadEndHolds ==
  ASSUME SearchInv, NEW n \in DOMAIN lookups,
         Offline(n) \/ ServerMisses(n) \/ LookupFails(n) \/ BodyCut(n)
  PROVE  SearchInv'
  <1> DEFINE l == Over(lookups[n])
  <1>1. /\ UNCHANGED <<held, served, voids, draining, shift, screen, crossed>> /\ UnderWay(lookups[n])
        /\ lookups[n] \in Lookup
    BY LookupType
    DEF Offline, ServerMisses, LookupFails, BodyCut, UnderWay, records, SearchInv
  <1>2. Rows' = Rows /\ MarkStays' /\ held' \in [Sales -> HeldRow]
    BY <1>1 DEF Rows, SearchInv, VoidInv, MarkStays, FindTypeOK
  <1>3. /\ l \in Lookup /\ l.code = lookups[n].code /\ l.step = "over"
    BY <1>1, MarkTypes DEF Lookup, Over
  <1>4. /\ lookups' = [lookups EXCEPT ![n] = l]
        /\ find' = find \/ find'.kind # "found"
    BY DEF Offline, ServerMisses, LookupFails, BodyCut, Caught, Ends, Throws
  <1> HIDE DEF l
  <1> QED
    BY <1>1, <1>2, <1>3, <1>4, LookupGoesOn

(* The lookup asks the server and hears from it. *)
LEMMA ServerAskedHolds ==
  ASSUME SearchInv, NEW n \in DOMAIN lookups, AsksServer(n) \/ ServerFinds(n) \/ UpsertReads(n)
  PROVE  SearchInv'
  <1>1. /\ UNCHANGED <<held, served, voids, draining, shift, screen, find, crossed>>
        /\ UnderWay(lookups[n]) /\ lookups[n].step \in {"missed", "asked", "answered"}
        /\ lookups[n] \in Lookup
    <2>1. lookups[n] \in Lookup
      BY LookupType DEF SearchInv
    <2>2. CASE AsksServer(n)
      <3>1. /\ lookups[n].step = "missed"
            /\ UNCHANGED <<records, screen, find, crossed>>
        BY <2>2, ZenonT(30) DEF AsksServer, GoesOn
      <3>2. UNCHANGED <<held, served, voids, draining, shift>>
        BY <3>1, ZenonT(30) DEF records
      <3>3. UnderWay(lookups[n])
        BY <3>1, ZenonT(30) DEF UnderWay
      <3> QED
        BY <2>1, <3>1, <3>2, <3>3, ZenonT(30)
    <2>3. CASE ServerFinds(n)
      BY <2>1, <2>3 DEF ServerFinds, UnderWay, records
    <2>4. CASE UpsertReads(n)
      BY <2>1, <2>4 DEF UpsertReads, UnderWay, records
    <2> QED
      BY <2>2, <2>3, <2>4
  <1>2. Rows' = Rows /\ MarkStays' /\ held' \in [Sales -> HeldRow]
        /\ served \in [Sales -> HeldRow] /\ Here \subseteq Sales
    BY <1>1, FindAssumption DEF Rows, SearchInv, VoidInv, MarkStays, FindTypeOK
  <1>3. PICK k \in Nat : lookups \in [1..k -> Lookup]
    BY DEF SearchInv, FindTypeOK
  <1>4. \E l \in Lookup :
           /\ lookups' = [lookups EXCEPT ![n] = l] /\ l.code = lookups[n].code
           /\ l.step \in {"asked", "answered", "read"}
           /\ l.step \in {"answered", "read"} =>
                /\ l.sale \in Here /\ CodeOf[l.sale] = l.code
                /\ l.step = "read" /\ l.at = "outbox" => l.sale \in Rows
    <2>1. CASE AsksServer(n)
      <3>1. [lookups[n] EXCEPT !.step = "asked"] \in Lookup
        BY <1>1 DEF Lookup
      <3> QED
        BY <1>1, <2>1, <3>1 DEF AsksServer, GoesOn, Lookup
    <2>2. CASE ServerFinds(n)
      <3>1. PICK s \in ServerMatches(lookups[n].code) :
              lookups' = [lookups EXCEPT ![n].step = "answered", ![n].sale = s,
                       ![n].void = served[s].void]
        BY <2>2, ZenonT(30) DEF ServerFinds
      <3>2. s \in Here /\ CodeOf[s] = lookups[n].code /\ s \in Sales
        BY <1>2, <3>1 DEF ServerMatches
      <3> DEFINE v == served[s].void
      <3>3. v \in Marks
        BY <1>2, <3>2 DEF HeldRow
      <3> DEFINE l == [lookups[n] EXCEPT !.step = "answered", !.sale = s, !.void = v]
      <3>4. lookups' = [lookups EXCEPT ![n] = l]
        BY <1>3, <3>1
      <3>5. l \in Lookup /\ l.code = lookups[n].code /\ l.step = "answered" /\ l.sale = s
        BY <1>1, <3>2, <3>3 DEF Lookup
      <3> QED
        BY <3>2, <3>4, <3>5
    <2>3. CASE UpsertReads(n)
      <3>1. /\ lookups[n].step = "answered"
            /\ lookups' = [lookups EXCEPT ![n].step = "read", ![n].at = held[lookups[n].sale].at]
        BY <2>3 DEF UpsertReads
      <3>2. lookups[n].sale \in Here /\ CodeOf[lookups[n].sale] = lookups[n].code
            /\ lookups[n].sale \in Sales
        BY <1>2, <3>1 DEF SearchInv, Brought
      <3> DEFINE a == held[lookups[n].sale].at
                 l == [lookups[n] EXCEPT !.step = "read", !.at = a]
      <3>3. a \in {"absent", "outbox", "synced"} /\ (a = "outbox" => lookups[n].sale \in Rows)
        BY <1>1, <1>2, <3>2 DEF HeldRow, Rows, SearchInv, FindTypeOK
      <3>4. lookups' = [lookups EXCEPT ![n] = l]
        BY <1>3, <3>1
      <3> HIDE DEF a
      <3>5. l \in Lookup /\ l.code = lookups[n].code /\ l.step = "read"
            /\ l.sale = lookups[n].sale /\ l.at = a
        BY <1>1, <3>2, <3>3 DEF Lookup
      <3> QED
        BY <3>2, <3>3, <3>4, <3>5
    <2> QED
      BY <2>1, <2>2, <2>3
  <1>5. PICK l \in Lookup :
           /\ lookups' = [lookups EXCEPT ![n] = l] /\ l.code = lookups[n].code
           /\ l.step \in {"asked", "answered", "read"}
           /\ l.step \in {"answered", "read"} =>
                /\ l.sale \in Here /\ CodeOf[l.sale] = l.code
                /\ l.step = "read" /\ l.at = "outbox" => l.sale \in Rows
    BY <1>4
  <1>6. ~crossed => LocalMatches(l.code)' = {}
    <2>1. ~crossed => LocalMatches(lookups[n].code) = {}
      BY <1>1 DEF SearchInv, OneAtATime, Missing
    <2> QED
      BY <1>2, <1>5, <2>1 DEF LocalMatches
  <1> QED
    BY <1>1, <1>2, <1>5, <1>6, LookupGoesOn

(* The sale the server knows becomes a row.  Unless two crossed, the till had *)
(* no such row, hence no void of it.                                          *)
LEMMA UpsertWritesHolds ==
  ASSUME SearchInv, NEW n \in DOMAIN lookups, UpsertWrites(n)
  PROVE  SearchInv'
  <1> DEFINE l == lookups[n]
             o == Over(lookups[n])
  <1>1. /\ UNCHANGED <<served, voids, draining, shift, screen, crossed>> /\ UnderWay(l)
        /\ l.step = "read" /\ l \in Lookup /\ Ends(n, "found", l.sale)
        /\ held' = [held EXCEPT ![l.sale] =
                      IF l.at = "outbox" THEN [held[l.sale] EXCEPT !.void = l.void] ELSE AsSynced(l)]
    BY LookupType DEF UpsertWrites, UnderWay, SearchInv
  <1>2. /\ l.sale \in Here /\ CodeOf[l.sale] = l.code /\ l.sale \in Sales
        /\ l.at = "outbox" => l.sale \in Rows
    BY <1>1, FindAssumption DEF SearchInv, Brought
  <1>3. o \in Lookup /\ o.code = l.code /\ o.step = "over"
    BY <1>1, MarkTypes DEF Lookup, Over
  <1>4. /\ lookups' = [lookups EXCEPT ![n] = o]
        /\ \/ find' = find
           \/ find'.sale = l.sale
    BY <1>1 DEF Ends
  <1>5. ~crossed => l.sale \notin Rows
    BY <1>1, <1>2 DEF SearchInv, OneAtATime, Missing, LocalMatches
  <1> HIDE DEF l, o
  <1>6. /\ held' \in [Sales -> HeldRow] /\ held'[l.sale].at # "absent"
        /\ \A s \in Sales : s # l.sale => held'[s] = held[s]
    <2>1. AsSynced(l) \in HeldRow /\ AsSynced(l).at = "synced"
      BY <1>1 DEF AsSynced, HeldRow, Lookup
    <2>2. held \in [Sales -> HeldRow] /\ (l.at = "outbox" => held[l.sale].at # "absent")
      BY <1>2 DEF SearchInv, FindTypeOK, Rows
    <2>3. /\ [held[l.sale] EXCEPT !.void = l.void] \in HeldRow
          /\ l.at = "outbox" => [held[l.sale] EXCEPT !.void = l.void].at # "absent"
      BY <1>1, <1>2, <2>2 DEF HeldRow, Lookup
    <2> QED
      BY <1>1, <1>2, <2>1, <2>2, <2>3
  <1>7. Rows' = Rows \union {l.sale}
    BY <1>2, <1>6 DEF Rows
  <1>8. MarkStays'
    BY <1>1, <1>2, <1>5, <1>6 DEF SearchInv, VoidInv, MarkStays, VoidsHeld, Rows
  <1> QED
    BY <1>1, <1>2, <1>3, <1>4, <1>6, <1>7, <1>8, LookupGoesOn DEF l

-----------------------------------------------------------------------------

(* A new lookup starts, and the earlier ones are over or it crosses them. *)
LEMMA SubmitHolds ==
  ASSUME SearchInv, NEW code \in Codes, Submit(code)
  PROVE  SearchInv'
  <1>1. PICK k \in Nat : lookups \in [1..k -> Lookup]
    BY DEF SearchInv, FindTypeOK
  <1>2. Cardinality(DOMAIN lookups) = k
    BY <1>1, LookupsCounted
  <1> DEFINE l == [step |-> "local", code |-> code, heard |-> TRUE,
                   sale |-> NoSale, void |-> NoVoid, at |-> "absent"]
  <1>3. /\ lookups' = [n \in 1..(k + 1) |-> IF n \in 1..k THEN lookups[n] ELSE l]
        /\ find'.kind = "searching"
        /\ crossed' = (crossed \/ \E n \in DOMAIN lookups : UnderWay(lookups[n]))
        /\ UNCHANGED <<held, served, voids, draining, shift, screen>>
    BY <1>1, <1>2 DEF Submit, records
  <1>4. l \in Lookup /\ l.step = "local"
    BY MarkTypes DEF Lookup
  <1> HIDE DEF l
  <1>5. /\ lookups' \in [1..(k + 1) -> Lookup] /\ lookups'[k + 1] = l /\ DOMAIN lookups' = 1..(k + 1)
        /\ \A n \in 1..k : lookups'[n] = lookups[n] /\ n # k + 1
        /\ \A n \in 1..(k + 1) : n \in 1..k \/ n = k + 1
    BY <1>1, <1>3, <1>4
  <1>6. Cardinality(DOMAIN lookups') = k + 1
    <2>1. k + 1 \in Int /\ 1 \in Int /\ (1 + k) - 1 + 1 = k + 1
      OBVIOUS
    <2> QED
      BY <1>5, <2>1, FS_Interval
  <1>7. FindTypeOK'
    <2>1. k + 1 \in Nat
      OBVIOUS
    <2>2. crossed' \in BOOLEAN
      BY <1>3 DEF SearchInv, FindTypeOK
    <2> QED
      BY <1>3, <1>5, <2>1, <2>2 DEF SearchInv, FindTypeOK
  <1>8. Brought'
    <2>1. Rows' = Rows
      BY <1>3 DEF Rows
    <2> QED
      BY <1>1, <1>4, <1>5, <2>1 DEF SearchInv, Brought
  <1>9. OneAtATime'
    <2> SUFFICES ASSUME ~crossed', NEW n \in DOMAIN lookups', UnderWay(lookups'[n])
                 PROVE  n = k + 1 /\ lookups'[n].step = "local"
      BY <1>6 DEF OneAtATime
    <2>1. n \notin 1..k
      BY <1>1, <1>3, <1>5
    <2> QED
      BY <1>4, <1>5, <2>1
  <1>10. VoidInv'
    BY <1>3 DEF SearchInv, VoidInv, VoidsHeld, AloneIsAlone, MarkStays, OnVoid, Rows
  <1>11. FoundIsAsked'
    BY <1>3 DEF FoundIsAsked
  <1> QED
    BY <1>7, <1>8, <1>9, <1>10, <1>11 DEF SearchInv

(* The form is reset. *)
LEMMA ResetHolds ==
  ASSUME SearchInv, ResetForm
  PROVE  SearchInv'
  <1>1. UNCHANGED <<held, served, voids, draining, shift, screen, lookups, crossed>> /\ find' = Idle
    BY DEF ResetForm, records
  <1>2. FindTypeOK' /\ Rows' = Rows
    BY <1>1 DEF SearchInv, FindTypeOK, Rows
  <1>3. Brought' /\ VoidInv'
    BY <1>1, <1>2, VoidsUntouched DEF SearchInv, Brought
  <1>4. OneAtATime'
    BY <1>1, <1>2 DEF SearchInv, OneAtATime, Missing, LocalMatches
  <1>5. FoundIsAsked'
    BY <1>1 DEF FoundIsAsked, Idle
  <1> QED
    BY <1>2, <1>3, <1>4, <1>5 DEF SearchInv

(* Another screen, or a new tab: the lookups and the attempts under way go    *)
(* on unheard, or end.                                                        *)
Screens == [at : {"find", "history", "void"}, sale : Sales \union {NoSale}, row : HeldRow,
            shift : BOOLEAN]

LEMMA LeaveHolds ==
  ASSUME SearchInv, UNCHANGED <<held, served, shift, crossed>>, find' = Idle, screen' \in Screens,
         screen'.at = "void" => screen'.sale \in Rows \cap Here,
         \E k \in Nat : lookups' \in [1..k -> Lookup], DOMAIN lookups' = DOMAIN lookups,
         \A n \in DOMAIN lookups :
             /\ lookups'[n].code = lookups[n].code
             /\ \/ lookups'[n].step = "over"
                \/ /\ lookups'[n].step = lookups[n].step
                   /\ lookups'[n].sale = lookups[n].sale /\ lookups'[n].at = lookups[n].at,
         \E k \in Nat : voids' \in [1..k -> Attempt], DOMAIN voids' = DOMAIN voids,
         \A n \in DOMAIN voids :
             /\ voids'[n].sale = voids[n].sale /\ voids'[n].alone = voids[n].alone
             /\ Handling(voids'[n]) => Handling(voids[n])
             /\ Stays(voids'[n]) => Stays(voids[n])
  PROVE  SearchInv'
  <1>1. FindTypeOK' /\ Rows' = Rows
    BY DEF SearchInv, FindTypeOK, Rows, Screens
  <1>2. Brought'
    BY <1>1 DEF SearchInv, Brought
  <1>3. VoidInv'
    <2>1. OnVoid' => screen'.sale \in Rows \cap Here
      BY DEF OnVoid
    <2> QED
      BY <2>1, AttemptsGoOn DEF SearchInv
  <1>4. OneAtATime'
    <2>1. \A n \in DOMAIN lookups :
             /\ Missing(n) => Missing(n)'
             /\ UnderWay(lookups'[n]) => UnderWay(lookups[n]) /\ lookups'[n].step = lookups[n].step
      BY <1>1 DEF Missing, LocalMatches, UnderWay
    <2> QED
      BY <2>1 DEF SearchInv, OneAtATime
  <1>5. FoundIsAsked'
    BY DEF FoundIsAsked, Idle
  <1> QED
    BY <1>1, <1>2, <1>3, <1>4, <1>5 DEF SearchInv

LEMMA UnheardLookup ==
  ASSUME NEW l \in Lookup
  PROVE  LET m == [l EXCEPT !.heard = FALSE]
         IN  m \in Lookup /\ m.step = l.step /\ m.code = l.code /\ m.sale = l.sale /\ m.at = l.at
  BY DEF Lookup

LEMMA UnheardAttempt ==
  ASSUME NEW v \in Attempt
  PROVE  LET m == [v EXCEPT !.heard = FALSE]
         IN  m \in Attempt /\ m.sale = v.sale /\ m.step = v.step /\ m.alone = v.alone
  BY DEF Attempt

LEMMA UnheardLookups ==
  ASSUME FindTypeOK, lookups' = Unheard(lookups)
  PROVE  /\ \E k \in Nat : lookups' \in [1..k -> Lookup]
         /\ DOMAIN lookups' = DOMAIN lookups
         /\ \A n \in DOMAIN lookups :
               /\ lookups'[n].step = lookups[n].step /\ lookups'[n].code = lookups[n].code
               /\ lookups'[n].sale = lookups[n].sale /\ lookups'[n].at = lookups[n].at
  <1> DEFINE Deaf(l) == [l EXCEPT !.heard = FALSE]
  <1>1. PICK k \in Nat : lookups \in [1..k -> Lookup]
    BY DEF FindTypeOK
  <1>2. lookups' = [n \in 1..k |-> Deaf(lookups[n])]
    BY <1>1 DEF Unheard
  <1>3. ASSUME NEW l \in Lookup
        PROVE  /\ Deaf(l) \in Lookup /\ Deaf(l).step = l.step /\ Deaf(l).code = l.code
               /\ Deaf(l).sale = l.sale /\ Deaf(l).at = l.at
    BY <1>3, UnheardLookup, ZenonT(30)
  <1> HIDE DEF Deaf
  <1>4. DOMAIN lookups = 1..k /\ \A n \in 1..k : lookups[n] \in Lookup
    BY <1>1
  <1>5. DOMAIN lookups' = 1..k /\ \A n \in 1..k : lookups'[n] = Deaf(lookups[n])
    BY <1>2
  <1>6. lookups' \in [1..k -> Lookup]
    BY <1>2, <1>3, <1>4
  <1> QED
    BY <1>3, <1>4, <1>5, <1>6

LEMMA UnheardAttempts ==
  ASSUME NEW f, NEW k \in Nat, f \in [1..k -> Attempt], voids' = Unheard(f)
  PROVE  /\ voids' \in [1..k -> Attempt]
         /\ \A n \in 1..k :
               /\ voids'[n].sale = f[n].sale /\ voids'[n].alone = f[n].alone
               /\ voids'[n].step = f[n].step
  <1> DEFINE Deaf(v) == [v EXCEPT !.heard = FALSE]
  <1>1. voids' = [n \in 1..k |-> Deaf(f[n])]
    BY DEF Unheard
  <1>2. ASSUME NEW v \in Attempt
        PROVE  /\ Deaf(v) \in Attempt /\ Deaf(v).step = v.step
               /\ Deaf(v).sale = v.sale /\ Deaf(v).alone = v.alone
    BY <1>2, UnheardAttempt, ZenonT(30)
  <1> HIDE DEF Deaf
  <1> QED
    BY <1>1, <1>2

LEMMA GoHolds ==
  ASSUME SearchInv, NEW there \in Screens, Go(there),
         there.at = "void" => there.sale \in Rows \cap Here
  PROVE  SearchInv'
  <1>1. /\ UNCHANGED <<held, served, shift, crossed>> /\ find' = Idle
        /\ screen' = there /\ lookups' = Unheard(lookups) /\ voids' = Unheard(voids)
    BY DEF Go, Opens
  <1>2. PICK k \in Nat : voids \in [1..k -> Attempt]
    BY DEF SearchInv, FindTypeOK
  <1>3. /\ voids' \in [1..k -> Attempt]
        /\ \A n \in 1..k :
               /\ voids'[n].sale = voids[n].sale /\ voids'[n].alone = voids[n].alone
               /\ voids'[n].step = voids[n].step
    BY <1>1, <1>2, UnheardAttempts
  <1>4. DOMAIN voids = 1..k /\ DOMAIN voids' = 1..k
    BY <1>2, <1>3
  <1>5. \A n \in DOMAIN voids :
             /\ voids'[n].sale = voids[n].sale /\ voids'[n].alone = voids[n].alone
             /\ Handling(voids'[n]) => Handling(voids[n])
             /\ Stays(voids'[n]) => Stays(voids[n])
    BY <1>3, <1>4 DEF Handling, Stays
  <1> QED
    BY <1>1, <1>3, <1>4, <1>5, UnheardLookups, LeaveHolds DEF SearchInv

LEMMA PlaceType ==
  ASSUME NEW p \in {"find", "history"}
  PROVE  At(p) \in Screens /\ At(p).at # "void"
  <1>1. Nothing \in HeldRow
    BY MarkTypes DEF Nothing, HeldRow
  <1> QED
    BY <1>1 DEF At, Screens

(* The handler of an attempt opens the receipt. *)
LEMMA EndsOnHolds ==
  ASSUME SearchInv, NEW n \in DOMAIN voids, VoidAnswered(n) \/ VoidLeftQueued(n)
  PROVE  SearchInv'
  <1>1. PICK k \in Nat : voids \in [1..k -> Attempt]
    BY DEF SearchInv, FindTypeOK
  <1>2. voids[n] \in Attempt /\ voids[n].step = "posting"
    BY <1>1 DEF VoidAnswered, VoidLeftQueued
  <1>3. PICK st \in {"queued", "synced", "refused"} : EndsOn(n, st)
    BY <1>2 DEF VoidAnswered, VoidLeftQueued, Attempt
  <1> DEFINE a == [voids[n] EXCEPT !.step = "over", !.status = st]
             f == [voids EXCEPT ![n] = a]
  <1>4. a \in Attempt /\ a.sale = voids[n].sale /\ a.alone = voids[n].alone /\ a.step = "over"
    BY <1>2 DEF Attempt
  <1>5. /\ UNCHANGED <<held, served, shift, crossed>> /\ find' = Idle
        /\ screen' = At("history") /\ lookups' = Unheard(lookups) /\ voids' = Unheard(f)
    BY <1>1, <1>3 DEF EndsOn, Opens
  <1> HIDE DEF a
  <1>6. f \in [1..k -> Attempt] /\ f[n] = a /\ \A m \in 1..k : m # n => f[m] = voids[m]
    BY <1>1, <1>4
  <1> HIDE DEF f
  <1>7. /\ voids' \in [1..k -> Attempt]
        /\ \A m \in 1..k :
               /\ voids'[m].sale = f[m].sale /\ voids'[m].alone = f[m].alone
               /\ voids'[m].step = f[m].step
    BY <1>5, <1>6, UnheardAttempts
  <1>8. DOMAIN voids = 1..k /\ DOMAIN voids' = 1..k
    BY <1>1, <1>7
  <1>9. \A m \in DOMAIN voids :
             /\ voids'[m].sale = voids[m].sale /\ voids'[m].alone = voids[m].alone
             /\ Handling(voids'[m]) => Handling(voids[m])
             /\ Stays(voids'[m]) => Stays(voids[m])
    BY <1>2, <1>4, <1>6, <1>7, <1>8 DEF Handling, Stays
  <1>10. screen' \in Screens /\ screen'.at # "void"
    BY <1>5, PlaceType
  <1> QED
    BY <1>5, <1>7, <1>8, <1>9, <1>10, UnheardLookups, LeaveHolds DEF SearchInv

(* The tab dies. *)
LEMMA TabLostHolds ==
  ASSUME SearchInv, TabLost
  PROVE  SearchInv'
  <1>1. PICK k \in Nat : lookups \in [1..k -> Lookup]
    BY DEF SearchInv, FindTypeOK
  <1>2. PICK j \in Nat : voids \in [1..j -> Attempt]
    BY DEF SearchInv, FindTypeOK
  <1> DEFINE Dead(v) == [v EXCEPT !.heard = FALSE,
                           !.step = IF @ \in {"marking", "undoing"} THEN "unmarked"
                                    ELSE IF @ = "posting" THEN "over" ELSE @]
  <1>3. /\ UNCHANGED <<held, served, shift, crossed>> /\ find' = Idle /\ screen' = At("find")
        /\ lookups' = [n \in 1..k |-> Over(lookups[n])]
        /\ voids' = [n \in 1..j |-> Dead(voids[n])]
    <2>1. DOMAIN lookups = 1..k /\ DOMAIN voids = 1..j
      BY <1>1, <1>2
    <2> QED
      BY <2>1, ZenonT(30) DEF TabLost
  <1>4. \A l \in Lookup : Over(l) \in Lookup /\ Over(l).code = l.code /\ Over(l).step = "over"
    BY MarkTypes DEF Over, Lookup
  <1>5. \A v \in Attempt :
           /\ Dead(v) \in Attempt /\ Dead(v).sale = v.sale /\ Dead(v).alone = v.alone
           /\ ~Handling(Dead(v)) /\ (Stays(Dead(v)) => Stays(v))
    <2> TAKE v \in Attempt
    <2> DEFINE st == IF v.step \in {"marking", "undoing"} THEN "unmarked"
                     ELSE IF v.step = "posting" THEN "over" ELSE v.step
    <2>1. st \in {"over", "unmarked"} /\ (st = "over" => v.step \in {"posting", "over"})
      BY DEF Attempt
    <2>2. Dead(v) = [v EXCEPT !.heard = FALSE, !.step = st]
      OBVIOUS
    <2> HIDE DEF st, Dead
    <2>3. [v EXCEPT !.heard = FALSE, !.step = st] \in Attempt
      BY <2>1 DEF Attempt
    <2>4. Dead(v).sale = v.sale /\ Dead(v).alone = v.alone /\ Dead(v).step = st
      BY <2>2 DEF Attempt
    <2> QED
      BY <2>1, <2>2, <2>3, <2>4 DEF Handling, Stays
  <1> HIDE DEF Dead
  <1>6. /\ lookups' \in [1..k -> Lookup] /\ DOMAIN lookups' = 1..k /\ DOMAIN lookups = 1..k
        /\ \A n \in 1..k : lookups'[n].code = lookups[n].code /\ lookups'[n].step = "over"
    BY <1>1, <1>3, <1>4
  <1>7. /\ voids' \in [1..j -> Attempt] /\ DOMAIN voids' = 1..j /\ DOMAIN voids = 1..j
        /\ \A n \in 1..j :
             /\ voids'[n].sale = voids[n].sale /\ voids'[n].alone = voids[n].alone
             /\ Handling(voids'[n]) => Handling(voids[n])
             /\ Stays(voids'[n]) => Stays(voids[n])
    BY <1>2, <1>3, <1>5
  <1>8. screen' \in Screens /\ screen'.at # "void"
    BY <1>3, PlaceType
  <1> QED
    BY <1>3, <1>6, <1>7, <1>8, LeaveHolds

LEMMA GoSomewhereHolds ==
  ASSUME SearchInv, GoFind \/ GoHistory \/ \E s \in Sales : GoVoid(s)
  PROVE  SearchInv'
  <1>1. CASE GoFind \/ GoHistory
    BY <1>1, PlaceType, GoHolds DEF GoFind, GoHistory
  <1>2. CASE \E s \in Sales : GoVoid(s)
    <2>1. PICK s \in Sales : GoVoid(s)
      BY <1>2
    <2> DEFINE there == [at |-> "void", sale |-> s, row |-> held[s], shift |-> shift]
    <2>2. s \in Rows \cap Here /\ Go(there)
      BY <2>1 DEF GoVoid
    <2>3. there \in Screens /\ there.sale = s
      BY DEF SearchInv, FindTypeOK, Screens
    <2> QED
      BY <2>2, <2>3, GoHolds
  <1> QED
    BY <1>1, <1>2

LEMMA FindStutters ==
  ASSUME SearchInv, UNCHANGED findVars
  PROVE  SearchInv'
  <1>1. UNCHANGED <<held, served, voids, draining, shift, screen, find, lookups, crossed>>
    BY DEF findVars
  <1>2. FindTypeOK'
    BY <1>1 DEF SearchInv, FindTypeOK
  <1> QED
    BY <1>1, <1>2, RecordsStay, VoidsUntouched

LEMMA FindStep == SearchInv /\ [FindNext]_findVars => SearchInv'
  <1> SUFFICES ASSUME SearchInv, [FindNext]_findVars PROVE SearchInv'
    OBVIOUS
  <1>1. ASSUME NEW s \in Sales,
               \/ Ring(s) \/ SiblingRings(s) \/ SiblingVoids(s) \/ SalePosted(s) \/ SaleAnswered(s)
        PROVE  SearchInv'
    BY <1>1, RingHolds, ServerHolds, SaleAnsweredHolds
  <1>2. CASE CloseShift \/ ResetForm \/ Void \/ TabLost
    BY <1>2, CloseShiftHolds, ResetHolds, VoidHolds, TabLostHolds
  <1>3. CASE GoFind \/ GoHistory \/ \E s \in Sales : GoVoid(s)
    BY <1>3, GoSomewhereHolds
  <1>4. CASE \E code \in {CodeOf[s] : s \in Sales} \union {WrongCode} : Submit(code)
    BY <1>4, SubmitHolds DEF Codes
  <1>5. CASE LookupStep
    BY <1>5, LocalReadHolds, DeadEndHolds, ServerAskedHolds, UpsertWritesHolds DEF LookupStep
  <1>6. CASE UNCHANGED findVars
    BY <1>6, FindStutters
  <1>7. CASE VoidStep
    BY <1>7, MarkHolds, AttemptHolds, EndsOnHolds DEF VoidStep
  <1> QED
    BY <1>1, <1>2, <1>3, <1>4, <1>5, <1>6, <1>7 DEF FindNext

LEMMA SearchInvariant == FindSpec => []SearchInv
  <1>1. FindInit => SearchInv
    BY FindInitHolds
  <1>2. SearchInv /\ [FindNext]_findVars => SearchInv'
    BY FindStep
  <1> QED
    BY <1>1, <1>2, PTL DEF FindSpec

(* The card never shows a sale the code asked for does not stand for, however *)
(* many searches were made, reset and answered late, unless two crossed.      *)
THEOREM CardIsAsked == FindSpec => []FoundIsAsked
  <1>1. SearchInv => FoundIsAsked
    BY DEF SearchInv
  <1> QED
    BY <1>1, SearchInvariant, PTL

(* No answer from the server and no other attempt takes the mark of this      *)
(* till's void from a row: from its second write until the screen takes it    *)
(* back, unless attempts of the sale mingled, two searches crossed, or a sale *)
(* was rung under one.                                                        *)
THEOREM VoidsStick == FindSpec => []VoidSticks
  <1>1. SearchInv => VoidSticks
    BY DEF SearchInv, VoidInv, MarkStays, Stays, VoidSticks
  <1> QED
    BY <1>1, SearchInvariant, PTL

=============================================================================

----------------------------- MODULE OfficeStore -----------------------------
(***************************************************************************)
(* The back office as an editor: the scaffold store, which every browser   *)
(* tab holds whole and writes whole to localStorage, the forms over it,    *)
(* the import of a catalog file, and the manual match of unmatched static  *)
(* QRIS tenders, which goes to the API.                                    *)
(*                                                                         *)
(* Abstractions.  A row of a slice other than items is as the seed has it, *)
(* or as it was saved, and its id is its place.  A file is read and parsed *)
(* to the drafts its rows hold or to an error of a row; what makes a row   *)
(* an error, save a repeated sku, is left out.  A form is modal over its   *)
(* route: what it holds is a value until it is saved, and nothing else     *)
(* writes in its tab meanwhile.  The user is an owner, and what the forms  *)
(* refuse is not saved.  Left out: the window of 30 days, and the items a  *)
(* recipe names.                                                           *)
(***************************************************************************)
EXTENDS Integers, Sequences, FiniteSets, SequencesExt

CONSTANTS
    Tabs,
    Skus, Values,
    Files,       \* per file its rows, [sku, value], value Bad if the row has an error
    Bad,
    Tenders,     \* the unmatched tenders of the seed
    Blank,
    Importers,   \* bound: the tabs that import, and those that use a form
    Editors,     \* other than the catalog's
    MaxWrites,   \* bound: writes of the stores
    MaxRows      \* bound: rows a slice grows to

ASSUME StoreAssumption ==
    /\ Skus # {} /\ Values # {} /\ Bad \notin Values /\ Blank \notin Tenders
    /\ \A f \in DOMAIN Files : Files[f] \in Seq([sku : Skus, value : Values \union {Bad}])
    /\ Blank \notin DOMAIN Files /\ {MaxWrites, MaxRows} \subseteq Nat

VARIABLES
    disk,      \* localStorage: [items, slice, unmatched]
    store,     \* per tab: its copy
    wizard,    \* per tab: [named, reading, parsed]: the file's name, the reads under way
    pending,   \* per tab: pendingId, the row whose button is disabled
    posted,    \* per tab: the posts under way, by tender
    matched,   \* the tenders the API has verified
    writes     \* bound

storeVars == <<disk, store, wizard, pending, posted, matched, writes>>

Slices == {"outlets", "boms", "staff", "codes", "devices", "merchant"}

Seed ==
    [items |-> <<[sku |-> CHOOSE k \in Skus : TRUE, value |-> CHOOSE v \in Values : TRUE]>>,
     slice |-> [s \in Slices |-> IF s = "codes" THEN <<>> ELSE <<"seeded">>],
     unmatched |-> Tenders]
NoFile == [named |-> Blank, reading |-> {}, parsed |-> Blank]

(* emit: the tab's whole state goes to the disk; no tab listens for storage. *)
Emit(t, state) ==
    /\ writes < MaxWrites /\ writes' = writes + 1
    /\ store' = [store EXCEPT ![t] = state]
    /\ disk' = state

(* load, hydrate *)
ReloadTab(t) ==
    /\ store' = [store EXCEPT ![t] = disk]
    /\ wizard' = [wizard EXCEPT ![t] = NoFile]
    /\ pending' = [pending EXCEPT ![t] = Blank]
    /\ posted' = [posted EXCEPT ![t] = {}]
    /\ UNCHANGED <<disk, matched, writes>>

(* Another route: a read is no longer heard, a post goes on. *)
LeaveRoute(t) ==
    /\ wizard' = [wizard EXCEPT ![t] = NoFile]
    /\ pending' = [pending EXCEPT ![t] = Blank]
    /\ UNCHANGED <<disk, store, posted, matched, writes>>

-----------------------------------------------------------------------------
(* The forms, and the buttons of their rows. *)

Slice(t, s) == store[t].slice[s]

(* createOutlet, createBom, ...: a row behind the others. *)
Adds(t, s) ==
    /\ Len(Slice(t, s)) < MaxRows
    /\ Emit(t, [store[t] EXCEPT !.slice[s] = Append(@, "saved")])

(* updateOutlet, updateBom, ...: the row of that id, as the form has it. *)
Edits(t, s) ==
    \E i \in DOMAIN Slice(t, s) : Emit(t, [store[t] EXCEPT !.slice[s][i] = "saved"])

(* A form is modal: nothing else of its tab changes. *)
NothingElse == UNCHANGED <<wizard, pending, posted, matched>>

OutletsScreen(t) == (Adds(t, "outlets") \/ Edits(t, "outlets")) /\ NothingElse

(* A code for the outlet of the row, or for the one the devices' form chose. *)
IssueCodeForm(t) == Slice(t, "outlets") # <<>> /\ Adds(t, "codes") /\ NothingElse

StaffScreen(t) == (Adds(t, "staff") \/ Edits(t, "staff")) /\ NothingElse

(* A recipe takes two items: the one it makes and its first component. *)
BomsScreen(t) ==
    /\ (Len(store[t].items) >= 2 /\ Adds(t, "boms")) \/ Edits(t, "boms")
    /\ NothingElse

(* Only a device that is active has the button. *)
RevokeDevice(t) ==
    /\ \E i \in DOMAIN Slice(t, "devices") :
         /\ Slice(t, "devices")[i] = "seeded"
         /\ Emit(t, [store[t] EXCEPT !.slice["devices"][i] = "revoked"])
    /\ NothingElse

(* The merchant has one row, whose legal name stays. *)
SettingsScreen(t) == Edits(t, "merchant") /\ NothingElse

(* A sku may be given to a second item. *)
CatalogScreen(t) ==
    /\ \E draft \in [sku : Skus, value : Values] :
         \/ /\ Len(store[t].items) < MaxRows
            /\ Emit(t, [store[t] EXCEPT !.items = Append(@, draft)])
         \/ \E i \in DOMAIN store[t].items : Emit(t, [store[t] EXCEPT !.items[i] = draft])
    /\ NothingElse

(* setItemActive: a button of the row. *)
SetItemActive(t) ==
    /\ \E i \in DOMAIN store[t].items, v \in Values :
         Emit(t, [store[t] EXCEPT !.items[i].value = v])
    /\ NothingElse

-----------------------------------------------------------------------------
(* The import of a file. *)

(* parseCsv: the rows that are skipped. *)
ErrorRows(rows) ==
    {i \in DOMAIN rows : rows[i].value = Bad \/ \E j \in 1..(i - 1) : rows[j].sku = rows[i].sku}

NoMatch(items, row) == 0  \* mutant: every row of a file is a new item

(* diffAgainstCatalog: the item a draft updates, the last of those that bear *)
(* its sku, or none.                                                         *)
MatchOf(items, row) ==
    LET bearing == {i \in DOMAIN items : items[i].sku = row.sku}
    IN IF bearing = {} THEN 0 ELSE CHOOSE i \in bearing : \A j \in bearing : j <= i

(* The n-th of a set of numbers. *)
Nth(N, n) == CHOOSE j \in N : Cardinality({i \in N : i <= j}) = n

(* bulkUpsertItems: the updates in place, the new items behind. *)
Upserted(items, rows) ==
    LET fresh == {j \in DOMAIN rows : MatchOf(items, rows[j]) = 0}
    IN [i \in DOMAIN items |->
            IF \E j \in DOMAIN rows : MatchOf(items, rows[j]) = i
            THEN rows[CHOOSE j \in DOMAIN rows : MatchOf(items, rows[j]) = i] ELSE items[i]]
       \o [n \in 1..Cardinality(fresh) |-> rows[Nth(fresh, n)]]

ChooseFile(t, f) ==
    /\ t \in Importers
    /\ wizard' = [wizard EXCEPT ![t].named = f, ![t].reading = @ \union {f}]
    /\ UNCHANGED <<disk, store, pending, posted, matched, writes>>

(* Reads end in any order, and the last to end is what is parsed. *)
FileRead(t, f) ==
    /\ f \in wizard[t].reading
    /\ wizard' = [wizard EXCEPT ![t].reading = @ \ {f}, ![t].parsed = f]
    /\ UNCHANGED <<disk, store, pending, posted, matched, writes>>

ReadFails(t, f) ==
    /\ f \in wizard[t].reading
    /\ wizard' = [wizard EXCEPT ![t].reading = @ \ {f}]
    /\ UNCHANGED <<disk, store, pending, posted, matched, writes>>

ResetWizard(t) ==
    /\ wizard[t].named # Blank
    /\ wizard' = [wizard EXCEPT ![t].named = Blank, ![t].parsed = Blank]
    /\ UNCHANGED <<disk, store, pending, posted, matched, writes>>

(* confirmImport: the button stays enabled after an import. *)
ConfirmImport(t) ==
    /\ wizard[t].parsed # Blank /\ wizard[t].named # Blank
    /\ LET rows == Files[wizard[t].parsed]
       IN /\ rows # <<>> /\ ErrorRows(rows) = {}
          /\ Emit(t, [store[t] EXCEPT !.items = Upserted(@, rows)])
    /\ UNCHANGED <<wizard, pending, posted, matched>>

-----------------------------------------------------------------------------
(* The manual match. *)

(* onMatch: only the row clicked last is disabled. *)
ClickMatch(t, x) ==
    /\ x \in store[t].unmatched /\ pending[t] # x
    /\ pending' = [pending EXCEPT ![t] = x]
    /\ posted' = [posted EXCEPT ![t] = @ \union {x}]
    /\ UNCHANGED <<disk, store, wizard, matched, writes>>

(* ReconciliationService.manualMatch commits. *)
ApiMatches(t, x) ==
    /\ x \in posted[t] /\ matched' = matched \union {x}
    /\ UNCHANGED <<disk, store, wizard, pending, posted, writes>>

Settles(t, x) ==
    /\ posted' = [posted EXCEPT ![t] = @ \ {x}]
    /\ pending' = [pending EXCEPT ![t] = Blank]

(* removeUnmatchedStaticTender *)
Removed(t, x) == Emit(t, [store[t] EXCEPT !.unmatched = @ \ {x}])

MatchAnswered(t, x) ==
    /\ x \in posted[t] /\ x \in matched
    /\ Settles(t, x) /\ Removed(t, x)
    /\ UNCHANGED <<wizard, matched>>

RemovesAnyway(t, x) ==  \* mutant: the row goes whatever the answer
    Removed(t, x)

Stays(t, x) == UNCHANGED <<disk, store, writes>>

(* Refused, or the answer is lost. *)
MatchFails(t, x) ==
    /\ x \in posted[t]
    /\ Settles(t, x) /\ Stays(t, x)
    /\ UNCHANGED <<wizard, matched>>

-----------------------------------------------------------------------------
StoreInit ==
    /\ disk = Seed /\ store = [t \in Tabs |-> Seed]
    /\ wizard = [t \in Tabs |-> NoFile]
    /\ pending = [t \in Tabs |-> Blank] /\ posted = [t \in Tabs |-> {}]
    /\ matched = {} /\ writes = 0

StoreNext ==
    \E t \in Tabs :
        \/ ReloadTab(t) \/ LeaveRoute(t) \/ SetItemActive(t) \/ ResetWizard(t) \/ ConfirmImport(t)
        \/ /\ t \in Editors
           /\ \/ OutletsScreen(t) \/ IssueCodeForm(t) \/ StaffScreen(t) \/ BomsScreen(t)
              \/ RevokeDevice(t) \/ SettingsScreen(t)
        \/ CatalogScreen(t)
        \/ \E f \in DOMAIN Files : ChooseFile(t, f) \/ FileRead(t, f) \/ ReadFails(t, f)
        \/ \E x \in Tenders :
             ClickMatch(t, x) \/ ApiMatches(t, x) \/ MatchAnswered(t, x) \/ MatchFails(t, x)

-----------------------------------------------------------------------------
Bearing(items, sku) == {i \in DOMAIN items : items[i].sku = sku}

ImportLands(before, after, rows) ==
    LET named == {rows[i].sku : i \in DOMAIN rows}
    IN /\ \A i \in DOMAIN rows : \E j \in DOMAIN after : after[j] = rows[i]
       /\ \A k \in named : Cardinality(Bearing(after, k)) =
              IF Bearing(before, k) = {} THEN 1 ELSE Cardinality(Bearing(before, k))
       /\ \A i \in DOMAIN before : before[i].sku \notin named => after[i] = before[i]

(* An import lands whole and adds no rival: afterwards every row of the file *)
(* is an item, no sku the file names has more items than it had before or    *)
(* one, and the items of other skus are as they were; whatever the forms and *)
(* the other tab have made of the catalog, duplicate skus included, since    *)
(* the file was read.                                                        *)
ImportLandsWhole ==
    [][\A t \in Tabs : ConfirmImport(t) =>
          ImportLands(store[t].items, store'[t].items, Files[wizard[t].parsed])]_storeVars

(* A tender that is missing from any tab's list or from the disk has been    *)
(* verified at the API, whatever posts fail or cross and whichever tab       *)
(* overwrites the other's list.                                              *)
DroppedIsVerified ==
    \A s \in {disk} \union {store[t] : t \in Tabs} : Tenders \ s.unmatched \subseteq matched

(* settings.tsx has its draft follow what another tab saves; the store does  *)
(* not hear of it, and what a tab shows may be older than the disk.          *)
DraftNeverDrifts == \A t \in Tabs : store[t].slice = disk.slice

(* A tender's row takes one post at a time. *)
OnePostAtATime == [][\A t \in Tabs, x \in Tenders : ClickMatch(t, x) => x \notin posted[t]]_storeVars
=============================================================================

------------------------------ MODULE OfficeProofs ------------------------------
(***************************************************************************)
(* Theorems about the back office and the access to a till that its codes  *)
(* give, for any sales, filters, tabs, codes and timeouts: the screens     *)
(* show what was asked, walk the sales without missing one and agree on    *)
(* their figures; the store keeps what it was given; the devices of an     *)
(* outlet are its codes', and the idle lock locks in time and paces PINs.  *)
(***************************************************************************)
EXTENDS TillAccess, OfficeScreens, OfficeStore, Sums, SequenceTheorems, FiniteSetTheorems, TLAPS

-----------------------------------------------------------------------------
(* A settled screen shows what was asked *)

(* The two shapes of a request.                                              *)
IsRequest(r) == DOMAIN r \in {{"asked"}, {"asked", "since", "got"}}

(* Only a screen that reads loads, and what it loads is what the filters say;*)
(* when nothing loads it shows the answer to them, or an error and nothing.  *)
ReaderInv ==
    /\ load # Nothing => Reading /\ IsRequest(load) /\ load.asked = filters
    /\ Settled => (failed /\ loaded = Nothing) \/ loaded = filters

LEMMA RequestIsAsked ==
  ASSUME NEW sc, NEW f
  PROVE  IsRequest(Request(sc, f)) /\ Request(sc, f).asked = f
  BY DEF IsRequest, Request

LEMMA RequestIsSomething == \A r : IsRequest(r) => r # Nothing
  BY DEF IsRequest, Nothing

LEMMA FetchReads ==
  ASSUME NEW sc \in Screens, NEW f, Fetches(sc, f), screen' = sc, filters' = f
  PROVE  ReaderInv'
  <1>1. CASE load' = Nothing /\ loaded' = f
    BY <1>1 DEF ReaderInv, Settled
  <1>2. CASE load' = Request(sc, f)
    <2>1. IsRequest(load') /\ load'.asked = f /\ load' # Nothing
      BY <1>2, RequestIsAsked, RequestIsSomething
    <2> QED
      BY <2>1 DEF ReaderInv, Settled, Reading, IsRequest
  <1> QED
    BY <1>1, <1>2 DEF Fetches

LEMMA SetFiltersReads == ASSUME NEW f, SetFilters(f) PROVE ReaderInv'
  BY FetchReads DEF SetFilters, Refetch, Reading

LEMMA RenderReads ==
  ASSUME NEW sc \in Screens, NEW r, Render(sc, r)
  PROVE  ReaderInv'
  <1>1. ASSUME NEW o \in {"out", "forbidden"}, Leave(o) PROVE ReaderInv'
    BY <1>1 DEF Leave, ReaderInv, Settled, Reading, Screens
  <1>2. CASE Mount(sc)
    <2>1. load' = Request(sc, filters') /\ screen' = sc
      BY <1>2 DEF Mount
    <2>2. IsRequest(load') /\ load'.asked = filters' /\ load' # Nothing
      BY <2>1, RequestIsAsked, RequestIsSomething
    <2> QED
      BY <2>1, <2>2 DEF ReaderInv, Settled, Reading, IsRequest
  <1> QED
    BY <1>1, <1>2 DEF Render

LEMMA PageReads == ASSUME ReaderInv, NEW b, BucketPage(b) PROVE ReaderInv'
  <1>1. load # Nothing /\ IsRequest(load) /\ load.asked = filters /\ Reading
    BY DEF BucketPage, ReaderInv
  <1>2. PICK g : load' = [load EXCEPT !.got = g]
    BY DEF BucketPage
  <1>3. DOMAIN load' = DOMAIN load /\ load'.asked = load.asked
    BY <1>1, <1>2 DEF IsRequest
  <1>4. IsRequest(load') /\ load' # Nothing
    BY <1>1, <1>3, RequestIsSomething DEF IsRequest
  <1>5. Reading' /\ filters' = filters
    BY <1>1 DEF BucketPage, Reading
  <1> QED
    BY <1>1, <1>3, <1>4, <1>5 DEF ReaderInv, Settled, IsRequest

LEMMA AnswerReads == ASSUME ReaderInv, load # Nothing, Answered PROVE ReaderInv'
  BY DEF ReaderInv, Answered, Settled, Reading

LEMMA AnswersRead == ASSUME ReaderInv, Answers PROVE ReaderInv'
  <1>1. CASE LoadFails
    BY <1>1 DEF LoadFails, ReaderInv, Settled, Reading
  <1>2. CASE SalesAnswered \/ DashboardAnswered \/ CashierDayAnswered
    BY <1>2, AnswerReads DEF SalesAnswered, DashboardAnswered, CashierDayAnswered
  <1>3. ASSUME NEW b \in Outlets \X Dates, BucketPage(b) PROVE ReaderInv'
    BY <1>3, PageReads
  <1> QED
    BY <1>1, <1>2, <1>3 DEF Answers

LEMMA FiltersRead ==
  ASSUME ReaderInv, NEW sc \in Scopes, SetScope(sc) \/ SetDates \/ SetOutlet \/ ClearFilters
  PROVE  ReaderInv'
  <1>1. CASE SetScope(sc)
    <2>1. CASE UNCHANGED <<world, screen, filters, load, loaded, failed>>
      BY <2>1 DEF ReaderInv, Settled, Reading, IsRequest
    <2> QED
      BY <1>1, <2>1, SetFiltersReads DEF SetScope
  <1>2. CASE SetDates
    BY <1>2, SetFiltersReads DEF SetDates
  <1>3. CASE SetOutlet
    BY <1>3, SetFiltersReads DEF SetOutlet
  <1>4. CASE ClearFilters
    BY <1>4, SetFiltersReads DEF ClearFilters
  <1> QED
    BY <1>1, <1>2, <1>3, <1>4

LEMMA ShellReads ==
  ASSUME ReaderInv, NEW sc \in Screens, NEW r,
         LoginFails \/ Logout \/ Navigate(sc, r) \/ \E ok, tooMany \in BOOLEAN : Login(r, ok, tooMany)
  PROVE  ReaderInv'
  <1>1. CASE LoginFails
    BY <1>1 DEF LoginFails, ReaderInv, Settled, Reading, Screens, IsRequest
  <1>2. CASE Logout
    BY <1>2 DEF Logout, Leave, ReaderInv, Settled, Reading, Screens
  <1>3. CASE Navigate(sc, r)
    BY <1>3, RenderReads DEF Navigate
  <1>4. CASE \E ok, tooMany \in BOOLEAN : Login(r, ok, tooMany)
    <2>1. Render("dashboard", r) /\ "dashboard" \in Screens
      BY <1>4 DEF Login, Screens
    <2> QED
      BY <2>1, RenderReads
  <1> QED
    BY <1>1, <1>2, <1>3, <1>4

LEMMA ReaderNext == ASSUME ReaderInv, [ScreensNext]_screensVars PROVE ReaderInv'
  <1>1. CASE UNCHANGED reader
    BY <1>1 DEF reader, ReaderInv, Settled, Reading, IsRequest
  <1>2. CASE Answers
    BY <1>2, AnswersRead
  <1>3. ASSUME NEW sc \in Scopes, SetScope(sc) PROVE ReaderInv'
    BY <1>3, FiltersRead
  <1>4. CASE SetDates \/ SetOutlet \/ ClearFilters
    <2>1. "today" \in Scopes
      BY DEF Scopes
    <2> QED
      BY <1>4, <2>1, FiltersRead
  <1>5. CASE LoginFails \/ Logout \/ \E r \in Roles \union {NoRole}, ok, tooMany \in BOOLEAN : Login(r, ok, tooMany)
    <2>1. "sales" \in Screens
      BY DEF Screens
    <2> QED
      BY <1>5, <2>1, ShellReads
  <1>6. ASSUME NEW sc \in Screens, NEW r \in Roles \union {NoRole}, Navigate(sc, r) PROVE ReaderInv'
    BY <1>6, ShellReads
  <1> QED
    BY <1>1, <1>2, <1>3, <1>4, <1>5, <1>6 DEF ScreensNext, screensVars, reader

(* A screen at rest shows the answer to the filters it shows, or an error,   *)
(* and offers the file of that report: a request is aborted with the filters *)
(* it was made for, whatever order filters, answers and routes come in.      *)
THEOREM SettledAsAsked == ScreensInit /\ [][ScreensNext]_screensVars => []SettledIsAsked
  <1>1. ScreensInit => ReaderInv
    BY DEF ScreensInit, ReaderInv, Settled, Reading, Screens
  <1>2. ReaderInv => SettledIsAsked
    BY DEF ReaderInv, SettledIsAsked, CsvLink
  <1> QED
    BY <1>1, <1>2, ReaderNext, PTL

-----------------------------------------------------------------------------
(* A tender dropped from a list is verified *)

IsState(s) == DOMAIN s = {"items", "slice", "unmatched"}
Honest(s) == IsState(s) /\ Tenders \ s.unmatched \subseteq matched

(* Every copy of the store, the disk's too, has dropped verified tenders only.*)
ListsInv == Honest(disk) /\ DOMAIN store = Tabs /\ \A t \in Tabs : Honest(store[t])

LEMMA EmitKeeps ==
  ASSUME ListsInv, NEW t \in Tabs, NEW state, Emit(t, state),
         IsState(state), Tenders \ state.unmatched \subseteq matched, UNCHANGED matched
  PROVE  ListsInv'
  BY DEF ListsInv, Honest, IsState, Emit

LEMMA FieldKept ==
  ASSUME NEW s, IsState(s), NEW x
  PROVE  /\ IsState([s EXCEPT !.slice = x]) /\ [s EXCEPT !.slice = x].unmatched = s.unmatched
         /\ IsState([s EXCEPT !.items = x]) /\ [s EXCEPT !.items = x].unmatched = s.unmatched
         /\ IsState([s EXCEPT !.unmatched = x]) /\ [s EXCEPT !.unmatched = x].unmatched = x
  BY DEF IsState

LEMMA FormsKeep ==
  ASSUME ListsInv, NEW t \in Tabs, UNCHANGED matched,
         \/ \E s : Adds(t, s) \/ Edits(t, s)
         \/ RevokeDevice(t) \/ CatalogScreen(t) \/ SetItemActive(t) \/ ConfirmImport(t)
  PROVE  ListsInv'
  <1>1. PICK x : Emit(t, [store[t] EXCEPT !.slice = x]) \/ Emit(t, [store[t] EXCEPT !.items = x])
    BY DEF Adds, Edits, RevokeDevice, CatalogScreen, SetItemActive, ConfirmImport
  <1>2. IsState(store[t]) /\ Tenders \ store[t].unmatched \subseteq matched
    BY DEF ListsInv, Honest
  <1> DEFINE a == [store[t] EXCEPT !.slice = x]
             b == [store[t] EXCEPT !.items = x]
  <1>3. IsState(a) /\ IsState(b) /\ a.unmatched = store[t].unmatched /\ b.unmatched = store[t].unmatched
    BY <1>2, FieldKept
  <1> HIDE DEF a, b
  <1> QED
    BY <1>1, <1>2, <1>3, EmitKeeps DEF a, b

LEMMA StoreNextKeeps == ASSUME ListsInv, [StoreNext]_storeVars PROVE ListsInv'
  <1>1. CASE UNCHANGED storeVars
    BY <1>1 DEF storeVars, ListsInv, Honest
  <1>2. ASSUME NEW t \in Tabs, ReloadTab(t) PROVE ListsInv'
    BY <1>2 DEF ReloadTab, ListsInv, Honest, IsState
  <1>3. ASSUME NEW t \in Tabs, UNCHANGED <<disk, store, matched>> PROVE ListsInv'
    BY <1>3 DEF ListsInv, Honest
  <1>4. ASSUME NEW t \in Tabs,
               \/ OutletsScreen(t) \/ IssueCodeForm(t) \/ StaffScreen(t) \/ BomsScreen(t)
               \/ RevokeDevice(t) \/ SettingsScreen(t) \/ CatalogScreen(t)
               \/ SetItemActive(t) \/ ConfirmImport(t)
        PROVE  ListsInv'
    BY <1>4, FormsKeep DEF OutletsScreen, IssueCodeForm, StaffScreen, BomsScreen, SettingsScreen,
       RevokeDevice, CatalogScreen, SetItemActive, ConfirmImport, NothingElse
  <1>5. ASSUME NEW t \in Tabs, NEW x, ApiMatches(t, x) PROVE ListsInv'
    BY <1>5 DEF ApiMatches, ListsInv, Honest, IsState
  <1>6. ASSUME NEW t \in Tabs, NEW x, MatchAnswered(t, x) PROVE ListsInv'
    <2>1. PICK y : y = store[t].unmatched \ {x}
      OBVIOUS
    <2>2. x \in matched /\ matched' = matched
          /\ Emit(t, [store[t] EXCEPT !.unmatched = y])
      BY <1>6, <2>1 DEF MatchAnswered, Removed
    <2>3. IsState(store[t]) /\ Tenders \ store[t].unmatched \subseteq matched
      BY DEF ListsInv, Honest
    <2> DEFINE a == [store[t] EXCEPT !.unmatched = y]
    <2>4. IsState(a) /\ a.unmatched = y
      BY <2>3, FieldKept
    <2> HIDE DEF a
    <2>5. Tenders \ a.unmatched \subseteq matched
      BY <2>1, <2>2, <2>3, <2>4
    <2> QED
      BY <2>2, <2>4, <2>5, EmitKeeps DEF a
  <1>7. ASSUME NEW t \in Tabs,
               \/ LeaveRoute(t) \/ ResetWizard(t)
               \/ \E f \in DOMAIN Files : ChooseFile(t, f) \/ FileRead(t, f) \/ ReadFails(t, f)
               \/ \E x \in Tenders : ClickMatch(t, x) \/ MatchFails(t, x)
        PROVE  UNCHANGED <<disk, store, matched>>
    BY <1>7 DEF LeaveRoute, ResetWizard, ChooseFile, FileRead, ReadFails, ClickMatch, MatchFails, Stays
  <1> QED
    BY <1>1, <1>2, <1>3, <1>4, <1>5, <1>6, <1>7 DEF StoreNext

(* A tender missing from a tab's list or from the disk is verified at the    *)
(* API, whatever posts fail or cross and whichever tab overwrites another's. *)
THEOREM DroppedVerified == StoreInit /\ [][StoreNext]_storeVars => []DroppedIsVerified
  <1>1. StoreInit => ListsInv
    BY DEF StoreInit, Seed, ListsInv, Honest, IsState
  <1>2. ListsInv => DroppedIsVerified
    BY DEF ListsInv, Honest, DroppedIsVerified
  <1> QED
    BY <1>1, <1>2, StoreNextKeeps, PTL

-----------------------------------------------------------------------------
(* Sums *)

(* What SumFunction evaluates.                                               *)
LEMMA SumUnfolds ==
  ASSUME NEW f
  PROVE  SumFunction(f) = (CHOOSE iter : SumLoop(iter, f, DOMAIN f))[DOMAIN f]
  BY DEF SumFunction, SumFunctionOnSet, FoldFunctionOnSet, MapThenFoldSet, SumLoop, Picked

(* Every loop of a function ends with the same sum.                          *)
LEMMA LoopsAgree ==
  ASSUME NEW S, IsFiniteSet(S), NEW f, NEW one, SumLoop(one, f, S), NEW two, SumLoop(two, f, S)
  PROVE  one[S] = two[S]
  <1> DEFINE Wrong(T) == one[T] # two[T]
             sizes == {n \in Nat : \E T \in SUBSET S : Cardinality(T) = n /\ Wrong(T)}
  <1> SUFFICES ASSUME Wrong(S) PROVE FALSE
    OBVIOUS
  <1>1. \A T \in SUBSET S : IsFiniteSet(T) /\ Cardinality(T) \in Nat
    BY FS_Subset, FS_CardinalityType
  <1>2. PICK n \in sizes : \A m \in sizes : n <= m
    <2>1. Cardinality(S) \in sizes
      BY <1>1
    <2> HIDE DEF sizes
    <2>2. sizes \subseteq Nat
      BY DEF sizes
    <2> QED
      BY <2>1, <2>2, LeastNumber
  <1>3. PICK T \in SUBSET S : Cardinality(T) = n /\ Wrong(T)
    OBVIOUS
  <1>4. T # {}
    BY <1>3 DEF SumLoop
  <1> DEFINE U == T \ {Picked(T)}
  <1>5. Picked(T) \in T /\ U \in SUBSET S
    BY <1>4 DEF Picked
  <1>6. Cardinality(U) = n - 1
    BY <1>1, <1>3, <1>5, FS_RemoveElement
  <1>7. ~Wrong(U)
    <2>1. Cardinality(U) \in Nat /\ n \in Nat
      BY <1>1, <1>5
    <2>2. Cardinality(U) \notin sizes
      <3>1. ~(n <= Cardinality(U))
        BY <1>6, <2>1
      <3> QED
        BY <1>2, <3>1, Zenon
    <2> QED
      BY <1>5, <2>1, <2>2
  <1>8. one[T] = f[Picked(T)] + one[U] /\ two[T] = f[Picked(T)] + two[U]
    BY <1>4 DEF SumLoop
  <1> QED
    BY <1>3, <1>7, <1>8

LEMMA SumCounts ==
  ASSUME NEW S, IsFiniteSet(S), NEW f \in [S -> Nat]
  PROVE  SumFunction(f) = Cardinality(Units(f, S)) /\ SumFunction(f) \in Nat
  <1>1. DOMAIN f = S
    OBVIOUS
  <1>2. SumLoop(CHOOSE iter : SumLoop(iter, f, S), f, S)
    <2>1. \E iter : SumLoop(iter, f, S)
      BY LoopExists
    <2> QED
      BY <2>1
  <1>3. SumFunction(f) = Cardinality(Units(f, S))
    BY <1>1, <1>2, SumUnfolds, LoopCounts
  <1> QED
    BY <1>3, UnitsFinite, FS_CardinalityType

(* A column of differences adds up to the difference of the sums.            *)
LEMMA SumOfDifferences ==
  ASSUME NEW S, IsFiniteSet(S), NEW f \in [S -> Nat], NEW g \in [S -> Nat],
         NEW h, h = [x \in S |-> f[x] - g[x]]
  PROVE  SumFunction(h) = SumFunction(f) - SumFunction(g)
  <1> DEFINE F(T) == Cardinality(Units(f, T))
             G(T) == Cardinality(Units(g, T))
             iter == [T \in SUBSET S |-> F(T) - G(T)]
  <1>1. ASSUME NEW T \in SUBSET S
        PROVE  F(T) \in Nat /\ G(T) \in Nat
    <2>1. Units(f, T) \subseteq Units(f, S) /\ Units(g, T) \subseteq Units(g, S)
      BY DEF Units
    <2>2. IsFiniteSet(Units(f, S)) /\ IsFiniteSet(Units(g, S))
      BY UnitsFinite
    <2> QED
      BY <2>1, <2>2, FS_Subset, FS_CardinalityType
  <1>2. ASSUME NEW T \in SUBSET S, T # {}
        PROVE  /\ F(T) = f[Picked(T)] + F(T \ {Picked(T)})
               /\ G(T) = g[Picked(T)] + G(T \ {Picked(T)})
    BY <1>2, LoopStep
  <1>3. F({}) = 0 /\ G({}) = 0
    <2>1. Units(f, {}) = {} /\ Units(g, {}) = {}
      BY DEF Units
    <2> QED
      BY <2>1, FS_EmptySet
  <1> HIDE DEF F, G
  <1>4. SumLoop(iter, h, S)
    <2>1. ASSUME NEW T \in SUBSET S, T # {}
          PROVE  F(T) - G(T) = h[Picked(T)] + iter[T \ {Picked(T)}]
      <3>1. Picked(T) \in S /\ T \ {Picked(T)} \in SUBSET S
        BY <2>1 DEF Picked
      <3>2. f[Picked(T)] \in Nat /\ g[Picked(T)] \in Nat /\ h[Picked(T)] = f[Picked(T)] - g[Picked(T)]
        BY <3>1
      <3> QED
        BY <1>1, <1>2, <2>1, <3>1, <3>2
    <2>2. \A T \in SUBSET S : iter[T] = F(T) - G(T)
      OBVIOUS
    <2>3. {} \in SUBSET S /\ iter[{}] = 0
      BY <1>3
    <2>4. \A T \in SUBSET S : iter[T] = IF T = {} THEN 0 ELSE h[Picked(T)] + iter[T \ {Picked(T)}]
      BY <2>1, <2>2, <2>3
    <2>5. iter = [T \in SUBSET S |-> iter[T]]
      OBVIOUS
    <2> HIDE DEF iter
    <2> QED
      BY <2>4, <2>5 DEF SumLoop
  <1>5. SumLoop(CHOOSE i : SumLoop(i, h, S), h, S)
    BY <1>4
  <1>6. DOMAIN h = S
    OBVIOUS
  <1>7. SumFunction(h) = iter[S]
    BY <1>4, <1>5, <1>6, SumUnfolds, LoopsAgree
  <1>8. SumFunction(f) = F(S) /\ SumFunction(g) = G(S)
    BY SumCounts DEF F, G
  <1> QED
    BY <1>7, <1>8

(* What the parts of a set add up to, added up, is what the set adds up to.  *)
LEMMA PartsAddUp ==
  ASSUME NEW S, IsFiniteSet(S), NEW f \in [S -> Nat], NEW K, IsFiniteSet(K),
         NEW part \in [K -> SUBSET S],
         \A j, k \in K : j # k => part[j] \cap part[k] = {},
         NEW g \in [K -> Nat], \A k \in K : g[k] = Cardinality(Units(f, part[k]))
  PROVE  SumFunction(g) = Cardinality(Units(f, UNION {part[k] : k \in K}))
  <1> DEFINE whole(L) == UNION {part[k] : k \in L}
             Wrong(L) == Cardinality(Units(g, L)) # Cardinality(Units(f, whole(L)))
             sizes == {n \in Nat : \E L \in SUBSET K : Cardinality(L) = n /\ Wrong(L)}
  <1> SUFFICES ASSUME Wrong(K) PROVE FALSE
    BY SumCounts
  <1>1. \A L \in SUBSET K : IsFiniteSet(L) /\ Cardinality(L) \in Nat
    BY FS_Subset, FS_CardinalityType
  <1>2. PICK n \in sizes : \A m \in sizes : n <= m
    <2>1. Cardinality(K) \in sizes
      BY <1>1
    <2> HIDE DEF sizes
    <2>2. sizes \subseteq Nat
      BY DEF sizes
    <2> QED
      BY <2>1, <2>2, LeastNumber
  <1>3. PICK L \in SUBSET K : Cardinality(L) = n /\ Wrong(L)
    OBVIOUS
  <1>4. L # {}
    <2>1. Units(g, {}) = {} /\ Units(f, whole({})) = {}
      BY DEF Units
    <2> QED
      BY <1>3, <2>1
  <1> DEFINE k == Picked(L)
             M == L \ {k}
  <1>5. k \in L /\ k \in K /\ M \in SUBSET K
    BY <1>3, <1>4 DEF Picked
  <1>6. Cardinality(M) = n - 1
    BY <1>1, <1>3, <1>5, FS_RemoveElement
  <1>7. ~Wrong(M)
    <2>1. Cardinality(M) \in Nat /\ n \in Nat
      BY <1>1, <1>5
    <2>2. Cardinality(M) \notin sizes
      <3>1. ~(n <= Cardinality(M))
        BY <1>6, <2>1
      <3> QED
        BY <1>2, <3>1, Zenon
    <2> QED
      BY <1>5, <2>1, <2>2
  <1>8. Cardinality(Units(g, L)) = g[k] + Cardinality(Units(g, M))
    BY <1>3, <1>4, LoopStep
  <1> HIDE DEF k, M
  <1>9. Units(f, whole(L)) = Units(f, part[k]) \cup Units(f, whole(M))
    <2>1. whole(L) = part[k] \cup whole(M)
      BY <1>5 DEF M
    <2> HIDE DEF whole
    <2> QED
      BY <2>1 DEF Units
  <1>10. Units(f, part[k]) \cap Units(f, whole(M)) = {}
    <2>1. part[k] \cap whole(M) = {}
      BY <1>5 DEF M
    <2> HIDE DEF whole
    <2> QED
      BY <2>1 DEF Units
  <1>11. IsFiniteSet(Units(f, part[k])) /\ IsFiniteSet(Units(f, whole(M)))
    <2>1. part[k] \subseteq S /\ whole(M) \subseteq S
      BY <1>5
    <2> HIDE DEF whole
    <2>2. Units(f, part[k]) \subseteq Units(f, S) /\ Units(f, whole(M)) \subseteq Units(f, S)
      BY <2>1 DEF Units
    <2> QED
      BY <2>2, UnitsFinite, FS_Subset
  <1>12. Cardinality(Units(f, whole(L)))
            = Cardinality(Units(f, part[k])) + Cardinality(Units(f, whole(M)))
    <2>1. Cardinality({}) = 0
      BY FS_EmptySet
    <2> DEFINE A == Units(f, part[k])
               B == Units(f, whole(M))
    <2>3. IsFiniteSet(A) /\ IsFiniteSet(B) /\ A \cap B = {}
      BY <1>10, <1>11
    <2> HIDE DEF A, B
    <2>4. Cardinality(A \cup B) = Cardinality(A) + Cardinality(B) - Cardinality(A \cap B)
      BY <2>3, FS_Union
    <2>5. Cardinality(A) \in Nat /\ Cardinality(B) \in Nat
      BY <2>3, FS_CardinalityType
    <2>6. Cardinality(A \cap B) = 0
      BY <2>1, <2>3
    <2>7. Cardinality(A \cup B) = Cardinality(A) + Cardinality(B)
      BY <2>4, <2>5, <2>6
    <2> QED
      BY <1>9, <2>7 DEF A, B
  <1> HIDE DEF whole
  <1> QED
    BY <1>3, <1>5, <1>7, <1>8, <1>12
-----------------------------------------------------------------------------
(* The reports agree *)

WorldInv == recorded \subseteq Sales

LEMMA WorldNext == ASSUME WorldInv, [ScreensNext]_screensVars PROVE WorldInv'
  <1>1. CASE UNCHANGED world
    BY <1>1 DEF world, WorldInv
  <1>2. CASE (\E s \in Sales : SaleArrives(s) \/ SaleVoided(s) \/ TenderVerified(s)) \/ NextDay
    BY <1>2 DEF SaleArrives, SaleVoided, TenderVerified, NextDay, WorldInv
  <1>3. ASSUME NEW sc, NEW r, Render(sc, r) PROVE UNCHANGED world
    BY <1>3 DEF Render, Leave, Mount
  <1>4. ASSUME NEW f, SetFilters(f) PROVE UNCHANGED world
    BY <1>4 DEF SetFilters
  <1>5. CASE Answers
    BY <1>1, <1>5 DEF Answers, BucketPage, SalesAnswered, DashboardAnswered, CashierDayAnswered,
       Answered, LoadFails
  <1>6. CASE \/ LoginFails \/ Logout
             \/ \E r \in Roles \union {NoRole}, ok, tooMany \in BOOLEAN : Login(r, ok, tooMany)
             \/ \E sc \in Screens, r \in Roles \union {NoRole} : Navigate(sc, r)
    <2>1. UNCHANGED world
      BY <1>3, <1>6 DEF LoginFails, Logout, Leave, Login, Navigate
    <2> QED
      BY <1>1, <2>1
  <1>7. CASE (\E sc \in Scopes : SetScope(sc)) \/ SetDates \/ SetOutlet \/ ClearFilters
    <2>1. UNCHANGED world
      BY <1>4, <1>7 DEF SetScope, SetDates, SetOutlet, ClearFilters
    <2> QED
      BY <1>1, <2>1
  <1> QED
    BY <1>1, <1>2, <1>5, <1>6, <1>7 DEF ScreensNext, screensVars

(* What a set of sales adds up to, of the totals or of what was handed over. *)
Worth(w, S) == SumFunction([s \in S |-> w[s]])

LEMMA WorthCounts ==
  ASSUME NEW w \in [Sales -> Nat], NEW S \in SUBSET Sales
  PROVE  /\ IsFiniteSet(S) /\ Worth(w, S) = Cardinality(Units(w, S)) /\ Worth(w, S) \in Nat
  <1> DEFINE f == [s \in S |-> w[s]]
  <1>1. IsFiniteSet(S) /\ f \in [S -> Nat]
    BY ConstantsAssumption, FS_Subset
  <1>2. Units(f, S) = Units(w, S)
    BY DEF Units
  <1> HIDE DEF f
  <1>3. Worth(w, S) = SumFunction(f)
    BY DEF Worth, f
  <1> QED
    BY <1>1, <1>2, <1>3, SumCounts

LEMMA Worths ==
  ASSUME NEW S
  PROVE  /\ Amount(S) = Worth(Total, S) /\ Taken(S) = Worth(Paid, S)
         /\ Total \in [Sales -> Nat] /\ Paid \in [Sales -> Nat]
  BY ConstantsAssumption DEF Amount, Taken, Worth

LEMMA AmountCounts ==
  ASSUME NEW S \in SUBSET Sales
  PROVE  /\ IsFiniteSet(S)
         /\ Amount(S) = Cardinality(Units(Total, S)) /\ Amount(S) \in Nat
         /\ Taken(S) = Cardinality(Units(Paid, S)) /\ Taken(S) \in Nat
  BY Worths, WorthCounts

(* A set of sales adds up to what its parts do.                              *)
LEMMA WorthOfParts ==
  ASSUME NEW w \in [Sales -> Nat],
         NEW S \in SUBSET Sales, NEW K, IsFiniteSet(K), NEW part \in [K -> SUBSET S],
         \A j, k \in K : j # k => part[j] \cap part[k] = {}, S = UNION {part[k] : k \in K}
  PROVE  SumFunction([k \in K |-> Worth(w, part[k])]) = Worth(w, S)
  <1> DEFINE g == [k \in K |-> Worth(w, part[k])]
  <1>1. g \in [K -> Nat] /\ \A k \in K : g[k] = Cardinality(Units(w, part[k]))
    BY WorthCounts
  <1>2. IsFiniteSet(Sales) /\ part \in [K -> SUBSET Sales]
    BY ConstantsAssumption
  <1> HIDE DEF g
  <1>3. SumFunction(g) = Cardinality(Units(w, UNION {part[k] : k \in K}))
    BY <1>1, <1>2, PartsAddUp
  <1> QED
    BY <1>3, WorthCounts DEF g

LEMMA WorthOfTwo ==
  ASSUME NEW w \in [Sales -> Nat],
         NEW S \in SUBSET Sales, NEW T \in SUBSET Sales, S \cap T = {}
  PROVE  Worth(w, S \union T) = Worth(w, S) + Worth(w, T)
  <1>1. /\ IsFiniteSet(S) /\ IsFiniteSet(T)
        /\ \A U \in SUBSET Sales : Worth(w, U) = Cardinality(Units(w, U))
    BY WorthCounts
  <1>2. /\ Units(w, S \union T) = Units(w, S) \union Units(w, T)
        /\ Units(w, S) \cap Units(w, T) = {}
    BY DEF Units
  <1>3. ASSUME NEW U \in SUBSET Sales
        PROVE  IsFiniteSet(Units(w, U))
    <2> DEFINE f == [s \in U |-> w[s]]
    <2>1. IsFiniteSet(U) /\ f \in [U -> Nat] /\ Units(f, U) = Units(w, U)
      BY WorthCounts DEF Units
    <2> HIDE DEF f
    <2> QED
      BY <2>1, UnitsFinite
  <1> DEFINE A == Units(w, S)
             B == Units(w, T)
  <1>4. IsFiniteSet(A) /\ IsFiniteSet(B)
    BY <1>3
  <1>5. Units(w, S \union T) = A \union B /\ A \cap B = {}
    BY <1>2
  <1>6. Worth(w, S) = Cardinality(A) /\ Worth(w, T) = Cardinality(B)
    BY <1>1
  <1>7. Worth(w, S \union T) = Cardinality(Units(w, S \union T))
    BY <1>1
  <1> HIDE DEF A, B
  <1>8. Cardinality(A \union B) = Cardinality(A) + Cardinality(B) - Cardinality(A \cap B)
    BY <1>4, FS_Union
  <1>9. Cardinality(A \cap B) = 0 /\ Cardinality(A) \in Nat /\ Cardinality(B) \in Nat
    BY <1>4, <1>5, FS_EmptySet, FS_CardinalityType
  <1>10. Cardinality(A \union B) = Cardinality(A) + Cardinality(B)
    BY <1>8, <1>9
  <1>11. Worth(w, S \union T) = Cardinality(A \union B)
    BY <1>5, <1>7, Zenon
  <1> QED
    BY <1>6, <1>10, <1>11

(* A set has as many sales as its parts.                                     *)
LEMMA CountOfParts ==
  ASSUME NEW S \in SUBSET Sales, NEW K, IsFiniteSet(K), NEW part \in [K -> SUBSET S],
         \A j, k \in K : j # k => part[j] \cap part[k] = {}, S = UNION {part[k] : k \in K}
  PROVE  SumFunction([k \in K |-> Cardinality(part[k])]) = Cardinality(S)
  <1> DEFINE one == [s \in Sales |-> 1]
             g == [k \in K |-> Cardinality(part[k])]
  <1>1. ASSUME NEW T \in SUBSET Sales
        PROVE  Cardinality(T) = Cardinality(Units(one, T)) /\ Cardinality(T) \in Nat
    <2>1. IsFiniteSet(T)
      BY ConstantsAssumption, FS_Subset
    <2> DEFINE b == [s \in T |-> <<s, 1>>]
    <2>2. Units(one, T) = {<<s, 1>> : s \in T}
      BY DEF Units
    <2>3. b \in Bijection(T, Units(one, T))
      BY <2>2 DEF Bijection, Injection, Surjection, IsInjective
    <2>4. ExistsBijection(T, Units(one, T))
      BY <2>3 DEF ExistsBijection
    <2> HIDE DEF one
    <2> QED
      BY <2>1, <2>4, FS_Bijection, FS_CardinalityType
  <1>2. IsFiniteSet(Sales) /\ one \in [Sales -> Nat] /\ part \in [K -> SUBSET Sales]
    BY ConstantsAssumption
  <1> HIDE DEF one
  <1>3. g \in [K -> Nat] /\ \A k \in K : g[k] = Cardinality(Units(one, part[k]))
    BY <1>1
  <1> HIDE DEF g
  <1>4. SumFunction(g) = Cardinality(Units(one, UNION {part[k] : k \in K}))
    BY <1>2, <1>3, PartsAddUp
  <1> QED
    BY <1>1, <1>4 DEF g

LEMMA AmountOfNone == Amount({}) = 0 /\ Taken({}) = 0
  <1>1. /\ Amount({}) = Cardinality(Units(Total, {})) /\ Units(Total, {}) = {}
        /\ Taken({}) = Cardinality(Units(Paid, {})) /\ Units(Paid, {}) = {}
    BY AmountCounts DEF Units
  <1> QED
    BY <1>1, FS_EmptySet

LEMMA ClerksAddUp ==
  ASSUME NEW S \in SUBSET Sales, NEW K, IsFiniteSet(K), \A s \in S : Clerk[s] \in K
  PROVE  /\ SumFunction([c \in K |-> Amount(Of(c, S))]) = Amount(S)
         /\ SumFunction([c \in K |-> Taken(Of(c, S))]) = Taken(S)
         /\ SumFunction([c \in K |-> Cardinality(Of(c, S))]) = Cardinality(S)
  <1> DEFINE part == [c \in K |-> Of(c, S)]
  <1>1. part \in [K -> SUBSET S] /\ \A j, k \in K : j # k => part[j] \cap part[k] = {}
    BY DEF Of
  <1>2. S = UNION {part[k] : k \in K}
    BY DEF Of
  <1>3. /\ [k \in K |-> Worth(Total, part[k])] = [c \in K |-> Amount(Of(c, S))]
        /\ [k \in K |-> Worth(Paid, part[k])] = [c \in K |-> Taken(Of(c, S))]
        /\ [k \in K |-> Cardinality(part[k])] = [c \in K |-> Cardinality(Of(c, S))]
    BY Worths
  <1> HIDE DEF part
  <1>4. \A w \in [Sales -> Nat] : SumFunction([k \in K |-> Worth(w, part[k])]) = Worth(w, S)
    BY <1>1, <1>2, WorthOfParts
  <1>5. SumFunction([k \in K |-> Cardinality(part[k])]) = Cardinality(S)
    BY <1>1, <1>2, CountOfParts
  <1> QED
    BY <1>3, <1>4, <1>5, Worths

By(m, S) == {s \in S : Method[s] = m}

LEMMA MethodsAddUp ==
  ASSUME NEW S \in SUBSET Sales, NEW M, IsFiniteSet(M)
  PROVE  SumFunction([m \in M |-> Taken(By(m, S))]) = Taken({s \in S : Method[s] \in M})
  <1> DEFINE T == {s \in S : Method[s] \in M}
             part == [m \in M |-> By(m, S)]
  <1>1. part \in [M -> SUBSET T] /\ \A j, k \in M : j # k => part[j] \cap part[k] = {}
    BY DEF By
  <1>2. T = UNION {part[m] : m \in M} /\ T \in SUBSET Sales
    BY DEF By
  <1>3. [k \in M |-> Worth(Paid, part[k])] = [m \in M |-> Taken(By(m, S))]
    BY Worths
  <1> HIDE DEF part, T
  <1>4. SumFunction([m \in M |-> Taken(By(m, S))]) = Taken(T)
    BY <1>1, <1>2, <1>3, WorthOfParts, Worths
  <1> QED
    BY <1>4 DEF T

Cash(S) == {s \in S : Method[s] = "cash"}

(* What is handed over exceeds what is sold by the change of the cash sales. *)
LEMMA ChangeAdds ==
  ASSUME NEW S \in SUBSET Sales
  PROVE  Taken(S) = Amount(S) + Change(Cash(S)) /\ Change(Cash(S)) \in Nat
  <1> DEFINE p == [s \in S |-> Paid[s]]
             t == [s \in S |-> Total[s]]
             over == [s \in S |-> p[s] - t[s]]
             left == [s \in Cash(S) |-> Paid[s] - Total[s]]
  <1>1. IsFiniteSet(S) /\ IsFiniteSet(Cash(S)) /\ Cash(S) \subseteq S
        /\ Amount(S) \in Nat /\ Taken(S) \in Nat
    BY AmountCounts DEF Cash
  <1>2. \A s \in S : /\ Paid[s] \in Nat /\ Total[s] \in Nat /\ Paid[s] - Total[s] \in Nat
                     /\ Method[s] # "cash" => Paid[s] - Total[s] = 0
    BY ConstantsAssumption
  <1>3. p \in [S -> Nat] /\ t \in [S -> Nat] /\ over \in [S -> Nat] /\ left \in [Cash(S) -> Nat]
    BY <1>1, <1>2
  <1>4. \A s \in S : over[s] = IF s \in Cash(S) THEN left[s] ELSE 0
    BY <1>2 DEF Cash
  <1>5. Taken(S) = SumFunction(p) /\ Amount(S) = SumFunction(t) /\ Change(Cash(S)) = SumFunction(left)
    BY DEF Taken, Amount, Change
  <1>6. over = [s \in S |-> p[s] - t[s]]
    OBVIOUS
  <1> HIDE DEF p, t, over, left
  <1>7. Units(over, S) = Units(left, Cash(S))
    <2>1. ASSUME NEW s \in S, NEW n \in Nat
          PROVE  (1 <= n /\ n <= over[s]) <=> (s \in Cash(S) /\ 1 <= n /\ n <= left[s])
      BY <1>4
    <2>2. \A u \in S \X Nat : (1 <= u[2] /\ u[2] <= over[u[1]])
                                <=> (u[1] \in Cash(S) /\ 1 <= u[2] /\ u[2] <= left[u[1]])
      BY <2>1
    <2> QED
      BY <1>1, <2>2 DEF Units
  <1>8. SumFunction(over) = SumFunction(left) /\ SumFunction(left) \in Nat
    BY <1>1, <1>3, <1>7, SumCounts
  <1>9. SumFunction(over) = SumFunction(p) - SumFunction(t)
    BY <1>1, <1>3, <1>6, SumOfDifferences
  <1> QED
    BY <1>1, <1>5, <1>8, <1>9

LEMMA NoChange ==
  ASSUME NEW S \in SUBSET Sales, \A s \in S : Method[s] # "cash"
  PROVE  Taken(S) = Amount(S)
  <1> DEFINE f == [s \in S |-> Paid[s]]
  <1>1. \A s \in S : Paid[s] = Total[s]
    BY ConstantsAssumption
  <1>2. f = [s \in S |-> Total[s]]
    BY <1>1
  <1> QED
    BY <1>2 DEF Taken, Amount

-----------------------------------------------------------------------------
(* The sales of an outlet and a date.                                        *)

LEMMA DaySales ==
  ASSUME WorldInv, NEW o, NEW d \in Dates
  PROVE  /\ LiveThisDay(o, d) \in SUBSET Sales /\ VoidThisDay(o, d) \in SUBSET Sales
         /\ Finalised({o}, d, d) = LiveThisDay(o, d)
  <1>1. \A s \in recorded : SoldOn[s] \in d .. d <=> SoldOn[s] = d
    <2>1. d \in Nat /\ \A s \in recorded : SoldOn[s] \in Nat
      BY ConstantsAssumption DEF WorldInv
    <2>2. \A n \in Nat : n \in d .. d <=> n = d
      BY <2>1
    <2> QED
      BY <2>1, <2>2
  <1> QED
    BY <1>1 DEF LiveThisDay, VoidThisDay, Finalised, Rung, WorldInv

LEMMA ClerksFinite ==
  ASSUME NEW S \in SUBSET Sales
  PROVE  IsFiniteSet({Clerk[s] : s \in S})
  <1> DEFINE K == {Clerk[s] : s \in S}
             f == [s \in S |-> Clerk[s]]
  <1>1. IsFiniteSet(S)
    BY AmountCounts
  <1>2. f \in Surjection(S, K)
    BY DEF Surjection
  <1> QED
    BY <1>1, <1>2, FS_Surjection

(* What the row of a cashier has of a tender, used or not.                   *)
PaidBy(f, m) == IF m \in DOMAIN f.mix THEN f.mix[m] ELSE 0

LEMMA PaidOfMix ==
  ASSUME NEW f, NEW S \in SUBSET Sales, f.mix = TenderMix(S), NEW m
  PROVE  PaidBy(f, m) = Taken(By(m, S))
  <1>1. CASE m \in {Method[s] : s \in S}
    BY <1>1 DEF PaidBy, TenderMix, By
  <1>2. CASE m \notin {Method[s] : s \in S}
    <2>1. By(m, S) = {}
      BY <1>2 DEF By
    <2> QED
      BY <1>2, <2>1, AmountOfNone DEF PaidBy, TenderMix
  <1> QED
    BY <1>1, <1>2

(* The rows by cashier.                                                      *)
LEMMA RowsOfDay ==
  ASSUME WorldInv, NEW o, NEW d \in Dates
  PROVE  LET R == CashierRows(o, d)
             L == LiveThisDay(o, d)
             V == VoidThisDay(o, d)
         IN /\ IsFiniteSet(DOMAIN R)
            /\ \A s \in L \union V : Clerk[s] \in DOMAIN R
            /\ DOMAIN R = {Clerk[s] : s \in L \union V}
            /\ \A c \in DOMAIN R :
                 /\ R[c].gross = Amount(Of(c, L)) /\ R[c].voided = Amount(Of(c, V))
                 /\ R[c].count = Cardinality(Of(c, L)) /\ R[c].mix = TenderMix(Of(c, L))
                 /\ R[c].net = Amount(Of(c, L)) - Amount(Of(c, V))
                 /\ R[c]["gross"] = R[c].gross /\ R[c]["voided"] = R[c].voided
                 /\ R[c]["count"] = R[c].count
  <1>1. LiveThisDay(o, d) \union VoidThisDay(o, d) \in SUBSET Sales
    BY DaySales
  <1> QED
    BY <1>1, ClerksFinite DEF CashierRows, Figures

(* The totals add up the rows: they are the figures of the day's sales.      *)
LEMMA TotalsOfDay ==
  ASSUME WorldInv, NEW o, NEW d \in Dates
  PROVE  LET R == CashierRows(o, d)
             T == CashierTotals(R)
             L == LiveThisDay(o, d)
             V == VoidThisDay(o, d)
         IN /\ T.gross = Amount(L) /\ T.voided = Amount(V) /\ T.count = Cardinality(L)
            /\ T.net = Amount(L) - Amount(V) /\ T.mix = TenderMix(L)
            /\ \A m : SumFunction([c \in DOMAIN R |-> PaidBy(R[c], m)]) = Taken(By(m, L))
  <1> DEFINE R == CashierRows(o, d)
             K == DOMAIN R
             L == LiveThisDay(o, d)
             V == VoidThisDay(o, d)
             T == CashierTotals(R)
  <1>1. L \in SUBSET Sales /\ V \in SUBSET Sales
    BY DaySales
  <1>2. /\ IsFiniteSet(K) /\ K = {Clerk[s] : s \in L \union V}
        /\ \A s \in L \union V : Clerk[s] \in K
        /\ \A c \in K : /\ R[c]["gross"] = Amount(Of(c, L)) /\ R[c]["voided"] = Amount(Of(c, V))
                        /\ R[c]["count"] = Cardinality(Of(c, L)) /\ R[c].mix = TenderMix(Of(c, L))
    BY RowsOfDay
  <1> HIDE DEF R, L, V, K
  <1>3. SumFunction([c \in K |-> R[c]["gross"]]) = Amount(L)
    <2>1. [c \in K |-> R[c]["gross"]] = [c \in K |-> Amount(Of(c, L))]
      BY <1>2
    <2> QED
      BY <1>1, <1>2, <2>1, ClerksAddUp
  <1>4. SumFunction([c \in K |-> R[c]["voided"]]) = Amount(V)
    <2>1. [c \in K |-> R[c]["voided"]] = [c \in K |-> Amount(Of(c, V))]
      BY <1>2
    <2> QED
      BY <1>1, <1>2, <2>1, ClerksAddUp
  <1>5. SumFunction([c \in K |-> R[c]["count"]]) = Cardinality(L)
    <2>1. [c \in K |-> R[c]["count"]] = [c \in K |-> Cardinality(Of(c, L))]
      BY <1>2
    <2> QED
      BY <1>1, <1>2, <2>1, ClerksAddUp
  <1>6. ASSUME NEW m
        PROVE  SumFunction([c \in K |-> PaidBy(R[c], m)]) = Taken(By(m, L))
    <2>1. \A c \in K : PaidBy(R[c], m) = Taken(By(m, Of(c, L)))
      <3>1. \A c : Of(c, L) \in SUBSET Sales
        BY <1>1 DEF Of
      <3> QED
        BY <1>2, <3>1, PaidOfMix
    <2>2. \A c : By(m, Of(c, L)) = Of(c, By(m, L))
      BY DEF By, Of
    <2>3. [c \in K |-> PaidBy(R[c], m)] = [c \in K |-> Taken(Of(c, By(m, L)))]
      BY <2>1, <2>2
    <2>4. By(m, L) \in SUBSET Sales /\ \A s \in By(m, L) : Clerk[s] \in K
      BY <1>1, <1>2 DEF By
    <2> QED
      BY <1>2, <2>3, <2>4, ClerksAddUp
  <1>7. T.mix = TenderMix(L)
    <2> DEFINE methods == UNION {DOMAIN R[c].mix : c \in K}
    <2>1. \A c \in K : DOMAIN R[c].mix = {Method[s] : s \in Of(c, L)}
      BY <1>2 DEF TenderMix
    <2>2. methods = {Method[s] : s \in L}
      <3>1. \A c \in K : DOMAIN R[c].mix \subseteq {Method[s] : s \in L}
        BY <2>1 DEF Of
      <3>2. ASSUME NEW s \in L PROVE \E c \in K : Method[s] \in DOMAIN R[c].mix
        <4>1. Clerk[s] \in K /\ s \in Of(Clerk[s], L)
          BY <1>2 DEF Of
        <4> QED
          BY <2>1, <4>1
      <3> QED
        BY <3>1, <3>2
    <2>3. T.mix = [m \in methods |-> SumFunction([c \in K |-> PaidBy(R[c], m)])]
      BY DEF T, CashierTotals, PaidBy, K
    <2>4. TenderMix(L) = [m \in {Method[s] : s \in L} |-> Taken(By(m, L))]
      BY DEF TenderMix, By
    <2> HIDE DEF methods, T
    <2> QED
      BY <1>6, <2>2, <2>3, <2>4
  <1>8. /\ T.gross = SumFunction([c \in K |-> R[c]["gross"]])
        /\ T.voided = SumFunction([c \in K |-> R[c]["voided"]])
        /\ T.count = SumFunction([c \in K |-> R[c]["count"]])
        /\ T.net = SumFunction([c \in K |-> R[c]["gross"]]) - SumFunction([c \in K |-> R[c]["voided"]])
    BY DEF CashierTotals, K
  <1> HIDE DEF T
  <1> QED
    BY <1>3, <1>4, <1>5, <1>6, <1>7, <1>8 DEF T, R, K, L, V

(* The figures of the tiles and of the slices are those of the day's sales.  *)
LEMMA MixOfDay ==
  ASSUME NEW L \in SUBSET Sales, NEW M
  PROVE  LET mix == TenderMix(L)
         IN /\ SumFunction([m \in M \intersect DOMAIN mix |-> mix[m]])
                  = Taken({s \in L : Method[s] \in M})
            /\ TenderTotal(mix) = Taken(L)
  <1> DEFINE mix == TenderMix(L)
             all == {Method[s] : s \in L}
  <1>1. mix = [m \in all |-> Taken(By(m, L))]
    BY DEF TenderMix, By
  <1>2. IsFiniteSet(all)
    <2> DEFINE f == [s \in L |-> Method[s]]
    <2>1. IsFiniteSet(L)
      BY AmountCounts
    <2>2. f \in Surjection(L, all)
      BY DEF Surjection
    <2> QED
      BY <2>1, <2>2, FS_Surjection
  <1>3. ASSUME NEW N PROVE IsFiniteSet(N \intersect all)
                           /\ {s \in L : Method[s] \in N \intersect all} = {s \in L : Method[s] \in N}
    BY <1>2, FS_Subset
  <1>4. {s \in L : Method[s] \in all} = L
    OBVIOUS
  <1> HIDE DEF all, mix
  <1>5. SumFunction([m \in M \intersect DOMAIN mix |-> mix[m]])
           = SumFunction([m \in M \intersect all |-> Taken(By(m, L))])
    BY <1>1
  <1>6. SumFunction([m \in M \intersect all |-> Taken(By(m, L))])
           = Taken({s \in L : Method[s] \in M})
    BY <1>3, MethodsAddUp
  <1>7. TenderTotal(mix) = Taken(L)
    BY <1>1, <1>2, <1>4, MethodsAddUp DEF TenderTotal
  <1> QED
    BY <1>5, <1>6, <1>7 DEF mix

(* The card of the totals adds up the table above it.                        *)
LEMMA CardAddsTable ==
  ASSUME WorldInv, NEW o, NEW d \in Dates
  PROVE  LET R == CashierRows(o, d)
             table == DayTable(R)
             card == TotalsCard(CashierTotals(R))
             column(k) == SumFunction([c \in DOMAIN table |-> table[c][k]])
         IN /\ card.gross = column("gross") /\ card.net = column("net")
            /\ \A m \in TenderColumns :
                 card.paid[m] = SumFunction([c \in DOMAIN table |-> table[c].paid[m]])
  <1> DEFINE R == CashierRows(o, d)
             K == DOMAIN R
             L == LiveThisDay(o, d)
             V == VoidThisDay(o, d)
             T == CashierTotals(R)
             table == DayTable(R)
             card == TotalsCard(T)
  <1>1. L \in SUBSET Sales /\ V \in SUBSET Sales
    BY DaySales
  <1>2. /\ IsFiniteSet(K)
        /\ \A s \in L \union V : Clerk[s] \in K
        /\ \A c \in K : /\ R[c].gross = Amount(Of(c, L))
                        /\ R[c].net = Amount(Of(c, L)) - Amount(Of(c, V))
    BY RowsOfDay
  <1>3. /\ T.gross = Amount(L) /\ T.net = Amount(L) - Amount(V) /\ T.mix = TenderMix(L)
        /\ \A m : SumFunction([c \in K |-> PaidBy(R[c], m)]) = Taken(By(m, L))
    BY TotalsOfDay
  <1>4. /\ DOMAIN table = K
        /\ \A c \in K : /\ table[c]["gross"] = R[c].gross /\ table[c]["net"] = R[c].net
                        /\ \A m \in TenderColumns : table[c].paid[m] = PaidBy(R[c], m)
    BY DEF DayTable, Amounts, PaidBy
  <1>5. /\ card.gross = T.gross /\ card.net = T.net
        /\ \A m \in TenderColumns : card.paid[m] = PaidBy(T, m)
    BY DEF TotalsCard, Amounts, PaidBy
  <1> HIDE DEF R, K, L, V, T, table, card
  <1>6. SumFunction([c \in K |-> Amount(Of(c, L))]) = Amount(L)
    BY <1>1, <1>2, ClerksAddUp
  <1>7. SumFunction([c \in K |-> Amount(Of(c, V))]) = Amount(V)
    BY <1>1, <1>2, ClerksAddUp
  <1>8. card.gross = SumFunction([c \in DOMAIN table |-> table[c]["gross"]])
    <2>1. [c \in DOMAIN table |-> table[c]["gross"]] = [c \in K |-> Amount(Of(c, L))]
      BY <1>2, <1>4
    <2> QED
      BY <1>3, <1>5, <1>6, <2>1
  <1>9. card.net = SumFunction([c \in DOMAIN table |-> table[c]["net"]])
    <2> DEFINE f == [c \in K |-> Amount(Of(c, L))]
               g == [c \in K |-> Amount(Of(c, V))]
    <2>1. [c \in DOMAIN table |-> table[c]["net"]] = [c \in K |-> f[c] - g[c]]
      BY <1>2, <1>4
    <2>2. f \in [K -> Nat] /\ g \in [K -> Nat]
      <3>1. \A c : Of(c, L) \in SUBSET Sales /\ Of(c, V) \in SUBSET Sales
        BY <1>1 DEF Of
      <3> QED
        BY <3>1, AmountCounts
    <2>3. SumFunction(f) = Amount(L) /\ SumFunction(g) = Amount(V)
      BY <1>6, <1>7
    <2> HIDE DEF f, g
    <2>4. SumFunction([c \in K |-> f[c] - g[c]]) = SumFunction(f) - SumFunction(g)
      BY <1>2, <2>2, SumOfDifferences
    <2> QED
      BY <1>3, <1>5, <2>1, <2>3, <2>4
  <1>10. ASSUME NEW m \in TenderColumns
         PROVE  card.paid[m] = SumFunction([c \in DOMAIN table |-> table[c].paid[m]])
    <2>1. [c \in DOMAIN table |-> table[c].paid[m]] = [c \in K |-> PaidBy(R[c], m)]
      BY <1>4
    <2>2. PaidBy(T, m) = Taken(By(m, L))
      BY <1>1, <1>3, PaidOfMix
    <2> QED
      BY <1>3, <1>5, <2>1, <2>2
  <1> QED
    BY <1>8, <1>9, <1>10 DEF R, K, L, V, T, table, card

(* The columns of the CSV account for its gross and the change.              *)
LEMMA CsvAccounts ==
  ASSUME WorldInv, NEW o, NEW d \in Dates
  PROVE  LET csv == CashierDayCsv(CashierRows(o, d)).totals
         IN SumFunction(csv.paid) = csv.gross + Change(Cash(LiveThisDay(o, d)))
  <1> DEFINE T == CashierTotals(CashierRows(o, d))
             L == LiveThisDay(o, d)
             csv == CashierDayCsv(CashierRows(o, d)).totals
  <1>1. L \in SUBSET Sales /\ T.gross = Amount(L) /\ T.mix = TenderMix(L)
    BY DaySales, TotalsOfDay
  <1>2. csv.gross = T.gross /\ csv.paid = [m \in TenderColumns |-> PaidBy(T, m)]
    BY DEF CashierDayCsv, CsvLine, PaidBy
  <1> HIDE DEF T, L, csv
  <1>3. csv.paid = [m \in TenderColumns |-> Taken(By(m, L))]
    BY <1>1, <1>2, PaidOfMix
  <1>4. IsFiniteSet(TenderColumns)
    <2>1. IsFiniteSet({"cash"}) /\ IsFiniteSet({"qris_dynamic"}) /\ IsFiniteSet({"qris_static"})
      BY FS_Singleton
    <2>2. IsFiniteSet({"cash"} \cup {"qris_dynamic"})
      BY <2>1, FS_Union
    <2>3. IsFiniteSet(({"cash"} \cup {"qris_dynamic"}) \cup {"qris_static"})
      BY <2>1, <2>2, FS_Union
    <2>4. TenderColumns = ({"cash"} \cup {"qris_dynamic"}) \cup {"qris_static"}
      BY DEF TenderColumns
    <2> QED
      BY <2>3, <2>4
  <1>5. {s \in L : Method[s] \in TenderColumns} = L
    BY <1>1, MethodAssumption
  <1> QED
    BY <1>1, <1>2, <1>3, <1>4, <1>5, MethodsAddUp, ChangeAdds DEF csv, L

(* A pill shows the rows of its tender, and they name it.                    *)
LEMMA PillsShowTheirs ==
  ASSUME WorldInv, NEW o, NEW d \in Dates, NEW k \in TenderColumns
  PROVE  LET under == {s \in Narrowed(Bucket(o, d), {k}, {}) : ~SaleRow(s).voided}
         IN /\ under = By(k, LiveThisDay(o, d))
            /\ SumFunction([s \in under |-> SaleRow(s).total]) = Amount(By(k, LiveThisDay(o, d)))
            /\ \A s \in under : SaleRow(s).tender = k
  <1> DEFINE under == {s \in Narrowed(Bucket(o, d), {k}, {}) : ~SaleRow(s).voided}
  <1>1. ASSUME NEW s \in recorded
        PROVE  /\ (\E j \in {k} : PillTakes(j, WireMethod(s))) <=> Method[s] = k
               /\ Method[s] = k => Label(WireMethod(s)) = k
    <2>1. Method[s] \in TenderColumns
      BY MethodAssumption DEF WorldInv
    <2> QED
      BY <2>1 DEF TenderColumns, PillTakes, WireMethod, Label
  <1>2. under = By(k, LiveThisDay(o, d))
    BY <1>1 DEF Narrowed, Bucket, SaleRow, By, LiveThisDay, Rung
  <1>3. \A s \in under : SaleRow(s).tender = k
    BY <1>1 DEF Narrowed, Bucket, SaleRow
  <1>4. [s \in under |-> SaleRow(s).total] = [s \in under |-> Total[s]]
    BY DEF SaleRow
  <1> HIDE DEF under
  <1>5. SumFunction([s \in under |-> SaleRow(s).total]) = Amount(under)
    BY <1>4 DEF Amount
  <1> QED
    BY <1>2, <1>3, <1>5 DEF under

(* A close that lands now has the money of the day's sales, by tender.       *)
LEMMA CloseOfDay ==
  ASSUME WorldInv, NEW o, NEW d \in Dates
  PROVE  LET b == EodBreakdown(o, d)
             eod == EodCsvRow(b)
             L == LiveThisDay(o, d)
         IN /\ eod.gross = Amount(L) /\ eod.net = Amount(L) - TaxOn(L)
            /\ eod.expectedQris = Taken({s \in L : Method[s] \in {"qris_dynamic", "qris_static"}})
            /\ eod.settledQris = Taken({s \in By("qris_static", L) : s \in verified})
            /\ b.cashIdr = Amount(Cash(L))
            /\ eod.saleCount + eod.voidCount = Cardinality(Bucket(o, d))
  <1> DEFINE b == EodBreakdown(o, d)
             eod == EodCsvRow(b)
             L == LiveThisDay(o, d)
             dynamic == {s \in L : EodTender(s).method = "qris_dynamic"}
             static == {s \in L : EodTender(s).method = "qris_static"}
             unsettled == {s \in static : ~EodTender(s).verified}
             settled == {s \in By("qris_static", L) : s \in verified}
             cash == Cash(L)
             tendered(S) == SumFunction([s \in S |-> EodTender(s).amount])
  <1>1. L \in SUBSET Sales
    BY DaySales
  <1>2. ASSUME NEW s \in L
        PROVE  /\ EodTender(s).method # "qris_dynamic"
               /\ EodTender(s).method = "qris_static" <=> Method[s] \in {"qris_dynamic", "qris_static"}
               /\ EodTender(s).method = "cash" <=> Method[s] = "cash"
               /\ EodTender(s).method = "qris_static" =>
                    (EodTender(s).verified <=> Method[s] = "qris_static" /\ s \in verified)
               /\ EodTender(s).amount = Paid[s] /\ Total[s] \in Nat
               /\ Method[s] # "cash" => Paid[s] = Total[s]
    <2>1. /\ Method[s] \in TenderColumns /\ Total[s] \in Nat
          /\ Method[s] # "cash" => Paid[s] = Total[s]
      BY <1>1, MethodAssumption, ConstantsAssumption
    <2> QED
      BY <2>1 DEF TenderColumns, EodTender, WireMethod
  <1>3. /\ dynamic = {} /\ static = {s \in L : Method[s] \in {"qris_dynamic", "qris_static"}}
        /\ static = unsettled \union settled /\ unsettled \cap settled = {}
    BY <1>2 DEF By
  <1>4. ASSUME NEW S \in SUBSET L
        PROVE  tendered(S) = Taken(S)
    <2>1. [s \in S |-> EodTender(s).amount] = [s \in S |-> Paid[s]]
      BY <1>2
    <2> QED
      BY <2>1 DEF Taken
  <1>5. /\ eod.gross = Amount(L) /\ eod.net = Amount(L) - TaxOn(L)
        /\ eod.expectedQris = tendered(static) + tendered(dynamic)
        /\ eod.settledQris = eod.expectedQris - tendered(unsettled)
        /\ eod.saleCount = Cardinality(L) /\ eod.voidCount = Cardinality(VoidedOfDate(o, d))
        /\ b.cashIdr = SumFunction([s \in L |-> CashOf(s)])
    BY DEF EodBreakdown, EodCsvRow
  <1>6. /\ static \in SUBSET L /\ dynamic \in SUBSET L /\ unsettled \in SUBSET L /\ settled \in SUBSET L
    BY DEF By
  <1>7. eod.expectedQris = Taken(static) /\ eod.settledQris = Taken(settled)
    <2> HIDE DEF static, dynamic, unsettled, settled, eod, tendered, L
    <2>1. tendered(static) = Taken(static) /\ tendered(dynamic) = 0 /\ tendered(unsettled) = Taken(unsettled)
      BY <1>3, <1>4, <1>6, AmountOfNone
    <2>2. Taken(static) = Taken(unsettled) + Taken(settled)
      BY <1>1, <1>3, <1>6, WorthOfTwo, Worths
    <2>3. Taken(unsettled) \in Nat /\ Taken(settled) \in Nat
      BY <1>1, <1>6, AmountCounts
    <2> QED
      BY <1>5, <2>1, <2>2, <2>3
  <1>8. SumFunction([s \in L |-> CashOf(s)]) = Amount(cash)
    <2> DEFINE f == [s \in L |-> CashOf(s)]
    <2>1. ASSUME NEW s \in L
          PROVE  CashOf(s) = IF Method[s] = "cash" THEN Total[s] ELSE 0
      BY <1>2 DEF CashOf
    <2>2. f \in [L -> Nat]
      BY <1>2, <2>1
    <2>3. Units(f, L) = Units(Total, cash)
      <3>1. \A s \in L : f[s] = IF Method[s] = "cash" THEN Total[s] ELSE 0
        BY <2>1
      <3> HIDE DEF f, L
      <3>2. ASSUME NEW s \in L, NEW n \in Nat
            PROVE  (1 <= n /\ n <= f[s]) <=> (s \in cash /\ 1 <= n /\ n <= Total[s])
        BY <3>1 DEF Cash
      <3>3. \A u \in L \X Nat : (1 <= u[2] /\ u[2] <= f[u[1]])
                                   <=> (u[1] \in cash /\ 1 <= u[2] /\ u[2] <= Total[u[1]])
        BY <3>2
      <3> QED
        BY <3>3 DEF Units, Cash
    <2>4. IsFiniteSet(L) /\ cash \in SUBSET Sales
      BY <1>1, AmountCounts DEF Cash
    <2> HIDE DEF f, L, cash
    <2> QED
      BY <2>2, <2>3, <2>4, SumCounts, AmountCounts DEF f
  <1>9. Cardinality(L) + Cardinality(VoidedOfDate(o, d)) = Cardinality(Bucket(o, d))
    <2> DEFINE W == VoidedOfDate(o, d)
    <2>1. L \cup W = Bucket(o, d) /\ L \cap W = {}
      BY DEF LiveThisDay, VoidedOfDate, Rung, Bucket
    <2>2. W \in SUBSET Sales
      BY DEF VoidedOfDate, Rung, WorldInv
    <2> HIDE DEF L, W
    <2>3. IsFiniteSet(L) /\ IsFiniteSet(W)
      BY <1>1, <2>2, AmountCounts
    <2>4. Cardinality(L \cup W) = Cardinality(L) + Cardinality(W) - Cardinality(L \cap W)
      BY <2>3, FS_Union
    <2>5. Cardinality(L \cap W) = 0
      BY <2>1, FS_EmptySet
    <2>6. Cardinality(L) \in Nat /\ Cardinality(W) \in Nat
      BY <2>3, FS_CardinalityType
    <2>7. Cardinality(L \cup W) = Cardinality(L) + Cardinality(W)
      BY <2>4, <2>5, <2>6
    <2> QED
      BY <2>1, <2>7 DEF W
  <1> HIDE DEF b, eod, L
  <1> QED
    BY <1>3, <1>5, <1>7, <1>8, <1>9 DEF b, eod, L

LEMMA DayAgrees ==
  ASSUME WorldInv, NEW o, NEW d \in Dates
  PROVE  ReportsAgreeOn(o, d)
  <1> DEFINE L == LiveThisDay(o, d)
             change == Change({s \in LiveThisDay(o, d) : Method[s] = "cash"})
             rows == CashierRows(o, d)
             totals == CashierTotals(rows)
             csv == CashierDayCsv(rows).totals
             mix == Mix({o}, d, d)
             tiles == Tiles(Headline({o}, d, d), mix)
             paid(M) == SumFunction([m \in M \intersect DOMAIN mix |-> mix[m]])
             under(k) == {s \in Narrowed(Bucket(o, d), {k}, {}) : ~SaleRow(s).voided}
             breakdown == EodBreakdown(o, d)
             eod == EodCsvRow(breakdown)
             table == DayTable(rows)
             card == TotalsCard(totals)
             column(k) == SumFunction([c \in DOMAIN table |-> table[c][k]])
  <1>1. L \in SUBSET Sales /\ Finalised({o}, d, d) = L
    BY DaySales
  <1>2. mix = TenderMix(L)
    BY <1>1 DEF Mix
  <1>3. tiles.gross = Amount(L) /\ tiles.net = Amount(L) - TaxOn(L) /\ tiles.count = Cardinality(L)
    BY <1>1 DEF Tiles, Headline
  <1>4. /\ card.gross = column("gross") /\ card.net = column("net")
        /\ \A m \in TenderColumns :
             card.paid[m] = SumFunction([c \in DOMAIN table |-> table[c].paid[m]])
    BY CardAddsTable
  <1>5. totals.gross = Amount(L) /\ totals.count = Cardinality(L) /\ totals.mix = TenderMix(L)
    BY TotalsOfDay
  <1>12. change = Change(Cash(L)) /\ change \in Nat
    BY <1>1, ChangeAdds DEF Cash
  <1>6. SumFunction(csv.paid) = csv.gross + change
    BY <1>12, CsvAccounts
  <1>7. /\ TenderTotal(mix) = Taken(L)
        /\ \A M : paid(M) = Taken({s \in L : Method[s] \in M})
    <2> HIDE DEF L, mix
    <2>1. TenderTotal(mix) = Taken(L)
      BY <1>1, <1>2, MixOfDay
    <2>2. ASSUME NEW M PROVE paid(M) = Taken({s \in L : Method[s] \in M})
      BY <1>1, <1>2, MixOfDay
    <2> QED
      BY <2>1, <2>2
  <1>8. ASSUME NEW k \in TenderColumns
        PROVE  /\ paid({k}) = SumFunction([s \in under(k) |-> SaleRow(s).total])
                                 + (IF k = "cash" THEN change ELSE 0)
               /\ \A s \in under(k) : SaleRow(s).tender = k
               /\ under(k) = By(k, L)
    <2>1. {s \in L : Method[s] \in {k}} = By(k, L)
      BY DEF By
    <2>2. paid({k}) = Taken(By(k, L))
      BY <1>7, <2>1
    <2>3. Taken(By(k, L)) = Amount(By(k, L)) + (IF k = "cash" THEN change ELSE 0)
      <3>1. By(k, L) \in SUBSET Sales /\ Amount(By(k, L)) \in Nat
        BY <1>1, AmountCounts DEF By
      <3>2. CASE k = "cash"
        <4>1. Cash(By(k, L)) = Cash(L)
          BY <3>2 DEF By, Cash
        <4> QED
          BY <1>12, <3>1, <3>2, <4>1, ChangeAdds
      <3>3. CASE k # "cash"
        BY <3>1, <3>3, NoChange DEF By
      <3> QED
        BY <3>2, <3>3
    <2> HIDE DEF paid, change
    <2> QED
      BY <2>2, <2>3, PillsShowTheirs
  <1>9. /\ eod.gross = Amount(L) /\ eod.net = Amount(L) - TaxOn(L)
        /\ eod.expectedQris = Taken({s \in L : Method[s] \in {"qris_dynamic", "qris_static"}})
        /\ eod.settledQris = Taken({s \in By("qris_static", L) : s \in verified})
        /\ breakdown.cashIdr = Amount(Cash(L))
        /\ eod.saleCount + eod.voidCount = Cardinality(Bucket(o, d))
    BY CloseOfDay
  <1>13. Taken(L) = Amount(L) + change
    BY <1>1, <1>12, ChangeAdds
  <1>14. paid({"cash"}) = Amount(Cash(L)) + change
    <2>1. Cash(L) \in SUBSET Sales /\ Cash(Cash(L)) = Cash(L) /\ {s \in L : Method[s] \in {"cash"}} = Cash(L)
      BY <1>1 DEF Cash
    <2> HIDE DEF L, change, paid
    <2> QED
      BY <1>12, <1>7, <2>1, ChangeAdds
  <1>15. {s \in By("qris_static", L) : s \in verified} = {s \in under("qris_static") : s \in verified}
    BY <1>8 DEF TenderColumns
  <1> HIDE DEF L, change, rows, totals, csv, mix, tiles, paid, under, breakdown, eod, table, card, column
  <1>10. /\ totals.gross = tiles.gross /\ totals.count = tiles.count
         /\ totals.mix = mix /\ TenderTotal(mix) = tiles.gross + change
    BY <1>2, <1>3, <1>5, <1>7, <1>13
  <1>11. /\ eod.gross = tiles.gross /\ eod.net = tiles.net
         /\ eod.expectedQris = paid({"qris_dynamic", "qris_static"})
         /\ eod.settledQris = Taken({s \in under("qris_static") : s \in verified})
         /\ paid({"cash"}) = breakdown.cashIdr + change
         /\ eod.saleCount + eod.voidCount = Cardinality(Bucket(o, d))
    BY <1>3, <1>7, <1>9, <1>14, <1>15
  <1> QED
    BY <1>4, <1>6, <1>8, <1>10, <1>11
       DEF ReportsAgreeOn, change, rows, totals, csv, mix, tiles, paid, under, breakdown, eod, table, card, column

(* Whatever sales, late ones and voids the server has: the card of the       *)
(* cashiers adds up its table and the dashboard's tiles; the slices and the  *)
(* columns of the CSV are the gross and the change of the cash sales, a      *)
(* slice the rows under its pill and, for cash, the change; and a close of   *)
(* the day has the same money, tax and sales, the cash without the change.   *)
THEOREM FiguresAgree == ScreensInit /\ [][ScreensNext]_screensVars => []ReportsAgree
  <1>1. ScreensInit => WorldInv
    BY DEF ScreensInit, WorldInit, WorldInv
  <1>2. WorldInv => ReportsAgree
    BY DayAgrees DEF ReportsAgree
  <1> QED
    BY <1>1, <1>2, WorldNext, PTL
-----------------------------------------------------------------------------
(* An import lands whole *)

LEMMA GreatestNumber ==
  ASSUME NEW N \in Nat, NEW T \in SUBSET (1 .. N), T # {}
  PROVE  \E j \in T : \A i \in T : i <= j
  <1> DEFINE back == {N - t : t \in T}
  <1>1. back \subseteq Nat /\ back # {}
    <2>1. \A t \in T : t \in Nat /\ t <= N
      OBVIOUS
    <2>2. \A t \in T : N - t \in Nat
      BY <2>1
    <2> QED
      BY <2>2
  <1>2. PICK b \in back : \A m \in back : b <= m
    BY <1>1, LeastNumber
  <1>3. PICK j \in T : b = N - j
    OBVIOUS
  <1>4. \A i \in T : N - j <= N - i
    BY <1>2, <1>3
  <1>5. \A i \in T : i <= j
    BY <1>4
  <1> QED
    BY <1>5

(* Each of a set of numbers has a place, and each place is taken once.       *)
LEMMA Places ==
  ASSUME NEW N \in Nat, NEW T \in SUBSET (1 .. N)
  PROVE  LET place == [j \in T |-> Cardinality({i \in T : i <= j})]
         IN /\ IsFiniteSet(T) /\ Cardinality(T) \in Nat
            /\ \A n \in 1 .. Cardinality(T) : Nth(T, n) \in T /\ place[Nth(T, n)] = n
            /\ \A j \in T : place[j] \in 1 .. Cardinality(T) /\ Nth(T, place[j]) = j
  <1> DEFINE upTo(j) == {i \in T : i <= j}
             place == [j \in T |-> Cardinality(upTo(j))]
             size == Cardinality(T)
  <1>1. IsFiniteSet(1 .. N)
    BY FS_Interval
  <1>2. IsFiniteSet(T) /\ size \in Nat
    BY <1>1, FS_Subset, FS_CardinalityType
  <1>3. ASSUME NEW j \in T PROVE place[j] \in 1 .. size /\ place[j] \in Nat /\ IsFiniteSet(upTo(j))
    <2>1. upTo(j) \subseteq T /\ upTo(j) # {}
      OBVIOUS
    <2>2. IsFiniteSet(upTo(j)) /\ Cardinality(upTo(j)) <= size
      BY <1>2, <2>1, FS_Subset
    <2>3. Cardinality(upTo(j)) \in Nat /\ Cardinality(upTo(j)) # 0
      BY <2>1, <2>2, FS_CardinalityType, FS_EmptySet
    <2> HIDE DEF upTo, size
    <2> QED
      BY <1>2, <2>2, <2>3
  <1>4. ASSUME NEW i \in T, NEW j \in T, i < j PROVE place[i] < place[j]
    <2>1. upTo(i) \subseteq upTo(j) /\ j \in upTo(j) /\ j \notin upTo(i)
      <3>1. i \in Nat /\ j \in Nat /\ T \subseteq Nat
        OBVIOUS
      <3>2. \A k \in T : k <= i => k <= j
        BY <1>4, <3>1
      <3>3. ~(j <= i) /\ j <= j
        BY <1>4, <3>1
      <3> QED
        BY <3>2, <3>3
    <2>2. IsFiniteSet(upTo(j))
      BY <1>3
    <2> HIDE DEF upTo
    <2>3. Cardinality(upTo(i)) <= Cardinality(upTo(j)) /\ Cardinality(upTo(i)) # Cardinality(upTo(j))
      BY <2>1, <2>2, FS_Subset
    <2>4. place[i] \in Nat /\ place[j] \in Nat
      BY <1>3
    <2> QED
      BY <2>3, <2>4
  <1> HIDE DEF place
  <1>5. \A i, j \in T : place[i] = place[j] => i = j
    <2> SUFFICES ASSUME NEW i \in T, NEW j \in T, i # j PROVE place[i] # place[j]
      OBVIOUS
    <2>1. place[i] \in Nat /\ place[j] \in Nat
      BY <1>3
    <2>2. i < j \/ j < i
      OBVIOUS
    <2> QED
      BY <1>4, <2>1, <2>2
  <1>6. place \in Injection(T, 1 .. size)
    <2>1. DOMAIN place = T /\ place = [j \in T |-> place[j]]
      BY DEF place
    <2> QED
      BY <1>3, <1>5, <2>1 DEF Injection, IsInjective
  <1>7. IsFiniteSet(1 .. size) /\ Cardinality(1 .. size) = size
    <2>1. Cardinality(1 .. size) = IF 1 > size THEN 0 ELSE size - 1 + 1
      BY <1>2, FS_Interval
    <2> HIDE DEF size
    <2> QED
      BY <1>2, <2>1, FS_Interval
  <1>8. place \in Surjection(T, 1 .. size)
    BY <1>6, <1>7, FS_Injection
  <1>9. ASSUME NEW n \in 1 .. size PROVE Nth(T, n) \in T /\ place[Nth(T, n)] = n
    <2>1. \E j \in T : place[j] = n
      BY <1>8 DEF Surjection
    <2>2. \E j \in T : Cardinality({i \in T : i <= j}) = n
      BY <2>1 DEF place
    <2>3. Nth(T, n) \in T /\ Cardinality({i \in T : i <= Nth(T, n)}) = n
      BY <2>2 DEF Nth
    <2> QED
      BY <2>3 DEF place
  <1>10. ASSUME NEW j \in T PROVE place[j] \in 1 .. size /\ Nth(T, place[j]) = j
    BY <1>3, <1>5, <1>9
  <1> QED
    BY <1>2, <1>9, <1>10 DEF place

Item == [sku : Skus, value : Values]

LEMMA MatchOfIsLast ==
  ASSUME NEW items \in Seq(Item), NEW row
  PROVE  LET bearing == {i \in DOMAIN items : items[i].sku = row.sku}
         IN IF bearing = {} THEN MatchOf(items, row) = 0 ELSE MatchOf(items, row) \in bearing
  <1> DEFINE bearing == {i \in DOMAIN items : items[i].sku = row.sku}
  <1>1. CASE bearing # {}
    <2>1. bearing \in SUBSET (1 .. Len(items)) /\ Len(items) \in Nat
      OBVIOUS
    <2>2. \E j \in bearing : \A i \in bearing : i <= j
      BY <1>1, <2>1, GreatestNumber
    <2> HIDE DEF bearing
    <2> QED
      BY <1>1, <2>2 DEF MatchOf, bearing
  <1> QED
    BY <1>1 DEF MatchOf

(* The rows of a file without errors name a sku once.                        *)
Clean(rows) == rows \in Seq([sku : Skus, value : Values \union {Bad}]) /\ ErrorRows(rows) = {}

LEMMA ElementsOf == ASSUME NEW X, NEW s \in Seq(X), NEW i \in DOMAIN s PROVE s[i] \in X
  OBVIOUS

IsJoin(s, u, w) ==
    /\ Len(w) = Len(s) + Len(u)
    /\ \A i \in 1 .. Len(s) : w[i] = s[i]
    /\ \A n \in 1 .. Len(u) : w[Len(s) + n] = u[n]

LEMMA Joined ==
  ASSUME NEW X, NEW s \in Seq(X), NEW u \in Seq(X)
  PROVE  s \o u \in Seq(X) /\ IsJoin(s, u, s \o u)
  <1>1. s \o u \in Seq(X) /\ Len(s \o u) = Len(s) + Len(u) /\ Len(s) \in Nat /\ Len(u) \in Nat
    OBVIOUS
  <1>2. \A i \in 1 .. Len(s) : (s \o u)[i] = s[i]
    OBVIOUS
  <1>3. ASSUME NEW n \in 1 .. Len(u) PROVE (s \o u)[Len(s) + n] = u[n]
    <2>1. Len(s) + n \in 1 .. (Len(s) + Len(u)) /\ ~(Len(s) + n <= Len(s)) /\ (Len(s) + n) - Len(s) = n
      BY <1>1
    <2> QED
      BY <2>1
  <1> QED
    BY <1>1, <1>2, <1>3 DEF IsJoin

LEMMA CleanRows ==
  ASSUME NEW rows, Clean(rows)
  PROVE  /\ rows \in Seq(Item)
         /\ \A i, j \in DOMAIN rows : rows[i].sku = rows[j].sku => i = j
  <1>1. \A i \in DOMAIN rows : rows[i] \in [sku : Skus, value : Values \union {Bad}] /\ rows[i].value # Bad
    <2>1. rows \in Seq([sku : Skus, value : Values \union {Bad}])
      BY DEF Clean
    <2>2. ASSUME NEW i \in DOMAIN rows PROVE rows[i] \in [sku : Skus, value : Values \union {Bad}]
      BY <2>1, ElementsOf
    <2>3. ASSUME NEW i \in DOMAIN rows PROVE rows[i].value # Bad
      BY DEF Clean, ErrorRows
    <2> QED
      BY <2>2, <2>3
  <1>2. \A i \in DOMAIN rows : rows[i] \in Item
    BY <1>1 DEF Item
  <1>3. rows \in Seq(Item)
    BY <1>2 DEF Clean
  <1>4. \A i \in DOMAIN rows : \A j \in 1 .. (i - 1) : rows[j].sku # rows[i].sku
    BY DEF Clean, ErrorRows
  <1>5. ASSUME NEW i \in DOMAIN rows, NEW j \in DOMAIN rows, rows[i].sku = rows[j].sku
        PROVE  i = j
    <2>1. i \in 1 .. Len(rows) /\ j \in 1 .. Len(rows) /\ Len(rows) \in Nat
      BY <1>3
    <2>2. ~(i < j) /\ ~(j < i)
      BY <1>4, <1>5, <2>1
    <2> QED
      BY <2>1, <2>2
  <1> QED
    BY <1>3, <1>5

(* The rows of a file that are new items.                                    *)
Fresh(items, rows) == {j \in DOMAIN rows : MatchOf(items, rows[j]) = 0}

(* What an import makes of the items: the old ones keep place and sku.       *)
Merged(items, rows, fresh, after) ==
    /\ after \in Seq(Item) /\ Len(after) = Len(items) + Cardinality(fresh)
    /\ \A i \in 1 .. Len(items) :
         /\ after[i].sku = items[i].sku
         /\ (\A j \in DOMAIN rows : rows[j].sku # items[i].sku) => after[i] = items[i]
    /\ \A j \in DOMAIN rows : j \notin fresh =>
         /\ MatchOf(items, rows[j]) \in 1 .. Len(items)
         /\ after[MatchOf(items, rows[j])] = rows[j]
    /\ \A n \in 1 .. Cardinality(fresh) : after[Len(items) + n] = rows[Nth(fresh, n)]

LEMMA ImportedItems ==
  ASSUME NEW items \in Seq(Item), NEW rows, Clean(rows)
  PROVE  Merged(items, rows, Fresh(items, rows), Upserted(items, rows))
  <1> DEFINE fresh == Fresh(items, rows)
             size == Cardinality(fresh)
             M == Len(items)
             hits(i, j) == MatchOf(items, rows[j]) = i
             front == [i \in DOMAIN items |->
                          IF \E j \in DOMAIN rows : hits(i, j)
                          THEN rows[CHOOSE j \in DOMAIN rows : hits(i, j)] ELSE items[i]]
             back == [n \in 1 .. size |-> rows[Nth(fresh, n)]]
             after == Upserted(items, rows)
  <1>1. after = front \o back
    BY DEF Upserted, Fresh
  <1>2. rows \in Seq(Item) /\ \A i, j \in DOMAIN rows : rows[i].sku = rows[j].sku => i = j
    BY CleanRows
  <1>3. /\ size \in Nat /\ \A n \in 1 .. size : Nth(fresh, n) \in DOMAIN rows
    <2>1. Len(rows) \in Nat /\ fresh \in SUBSET (1 .. Len(rows))
      BY <1>2 DEF Fresh
    <2>2. size \in Nat /\ \A n \in 1 .. size : Nth(fresh, n) \in fresh
      BY <2>1, Places
    <2> QED
      BY <2>2 DEF Fresh
  <1>4. ASSUME NEW j \in DOMAIN rows, NEW i \in 1 .. M, hits(i, j)
        PROVE  rows[j].sku = items[i].sku
    <2> DEFINE bearing == {b \in DOMAIN items : items[b].sku = rows[j].sku}
    <2>1. IF bearing = {} THEN MatchOf(items, rows[j]) = 0 ELSE MatchOf(items, rows[j]) \in bearing
      BY MatchOfIsLast
    <2>2. MatchOf(items, rows[j]) # 0
      BY <1>4
    <2> QED
      BY <1>4, <2>1, <2>2
  <1>5. ASSUME NEW j \in DOMAIN rows, j \notin fresh
        PROVE  MatchOf(items, rows[j]) \in 1 .. M
    <2> DEFINE bearing == {b \in DOMAIN items : items[b].sku = rows[j].sku}
    <2>1. IF bearing = {} THEN MatchOf(items, rows[j]) = 0 ELSE MatchOf(items, rows[j]) \in bearing
      BY MatchOfIsLast
    <2> QED
      BY <1>5, <2>1 DEF Fresh
  <1>6. \A i \in DOMAIN items : items[i] \in Item
    BY ElementsOf
  <1>7. \A j \in DOMAIN rows : rows[j] \in Item
    BY <1>2, ElementsOf
  <1> HIDE DEF fresh, size, after
  <1>8. DOMAIN items = 1 .. M /\ M \in Nat
    OBVIOUS
  <1> HIDE DEF M
  <1>9. ASSUME NEW i \in 1 .. M
        PROVE  /\ front[i] \in Item /\ front[i].sku = items[i].sku
               /\ (\A j \in DOMAIN rows : rows[j].sku # items[i].sku) => front[i] = items[i]
               /\ \A j \in DOMAIN rows : hits(i, j) => front[i] = rows[j]
    <2>1. CASE \E j \in DOMAIN rows : hits(i, j)
      <3> DEFINE c == CHOOSE j \in DOMAIN rows : hits(i, j)
      <3>1. c \in DOMAIN rows /\ hits(i, c)
        BY <2>1
      <3>2. front[i] = rows[c]
        BY <1>8, <2>1
      <3> HIDE DEF c, hits, front
      <3>3. rows[c].sku = items[i].sku /\ \A j \in DOMAIN rows : hits(i, j) => rows[j].sku = items[i].sku
        BY <1>4, <3>1
      <3>4. \A j \in DOMAIN rows : hits(i, j) => j = c
        BY <1>2, <3>1, <3>3
      <3> QED
        BY <1>7, <3>1, <3>2, <3>3, <3>4
    <2>2. CASE ~ \E j \in DOMAIN rows : hits(i, j)
      <3>1. front[i] = items[i]
        BY <1>8, <2>2
      <3> HIDE DEF hits, front
      <3> QED
        BY <1>6, <1>8, <2>2, <3>1
    <2> QED
      BY <2>1, <2>2
  <1>10. front \in Seq(Item) /\ Len(front) = M
    <2>1. DOMAIN front = 1 .. M /\ front = [i \in 1 .. M |-> front[i]]
      BY <1>8
    <2> HIDE DEF front, hits
    <2> QED
      BY <1>8, <1>9, <2>1
  <1>11. back \in Seq(Item) /\ Len(back) = size
    BY <1>3, <1>7
  <1>12. \A n \in 1 .. size : back[n] = rows[Nth(fresh, n)]
    OBVIOUS
  <1> HIDE DEF front, back
  <1>13. /\ after \in Seq(Item) /\ Len(after) = M + size
         /\ \A i \in 1 .. M : after[i] = front[i]
         /\ \A n \in 1 .. size : after[M + n] = back[n]
    <2>1. after \in Seq(Item) /\ IsJoin(front, back, after)
      BY <1>1, <1>10, <1>11, Joined
    <2> QED
      BY <1>10, <1>11, <2>1 DEF IsJoin
  <1>14. \A j \in DOMAIN rows : j \notin fresh => after[MatchOf(items, rows[j])] = rows[j]
    BY <1>5, <1>9, <1>13
  <1> QED
    BY <1>5, <1>9, <1>12, <1>13, <1>14 DEF Merged, fresh, size, after, M

LEMMA LandsWhole ==
  ASSUME NEW before \in Seq(Item), NEW rows, Clean(rows)
  PROVE  ImportLands(before, Upserted(before, rows), rows)
  <1> DEFINE fresh == Fresh(before, rows)
             size == Cardinality(fresh)
             M == Len(before)
             after == Upserted(before, rows)
             named == {rows[i].sku : i \in DOMAIN rows}
             place(j) == Cardinality({i \in fresh : i <= j})
  <1>1. /\ after \in Seq(Item) /\ Len(after) = M + size
        /\ \A i \in 1 .. M :
             /\ after[i].sku = before[i].sku
             /\ (\A j \in DOMAIN rows : rows[j].sku # before[i].sku) => after[i] = before[i]
        /\ \A j \in DOMAIN rows : j \notin fresh =>
             MatchOf(before, rows[j]) \in 1 .. M /\ after[MatchOf(before, rows[j])] = rows[j]
        /\ \A n \in 1 .. size : after[M + n] = rows[Nth(fresh, n)]
    <2>1. Merged(before, rows, fresh, after)
      BY ImportedItems
    <2> HIDE DEF fresh, after
    <2> QED
      BY <2>1 DEF Merged
  <1>2. \A i, j \in DOMAIN rows : rows[i].sku = rows[j].sku => i = j
    BY CleanRows
  <1>3. /\ size \in Nat
        /\ \A n \in 1 .. size : Nth(fresh, n) \in fresh /\ place(Nth(fresh, n)) = n
        /\ \A j \in fresh : place(j) \in 1 .. size /\ Nth(fresh, place(j)) = j
    <2>1. Len(rows) \in Nat /\ fresh \in SUBSET (1 .. Len(rows))
      BY CleanRows DEF Fresh
    <2> QED
      BY <2>1, Places
  <1>4. M \in Nat /\ DOMAIN before = 1 .. M /\ DOMAIN after = 1 .. (M + size)
    BY <1>1
  <1>5. \A j \in fresh : j \in DOMAIN rows
    BY DEF Fresh
  <1>6. \A j \in DOMAIN rows : j \in fresh <=> Bearing(before, rows[j].sku) = {}
    <2> SUFFICES ASSUME NEW j \in DOMAIN rows
                 PROVE  j \in fresh <=> Bearing(before, rows[j].sku) = {}
      OBVIOUS
    <2> DEFINE bearing == {i \in DOMAIN before : before[i].sku = rows[j].sku}
    <2>1. IF bearing = {} THEN MatchOf(before, rows[j]) = 0 ELSE MatchOf(before, rows[j]) \in bearing
      BY MatchOfIsLast
    <2>2. 0 \notin bearing
      BY <1>4
    <2>3. j \in fresh <=> bearing = {}
      BY <2>1, <2>2 DEF Fresh
    <2> QED
      BY <2>3 DEF Bearing
  <1> HIDE DEF fresh, size, M, after, place
  <1>7. ASSUME NEW i \in DOMAIN rows PROVE \E j \in DOMAIN after : after[j] = rows[i]
    <2>1. CASE i \in fresh
      <3>1. place(i) \in 1 .. size /\ after[M + place(i)] = rows[i]
        BY <1>1, <1>3, <2>1
      <3>2. M + place(i) \in DOMAIN after
        BY <1>3, <1>4, <3>1
      <3> QED
        BY <3>1, <3>2
    <2>2. CASE i \notin fresh
      <3> DEFINE m == MatchOf(before, rows[i])
      <3>1. m \in 1 .. M /\ after[m] = rows[i]
        BY <1>1, <2>2
      <3> HIDE DEF m
      <3>2. m \in DOMAIN after
        BY <1>3, <1>4, <3>1
      <3> QED
        BY <3>1, <3>2
    <2> QED
      BY <2>1, <2>2
  <1>8. ASSUME NEW i \in DOMAIN rows
        PROVE  Cardinality(Bearing(after, rows[i].sku)) =
                  IF Bearing(before, rows[i].sku) = {} THEN 1
                  ELSE Cardinality(Bearing(before, rows[i].sku))
    <2> DEFINE k == rows[i].sku
    <2>1. \A j \in 1 .. M : j \in Bearing(after, k) <=> j \in Bearing(before, k)
      BY <1>1, <1>3, <1>4 DEF Bearing
    <2>2. Bearing(before, k) \subseteq 1 .. M /\ Bearing(after, k) \subseteq 1 .. (M + size)
      BY <1>4 DEF Bearing
    <2>3. ASSUME NEW n \in 1 .. size
          PROVE  M + n \in Bearing(after, k) <=> Nth(fresh, n) = i
      <3>1. after[M + n] = rows[Nth(fresh, n)] /\ Nth(fresh, n) \in DOMAIN rows
        BY <1>1, <1>3, <1>5
      <3>2. M + n \in DOMAIN after
        BY <1>3, <1>4
      <3> QED
        BY <1>2, <3>1, <3>2 DEF Bearing
    <2>4. \A p \in 1 .. (M + size) : p \in 1 .. M \/ \E n \in 1 .. size : p = M + n
      <3> SUFFICES ASSUME NEW p \in 1 .. (M + size), ~(p \in 1 .. M)
                   PROVE  \E n \in 1 .. size : p = M + n
        OBVIOUS
      <3>1. p - M \in 1 .. size /\ p = M + (p - M)
        BY <1>3, <1>4
      <3> QED
        BY <3>1
    <2> HIDE DEF k
    <2>5. CASE Bearing(before, k) = {}
      <3>1. i \in fresh
        BY <1>6, <2>5 DEF k
      <3>2. place(i) \in 1 .. size /\ Nth(fresh, place(i)) = i
        BY <1>3, <3>1
      <3>3. ASSUME NEW n \in 1 .. size, Nth(fresh, n) = i PROVE n = place(i)
        BY <1>3, <3>3
      <3>4. Bearing(after, k) = {M + place(i)}
        <4>1. M + place(i) \in Bearing(after, k)
          BY <2>3, <3>2
        <4>2. ASSUME NEW p \in Bearing(after, k) PROVE p = M + place(i)
          <5>1. p \in 1 .. (M + size) /\ p \notin 1 .. M
            BY <2>1, <2>2, <2>5, <4>2
          <5>2. PICK n \in 1 .. size : p = M + n
            BY <2>4, <5>1
          <5> QED
            BY <2>3, <3>3, <4>2, <5>2
        <4> QED
          BY <4>1, <4>2
      <3> QED
        BY <2>5, <3>4, FS_Singleton DEF k
    <2>6. CASE Bearing(before, k) # {}
      <3>1. i \notin fresh
        BY <1>6, <2>6 DEF k
      <3>2. \A n \in 1 .. size : M + n \notin Bearing(after, k)
        BY <1>3, <2>3, <3>1
      <3>3. Bearing(after, k) = Bearing(before, k)
        <4>1. ASSUME NEW p \in Bearing(after, k) PROVE p \in Bearing(before, k)
          BY <2>1, <2>2, <2>4, <3>2, <4>1
        <4>2. ASSUME NEW p \in Bearing(before, k) PROVE p \in Bearing(after, k)
          BY <2>1, <2>2, <4>2
        <4> QED
          BY <4>1, <4>2
      <3> QED
        BY <2>6, <3>3 DEF k
    <2> QED
      BY <2>5, <2>6 DEF k
  <1>9. ASSUME NEW i \in DOMAIN before, before[i].sku \notin named
        PROVE  after[i] = before[i]
    BY <1>1, <1>4, <1>9
  <1> QED
    BY <1>7, <1>8, <1>9 DEF ImportLands, after

(* Every copy of the store holds items; a parsed file is one of the files.   *)
Stocked(s) == IsState(s) /\ s.items \in Seq(Item)
ItemsInv == Stocked(disk) /\ DOMAIN store = Tabs /\ \A t \in Tabs : Stocked(store[t])

Wizard == [named : DOMAIN Files \union {Blank}, reading : SUBSET DOMAIN Files,
           parsed : DOMAIN Files \union {Blank}]
WizardInv == wizard \in [Tabs -> Wizard]

LEMMA EmitStocks ==
  ASSUME ItemsInv, NEW t \in Tabs, NEW state, Emit(t, state), Stocked(state)
  PROVE  ItemsInv'
  BY DEF ItemsInv, Stocked, IsState, Emit

LEMMA SliceStocks ==
  ASSUME ItemsInv, NEW t \in Tabs, NEW x,
         Emit(t, [store[t] EXCEPT !.slice = x]) \/ Emit(t, [store[t] EXCEPT !.unmatched = x])
  PROVE  ItemsInv'
  <1> DEFINE a == [store[t] EXCEPT !.slice = x]
             b == [store[t] EXCEPT !.unmatched = x]
  <1>1. IsState(store[t]) /\ store[t].items \in Seq(Item)
    BY DEF ItemsInv, Stocked
  <1>2. Stocked(a) /\ Stocked(b)
    <2>1. IsState(a) /\ IsState(b)
      BY <1>1 DEF IsState
    <2>2. a.items = store[t].items /\ b.items = store[t].items
      BY <1>1 DEF IsState
    <2> QED
      BY <1>1, <2>1, <2>2 DEF Stocked
  <1> HIDE DEF a, b
  <1> QED
    BY <1>2, EmitStocks DEF a, b

LEMMA ItemsStock ==
  ASSUME ItemsInv, NEW t \in Tabs, NEW x \in Seq(Item), Emit(t, [store[t] EXCEPT !.items = x])
  PROVE  ItemsInv'
  <1> DEFINE a == [store[t] EXCEPT !.items = x]
  <1>1. IsState(store[t])
    BY DEF ItemsInv, Stocked
  <1>2. IsState(a) /\ a.items = x
    BY <1>1 DEF IsState
  <1> HIDE DEF a
  <1>3. Stocked(a)
    BY <1>2 DEF Stocked
  <1> QED
    BY <1>3, EmitStocks DEF a

LEMMA EditedItems ==
  ASSUME NEW items \in Seq(Item), NEW i \in DOMAIN items, NEW draft \in Item, NEW v \in Values
  PROVE  /\ [items EXCEPT ![i] = draft] \in Seq(Item)
         /\ [items EXCEPT ![i].value = v] \in Seq(Item) /\ Append(items, draft) \in Seq(Item)
  <1>1. items[i] \in Item
    BY ElementsOf
  <1>2. [items[i] EXCEPT !.value = v] \in Item
    BY <1>1 DEF Item
  <1>3. \A d \in Item : [items EXCEPT ![i] = d] \in Seq(Item)
    OBVIOUS
  <1>4. [items EXCEPT ![i].value = v] = [items EXCEPT ![i] = [items[i] EXCEPT !.value = v]]
    OBVIOUS
  <1> QED
    BY <1>2, <1>3, <1>4

LEMMA ImportStocks ==
  ASSUME ItemsInv, WizardInv, NEW t \in Tabs, ConfirmImport(t)
  PROVE  /\ ItemsInv' /\ Clean(Files[wizard[t].parsed]) /\ store[t].items \in Seq(Item)
         /\ store'[t].items = Upserted(store[t].items, Files[wizard[t].parsed])
  <1> DEFINE rows == Files[wizard[t].parsed]
             x == Upserted(store[t].items, rows)
  <1>1. Clean(rows)
    <2>1. wizard[t] \in Wizard
      BY DEF WizardInv
    <2>2. wizard[t].parsed \in DOMAIN Files
      BY <2>1 DEF Wizard, ConfirmImport
    <2>3. rows \in Seq([sku : Skus, value : Values \union {Bad}])
      BY <2>2, StoreAssumption
    <2> QED
      BY <2>3 DEF Clean, ConfirmImport
  <1>2. IsState(store[t]) /\ store[t].items \in Seq(Item) /\ DOMAIN store = Tabs
    BY DEF ItemsInv, Stocked
  <1>3. Emit(t, [store[t] EXCEPT !.items = x])
    BY DEF ConfirmImport
  <1> HIDE DEF rows, x
  <1>4. x \in Seq(Item)
    BY <1>1, <1>2, ImportedItems DEF Merged, x
  <1>5. store'[t].items = x
    BY <1>2, <1>3 DEF Emit, IsState
  <1> QED
    BY <1>1, <1>2, <1>3, <1>4, <1>5, ItemsStock DEF rows, x

LEMMA ItemsNext == ASSUME ItemsInv, WizardInv, [StoreNext]_storeVars PROVE ItemsInv'
  <1>1. CASE UNCHANGED <<disk, store>>
    BY <1>1 DEF ItemsInv, Stocked
  <1>2. ASSUME NEW t \in Tabs, ReloadTab(t) PROVE ItemsInv'
    BY <1>2 DEF ReloadTab, ItemsInv, Stocked, IsState
  <1>3. ASSUME NEW t \in Tabs,
               \/ OutletsScreen(t) \/ IssueCodeForm(t) \/ StaffScreen(t) \/ BomsScreen(t)
               \/ RevokeDevice(t) \/ SettingsScreen(t)
        PROVE  ItemsInv'
    <2>1. PICK x : Emit(t, [store[t] EXCEPT !.slice = x])
      BY <1>3 DEF OutletsScreen, IssueCodeForm, StaffScreen, BomsScreen, SettingsScreen,
         RevokeDevice, Adds, Edits
    <2> QED
      BY <2>1, SliceStocks
  <1>4. ASSUME NEW t \in Tabs, CatalogScreen(t) PROVE ItemsInv'
    <2>1. store[t].items \in Seq(Item)
      BY DEF ItemsInv, Stocked
    <2>2. PICK draft \in Item :
             \/ Emit(t, [store[t] EXCEPT !.items = Append(@, draft)])
             \/ \E i \in DOMAIN store[t].items : Emit(t, [store[t] EXCEPT !.items[i] = draft])
      BY <1>4 DEF CatalogScreen, Item
    <2>3. CASE Emit(t, [store[t] EXCEPT !.items = Append(@, draft)])
      <3>1. PICK x : x = Append(store[t].items, draft)
        OBVIOUS
      <3>2. x \in Seq(Item)
        BY <2>1, <3>1
      <3>3. Emit(t, [store[t] EXCEPT !.items = x])
        BY <2>3, <3>1
      <3> QED
        BY <3>2, <3>3, ItemsStock
    <2>4. ASSUME NEW i \in DOMAIN store[t].items, Emit(t, [store[t] EXCEPT !.items[i] = draft])
          PROVE  ItemsInv'
      <3>1. PICK x : x = [store[t].items EXCEPT ![i] = draft]
        OBVIOUS
      <3>2. x \in Seq(Item)
        BY <2>1, <3>1
      <3>3. Emit(t, [store[t] EXCEPT !.items = x])
        BY <2>4, <3>1
      <3> QED
        BY <3>2, <3>3, ItemsStock
    <2> QED
      BY <2>2, <2>3, <2>4
  <1>5. ASSUME NEW t \in Tabs, SetItemActive(t) PROVE ItemsInv'
    <2>1. store[t].items \in Seq(Item)
      BY DEF ItemsInv, Stocked
    <2>2. PICK i \in DOMAIN store[t].items, v \in Values :
             Emit(t, [store[t] EXCEPT !.items[i].value = v])
      BY <1>5 DEF SetItemActive
    <2>3. PICK x : x = [store[t].items EXCEPT ![i].value = v]
      OBVIOUS
    <2>4. x \in Seq(Item)
      <3>1. [sku |-> CHOOSE k \in Skus : TRUE, value |-> v] \in Item
        BY StoreAssumption DEF Item
      <3> QED
        BY <2>1, <2>3, <3>1, EditedItems
    <2>5. Emit(t, [store[t] EXCEPT !.items = x])
      BY <2>2, <2>3
    <2> QED
      BY <2>4, <2>5, ItemsStock
  <1>6. ASSUME NEW t \in Tabs, ConfirmImport(t) PROVE ItemsInv'
    BY <1>6, ImportStocks
  <1>7. ASSUME NEW t \in Tabs, NEW x, MatchAnswered(t, x) PROVE ItemsInv'
    <2>1. PICK y : y = store[t].unmatched \ {x}
      OBVIOUS
    <2>2. Emit(t, [store[t] EXCEPT !.unmatched = y])
      BY <1>7, <2>1 DEF MatchAnswered, Removed
    <2> QED
      BY <2>2, SliceStocks
  <1>8. ASSUME NEW t \in Tabs,
               \/ LeaveRoute(t) \/ ResetWizard(t)
               \/ \E f \in DOMAIN Files : ChooseFile(t, f) \/ FileRead(t, f) \/ ReadFails(t, f)
               \/ \E x \in Tenders : ClickMatch(t, x) \/ ApiMatches(t, x) \/ MatchFails(t, x)
        PROVE  UNCHANGED <<disk, store>>
    BY <1>8 DEF LeaveRoute, ResetWizard, ChooseFile, FileRead, ReadFails, ClickMatch, ApiMatches,
       MatchFails, Stays
  <1> QED
    BY <1>1, <1>2, <1>3, <1>4, <1>5, <1>6, <1>7, <1>8 DEF StoreNext, storeVars

LEMMA WizardNext == ASSUME WizardInv, [StoreNext]_storeVars PROVE WizardInv'
  <1>1. CASE UNCHANGED wizard
    BY <1>1 DEF WizardInv
  <1>2. NoFile \in Wizard
    BY DEF NoFile, Wizard
  <1>3. ASSUME NEW t \in Tabs, ReloadTab(t) \/ LeaveRoute(t) PROVE WizardInv'
    BY <1>2, <1>3 DEF ReloadTab, LeaveRoute, WizardInv
  <1>4. ASSUME NEW w \in Wizard, NEW f \in DOMAIN Files
        PROVE  /\ [w EXCEPT !.named = f, !.reading = @ \union {f}] \in Wizard
               /\ [w EXCEPT !.reading = @ \ {f}, !.parsed = f] \in Wizard
               /\ [w EXCEPT !.reading = @ \ {f}] \in Wizard
               /\ [w EXCEPT !.named = Blank, !.parsed = Blank] \in Wizard
    BY DEF Wizard
  <1>5. ASSUME NEW t \in Tabs, NEW f \in DOMAIN Files, ChooseFile(t, f) \/ FileRead(t, f) \/ ReadFails(t, f)
        PROVE  WizardInv'
    <2>1. wizard[t] \in Wizard
      BY DEF WizardInv
    <2>2. /\ [wizard[t] EXCEPT !.named = f, !.reading = @ \union {f}] \in Wizard
          /\ [wizard[t] EXCEPT !.reading = @ \ {f}, !.parsed = f] \in Wizard
          /\ [wizard[t] EXCEPT !.reading = @ \ {f}] \in Wizard
      BY <1>4, <2>1
    <2>3. CASE ChooseFile(t, f)
      BY <2>2, <2>3 DEF ChooseFile, WizardInv
    <2>4. CASE FileRead(t, f)
      BY <2>2, <2>4 DEF FileRead, WizardInv
    <2>5. CASE ReadFails(t, f)
      BY <2>2, <2>5 DEF ReadFails, WizardInv
    <2> QED
      BY <1>5, <2>3, <2>4, <2>5
  <1>6. ASSUME NEW t \in Tabs, ResetWizard(t) PROVE WizardInv'
    <2>1. wizard[t] \in Wizard
      BY DEF WizardInv
    <2>2. [wizard[t] EXCEPT !.named = Blank, !.parsed = Blank] \in Wizard
      BY <2>1 DEF Wizard
    <2> QED
      BY <1>6, <2>2 DEF ResetWizard, WizardInv
  <1>7. ASSUME NEW t \in Tabs,
               \/ SetItemActive(t) \/ ConfirmImport(t) \/ CatalogScreen(t)
               \/ OutletsScreen(t) \/ IssueCodeForm(t) \/ StaffScreen(t) \/ BomsScreen(t)
               \/ RevokeDevice(t) \/ SettingsScreen(t)
               \/ \E x \in Tenders :
                    ClickMatch(t, x) \/ ApiMatches(t, x) \/ MatchAnswered(t, x) \/ MatchFails(t, x)
        PROVE  UNCHANGED wizard
    BY <1>7 DEF SetItemActive, ConfirmImport, CatalogScreen, OutletsScreen, IssueCodeForm, StaffScreen,
       BomsScreen, RevokeDevice, SettingsScreen, ClickMatch, ApiMatches, MatchAnswered, MatchFails,
       NothingElse
  <1> QED
    BY <1>1, <1>3, <1>5, <1>6, <1>7 DEF StoreNext, storeVars

(* Every row of an imported file is an item afterwards, no sku it names has  *)
(* more items than before or one, and the other items are as they were,      *)
(* whatever the forms and the other tab have made of the catalog.            *)
THEOREM ImportsLand == StoreInit /\ [][StoreNext]_storeVars => ImportLandsWhole
  <1>1. StoreInit => ItemsInv /\ WizardInv
    <2> SUFFICES ASSUME StoreInit PROVE ItemsInv /\ WizardInv
      OBVIOUS
    <2>1. Seed.items \in Seq(Item) /\ IsState(Seed)
      BY StoreAssumption DEF Seed, Item, IsState
    <2>2. NoFile \in Wizard
      BY DEF NoFile, Wizard
    <2> QED
      BY <2>1, <2>2 DEF StoreInit, ItemsInv, WizardInv, Stocked
  <1>2. ItemsInv /\ WizardInv /\ [StoreNext]_storeVars => ItemsInv' /\ WizardInv'
    BY ItemsNext, WizardNext
  <1>3. ItemsInv /\ WizardInv =>
           \A t \in Tabs : ConfirmImport(t) =>
              ImportLands(store[t].items, store'[t].items, Files[wizard[t].parsed])
    BY ImportStocks, LandsWhole
  <1> QED
    BY <1>1, <1>2, <1>3, PTL DEF ImportLandsWhole

-----------------------------------------------------------------------------
(* The pages of a table show its rows *)

LEMMA Extremes ==
  ASSUME NEW a \in Int, NEW b \in Int
  PROVE  Max({a, b}) = (IF a >= b THEN a ELSE b) /\ Min({a, b}) = (IF a <= b THEN a ELSE b)
  <1>1. \E x \in {a, b} : \A y \in {a, b} : x >= y
    OBVIOUS
  <1>2. \E x \in {a, b} : \A y \in {a, b} : x <= y
    OBVIOUS
  <1>3. Max({a, b}) \in {a, b} /\ \A y \in {a, b} : Max({a, b}) >= y
    BY <1>1 DEF Max
  <1>4. Min({a, b}) \in {a, b} /\ \A y \in {a, b} : Min({a, b}) <= y
    BY <1>2 DEF Min
  <1> QED
    BY <1>3, <1>4

LEMMA Products ==
  ASSUME NEW T \in Nat \ {0}
  PROVE  /\ \A a \in Int : a * T \in Int /\ (a + 1) * T = a * T + T
         /\ \A a, b \in Int : a <= b => a * T <= b * T
         /\ \A a \in Nat : a * T \in Nat
         /\ 0 * T = 0
  OBVIOUS

LEMMA Quotient ==
  ASSUME NEW T \in Nat \ {0}, NEW a \in Nat
  PROVE  a \div T \in Nat /\ (a \div T) * T <= a /\ a < (a \div T) * T + T
  OBVIOUS

(* The pages are as many as the rows fill, and one for no rows.              *)
LEMMA PagesNeeded ==
  ASSUME NEW X, NEW rows \in Seq(X)
  PROVE  LET C == PageCount(rows) IN
         /\ C \in Nat \ {0} /\ Len(rows) <= C * TableSize
         /\ rows # <<>> => (C - 1) * TableSize < Len(rows)
         /\ rows = <<>> => C = 1
  <1> DEFINE N == Len(rows)
             T == TableSize
             q == (N + T - 1) \div T
  <1>1. N \in Nat /\ T \in Nat \ {0} /\ N + T - 1 \in Nat /\ (rows = <<>> <=> N = 0)
    BY ConstantsAssumption
  <1>2. PageCount(rows) = IF 1 >= q THEN 1 ELSE q
    <2>1. q \in Int
      BY <1>1, Quotient
    <2> HIDE DEF q
    <2> QED
      BY <2>1, Extremes DEF PageCount, q
  <1>3. q \in Nat /\ q * T <= N + T - 1 /\ N + T - 1 < q * T + T
    <2> DEFINE a == N + T - 1
    <2>1. a \in Nat
      BY <1>1
    <2> HIDE DEF a
    <2>2. a \div T \in Nat /\ (a \div T) * T <= a /\ a < (a \div T) * T + T
      BY <1>1, <2>1, Quotient
    <2> QED
      BY <2>2 DEF a
  <1> HIDE DEF N, T, q
  <1>4. /\ (q - 1) * T = q * T - T /\ q * T \in Int /\ 1 * T = T /\ 0 * T = 0
    <2>1. (q - 1 + 1) * T = (q - 1) * T + T /\ (q - 1) * T \in Int /\ (0 + 1) * T = 0 * T + T
          /\ q * T \in Int /\ 0 * T = 0
      BY <1>1, <1>3, Products
    <2>2. q - 1 + 1 = q /\ 0 + 1 = 1
      BY <1>3
    <2> QED
      BY <1>1, <2>1, <2>2
  <1>5. CASE q >= 1
    <2>1. PageCount(rows) = q
      BY <1>2, <1>3, <1>5
    <2>2. N <= q * T
      BY <1>1, <1>3, <1>4
    <2>3. (q - 1) * T < N
      BY <1>1, <1>3, <1>4
    <2>4. N # 0
      <3>1. 0 * T <= (q - 1) * T
        BY <1>1, <1>3, <1>5, Products
      <3> QED
        BY <1>1, <1>4, <2>3, <3>1
    <2> QED
      BY <1>1, <1>3, <1>5, <2>1, <2>2, <2>3, <2>4 DEF N, T
  <1>6. CASE q = 0
    <2>1. N = 0 /\ PageCount(rows) = 1
      BY <1>1, <1>2, <1>3, <1>4, <1>6
    <2>2. N <= 1 * T
      BY <1>1, <1>4, <2>1
    <2> QED
      BY <1>1, <2>1, <2>2 DEF N, T
  <1> QED
    BY <1>3, <1>5, <1>6

(* The rows up to the end of a page.                                         *)
Cut(rows, i) == IF i * TableSize <= Len(rows) THEN i * TableSize ELSE Len(rows)

LEMMA PageOfTable ==
  ASSUME NEW X, NEW rows \in Seq(X), NEW p \in Nat
  PROVE  LET C == PageCount(rows)
             page == IF p <= C - 1 THEN p ELSE C - 1
         IN TablePage(rows, p) = SubSeq(rows, page * TableSize + 1, Cut(rows, page + 1))
  <1> DEFINE C == PageCount(rows)
             page == IF p <= C - 1 THEN p ELSE C - 1
             N == Len(rows)
             T == TableSize
  <1>1. C \in Nat \ {0} /\ N \in Nat /\ T \in Nat \ {0}
    BY PagesNeeded, ConstantsAssumption
  <1>2. Min({p, C - 1}) = page /\ page \in Nat
    <2>1. C - 1 \in Int /\ p \in Int
      BY <1>1
    <2>2. Min({p, C - 1}) = IF p <= C - 1 THEN p ELSE C - 1
      BY <2>1, Extremes
    <2>3. page \in Nat
      BY <1>1
    <2> QED
      BY <2>2, <2>3
  <1> HIDE DEF page, C
  <1>3. page * T \in Nat /\ (page + 1) * T = page * T + T
    <2>1. page \in Int
      BY <1>2
    <2> QED
      BY <1>1, <1>2, <2>1, Products
  <1>4. Min({N, page * T + T}) = Cut(rows, page + 1)
    <2>1. N \in Int /\ page * T + T \in Int
      BY <1>1, <1>3
    <2>2. Min({N, page * T + T}) = IF N <= page * T + T THEN N ELSE page * T + T
      BY <2>1, Extremes
    <2> QED
      BY <1>1, <1>3, <2>2 DEF Cut
  <1> QED
    BY <1>2, <1>4 DEF TablePage, C, page

LEMMA CutsGrow ==
  ASSUME NEW X, NEW rows \in Seq(X), NEW i \in 1 .. PageCount(rows)
  PROVE  /\ Cut(rows, i) \in Nat /\ Cut(rows, i) <= Len(rows)
         /\ (i - 1) * TableSize \in Nat /\ (i - 1) * TableSize <= Cut(rows, i)
         /\ Cut(rows, i - 1) = (i - 1) * TableSize
         /\ rows # <<>> => (i - 1) * TableSize < Cut(rows, i)
  <1> DEFINE C == PageCount(rows)
             N == Len(rows)
             T == TableSize
  <1>1. /\ C \in Nat \ {0} /\ N \in Nat /\ T \in Nat \ {0}
        /\ rows # <<>> => (C - 1) * T < N
        /\ rows = <<>> => C = 1
    BY PagesNeeded, ConstantsAssumption
  <1> HIDE DEF C
  <1>2. i \in Nat /\ i >= 1 /\ i <= C /\ i - 1 \in Nat /\ i - 1 <= C - 1 /\ C - 1 \in Nat
    BY <1>1 DEF C
  <1>3. i * T = (i - 1) * T + T /\ (i - 1) * T \in Nat /\ (i - 1) * T <= (C - 1) * T /\ 0 * T = 0
    <2>1. (i - 1) + 1 = i /\ i - 1 \in Int /\ C - 1 \in Int
      BY <1>2
    <2>2. ((i - 1) + 1) * T = (i - 1) * T + T /\ (i - 1) * T \in Nat /\ (i - 1) * T <= (C - 1) * T /\ 0 * T = 0
      BY <1>1, <1>2, <2>1, Products
    <2> QED
      BY <2>1, <2>2
  <1>4. (C - 1) * T \in Nat
    BY <1>1, <1>2, Products
  <1>5. (i - 1) * T <= N
    <2>1. CASE rows = <<>>
      <3>1. (C - 1) * T = 0
        BY <1>1, <1>3, <2>1
      <3> QED
        BY <1>1, <1>3, <3>1
    <2>2. CASE rows # <<>>
      BY <1>1, <1>3, <1>4, <2>2
    <2> QED
      BY <2>1, <2>2
  <1>6. Cut(rows, i - 1) = (i - 1) * T
    BY <1>5 DEF Cut
  <1>7. rows # <<>> => (i - 1) * T < Cut(rows, i)
    <2>1. rows # <<>> => (i - 1) * T < N
      BY <1>1, <1>3, <1>4
    <2> DEFINE a == (i - 1) * T
    <2>2. a \in Nat /\ i * T = a + T
      BY <1>3
    <2> HIDE DEF a
    <2>3. a < a + T
      BY <1>1, <2>2
    <2> QED
      BY <2>1, <2>2, <2>3 DEF Cut, a
  <1>8. Cut(rows, i) \in Nat /\ Cut(rows, i) <= N /\ (i - 1) * T <= Cut(rows, i)
    <2> DEFINE a == (i - 1) * T
    <2>1. a \in Nat /\ i * T = a + T /\ a <= N
      BY <1>3, <1>5
    <2> HIDE DEF a, N, T
    <2>2. a + T \in Nat /\ a <= a + T
      BY <1>1, <2>1
    <2>3. Cut(rows, i) = IF a + T <= N THEN a + T ELSE N
      BY <2>1 DEF Cut, N, T
    <2>4. Cut(rows, i) \in Nat /\ Cut(rows, i) <= N /\ a <= Cut(rows, i)
      BY <1>1, <2>1, <2>2, <2>3
    <2> QED
      BY <2>4 DEF a, N, T
  <1> QED
    BY <1>3, <1>6, <1>7, <1>8

LEMMA Ahead ==
  ASSUME NEW X, NEW s \in Seq(X), NEW a \in Nat, NEW b \in Nat, a <= b, b <= Len(s)
  PROVE  /\ SubSeq(s, 1, a) \o SubSeq(s, a + 1, b) = SubSeq(s, 1, b)
         /\ SubSeq(s, a + 1, b) \in Seq(X) /\ (a < b => SubSeq(s, a + 1, b) # <<>>)
  <1> DEFINE front == SubSeq(s, 1, a)
             back == SubSeq(s, a + 1, b)
             whole == SubSeq(s, 1, b)
  <1>1. \A i \in 1 .. b : s[i] \in X
    BY DEF Seq
  <1>2. front \in Seq(X) /\ Len(front) = a /\ \A i \in 1 .. a : front[i] = s[i]
    BY <1>1, SubSeqProperties
  <1>3. whole \in Seq(X) /\ Len(whole) = b /\ \A i \in 1 .. b : whole[i] = s[i]
    BY <1>1, SubSeqProperties
  <1>4. back \in Seq(X) /\ Len(back) = b - a /\ \A i \in 1 .. (b - a) : back[i] = s[a + i]
    BY <1>1, SubSeqProperties
  <1> HIDE DEF front, back, whole
  <1>5. /\ front \o back \in Seq(X) /\ Len(front \o back) = b
        /\ \A i \in 1 .. b : (front \o back)[i] = IF i <= a THEN front[i] ELSE back[i - a]
    <2>1. /\ front \o back \in Seq(X) /\ Len(front \o back) = Len(front) + Len(back)
          /\ \A i \in 1 .. Len(front) + Len(back) :
                (front \o back)[i] = IF i <= Len(front) THEN front[i] ELSE back[i - Len(front)]
      BY <1>2, <1>4, ConcatProperties, ZenonT(30)
    <2>2. Len(front) = a /\ Len(front) + Len(back) = b
      BY <1>2, <1>4
    <2> QED
      BY <2>1, <2>2, Zenon
  <1>6. ASSUME NEW i \in 1 .. b PROVE (front \o back)[i] = whole[i]
    <2>1. CASE i <= a
      <3>1. i \in 1 .. a
        BY <2>1
      <3>2. front[i] = s[i] /\ whole[i] = s[i]
        BY <1>2, <1>3, <3>1
      <3> QED
        BY <1>5, <2>1, <3>2
    <2>2. CASE ~(i <= a)
      <3>1. i - a \in 1 .. (b - a) /\ a + (i - a) = i
        BY <2>2
      <3> QED
        BY <1>3, <1>4, <1>5, <2>2, <3>1
    <2> QED
      BY <2>1, <2>2
  <1>7. front \o back = whole
    BY <1>3, <1>5, <1>6, SeqEqual
  <1>8. a < b => back # <<>>
    BY <1>4
  <1> QED
    BY <1>4, <1>7, <1>8 DEF front, back, whole

LEMMA RowsOfPage ==
  ASSUME NEW X, NEW rows \in Seq(X), NEW i \in 1 .. PageCount(rows)
  PROVE  TablePage(rows, i - 1) = SubSeq(rows, Cut(rows, i - 1) + 1, Cut(rows, i))
  <1>1. PageCount(rows) \in Nat
    BY PagesNeeded
  <1>2. i - 1 \in Nat /\ i - 1 <= PageCount(rows) - 1 /\ (i - 1) + 1 = i
    BY <1>1
  <1>3. TablePage(rows, i - 1) = SubSeq(rows, (i - 1) * TableSize + 1, Cut(rows, (i - 1) + 1))
    BY <1>2, PageOfTable
  <1> QED
    BY <1>2, <1>3, CutsGrow

(* The pages laid end to end are the rows.                                   *)
LEMMA PagesAreRows ==
  ASSUME NEW X, NEW rows \in Seq(X)
  PROVE  FlattenSeq([p \in 1 .. PageCount(rows) |-> TablePage(rows, p - 1)]) = rows
  <1> DEFINE C == PageCount(rows)
             seqs == [p \in 1 .. C |-> TablePage(rows, p - 1)]
             F == [i \in 1 .. C |-> SubSeq(rows, 1, Cut(rows, i))]
             Flattens(g) == g = [i \in 1 .. C |-> IF i = 1 THEN seqs[i] ELSE g[i - 1] \o seqs[i]]
  <1>1. C \in Nat \ {0} /\ Len(rows) \in Nat
    BY PagesNeeded
  <1>2. Len(seqs) = C
    <2> HIDE DEF C
    <2> QED
      BY <1>1
  <1>3. FlattenSeq(seqs) = (CHOOSE g : Flattens(g))[C]
    BY <1>1, <1>2 DEF FlattenSeq
  <1> HIDE DEF seqs
  <1>4. \A i \in 1 .. C : seqs[i] = SubSeq(rows, Cut(rows, i - 1) + 1, Cut(rows, i))
    BY RowsOfPage DEF seqs
  <1>5. ASSUME NEW i \in 1 .. C
        PROVE  F[i] = IF i = 1 THEN seqs[i] ELSE F[i - 1] \o seqs[i]
    <2>1. /\ Cut(rows, i) \in Nat /\ Cut(rows, i) <= Len(rows)
          /\ Cut(rows, i - 1) \in Nat /\ Cut(rows, i - 1) <= Cut(rows, i)
          /\ Cut(rows, i - 1) = (i - 1) * TableSize
      BY CutsGrow
    <2>2. SubSeq(rows, 1, Cut(rows, i - 1)) \o seqs[i] = SubSeq(rows, 1, Cut(rows, i))
      BY <1>4, <2>1, Ahead, ZenonT(30)
    <2>3. CASE i = 1
      <3>1. Cut(rows, i - 1) = 0
        <4>1. 0 * TableSize = 0 /\ i - 1 = 0
          BY <2>3, Products, ConstantsAssumption
        <4> QED
          BY <2>1, <4>1
      <3> QED
        BY <1>4, <2>3, <3>1
    <2>4. CASE i # 1
      <3>1. i - 1 \in 1 .. C
        BY <1>1, <2>4
      <3> QED
        BY <2>2, <2>4, <3>1
    <2> QED
      BY <2>3, <2>4
  <1>6. Flattens(F)
    <2>1. F = [i \in 1 .. C |-> F[i]]
      OBVIOUS
    <2> HIDE DEF F, C
    <2> QED
      BY <1>5, <2>1
  <1> DEFINE G == CHOOSE g : Flattens(g)
  <1>7. Flattens(G)
    BY <1>6
  <1> HIDE DEF G, F, C
  <1>8. \A i \in 1 .. C : G[i] = F[i]
    <2> DEFINE amiss == {i \in 1 .. C : G[i] # F[i]}
    <2> SUFFICES ASSUME amiss # {} PROVE FALSE
      OBVIOUS
    <2>1. amiss \subseteq Nat
      BY <1>1
    <2>2. PICK i \in amiss : \A j \in amiss : i <= j
      BY <2>1, LeastNumber
    <2>3. i \in 1 .. C /\ G[i] # F[i]
      OBVIOUS
    <2>4. G[i] = IF i = 1 THEN seqs[i] ELSE G[i - 1] \o seqs[i]
      BY <1>7, <2>3
    <2>5. F[i] = IF i = 1 THEN seqs[i] ELSE F[i - 1] \o seqs[i]
      BY <1>5, <2>3
    <2>6. i # 1
      BY <2>3, <2>4, <2>5
    <2>7. i - 1 \in 1 .. C /\ ~(i <= i - 1)
      BY <1>1, <2>3, <2>6
    <2>8. G[i - 1] = F[i - 1]
      BY <2>2, <2>7
    <2> QED
      BY <2>3, <2>4, <2>5, <2>6, <2>8
  <1>9. F[C] = rows
    <2>1. C \in 1 .. C
      BY <1>1
    <2>2. F[C] = SubSeq(rows, 1, Cut(rows, C))
      BY <2>1 DEF F
    <2>3. Cut(rows, C) = Len(rows)
      <3>1. Len(rows) <= C * TableSize /\ Cut(rows, C) \in Nat /\ Cut(rows, C) <= Len(rows)
        BY <2>1, PagesNeeded, CutsGrow DEF C
      <3>2. Cut(rows, C) = IF C * TableSize <= Len(rows) THEN C * TableSize ELSE Len(rows)
        BY DEF Cut
      <3>3. C * TableSize \in Nat
        BY <1>1, ConstantsAssumption, Products
      <3> QED
        BY <1>1, <3>1, <3>2, <3>3
    <2> QED
      BY <2>2, <2>3, SubSeqFull
  <1>10. G[C] = rows
    BY <1>1, <1>8, <1>9
  <1> QED
    BY <1>3, <1>10 DEF G, seqs, C

LEMMA NoEmptyPage ==
  ASSUME NEW X, NEW rows \in Seq(X), rows # <<>>, NEW p \in 0 .. Len(rows)
  PROVE  TablePage(rows, p) # <<>>
  <1> DEFINE C == PageCount(rows)
             page == IF p <= C - 1 THEN p ELSE C - 1
  <1>1. C \in Nat \ {0}
    BY PagesNeeded
  <1>2. p \in Nat
    OBVIOUS
  <1>3. TablePage(rows, p) = SubSeq(rows, page * TableSize + 1, Cut(rows, page + 1))
    BY <1>2, PageOfTable
  <1>4. page + 1 \in 1 .. C /\ (page + 1) - 1 = page
    <2> HIDE DEF C
    <2> QED
      BY <1>1, <1>2
  <1> HIDE DEF page
  <1>5. /\ Cut(rows, page + 1) \in Nat /\ Cut(rows, page + 1) <= Len(rows)
        /\ page * TableSize \in Nat /\ page * TableSize < Cut(rows, page + 1)
        /\ page * TableSize <= Cut(rows, page + 1)
    BY <1>4, CutsGrow
  <1> QED
    BY <1>3, <1>5, Ahead

-----------------------------------------------------------------------------
(* The pages of a bucket *)

(* In a chain of sets, each is of a size of its own, and no size is left out.*)
Chain(S, up) ==
    /\ up \in [S -> SUBSET S] /\ \A s \in S : s \in up[s]
    /\ \A s, u \in S : s # u =>
          (up[s] \subseteq up[u] /\ u \notin up[s]) \/ (up[u] \subseteq up[s] /\ s \notin up[u])

LEMMA Ranks ==
  ASSUME NEW S, IsFiniteSet(S), NEW up, Chain(S, up)
  PROVE  /\ Cardinality(S) \in Nat
         /\ \A s \in S : Cardinality(up[s]) \in 1 .. Cardinality(S)
         /\ \A s, u \in S : up[s] \subseteq up[u] /\ u \notin up[s] =>
               Cardinality(up[s]) < Cardinality(up[u])
         /\ \A s, u \in S : Cardinality(up[s]) = Cardinality(up[u]) => s = u
         /\ \A n \in 1 .. Cardinality(S) : \E s \in S : Cardinality(up[s]) = n
  <1> DEFINE size == Cardinality(S)
             rank == [s \in S |-> Cardinality(up[s])]
  <1>1. size \in Nat
    BY FS_CardinalityType
  <1>2. ASSUME NEW s \in S
        PROVE  IsFiniteSet(up[s]) /\ rank[s] \in 1 .. size /\ rank[s] \in Nat
    <2>1. up[s] \subseteq S /\ up[s] # {}
      BY DEF Chain
    <2>2. IsFiniteSet(up[s]) /\ Cardinality(up[s]) <= size
      BY <2>1, FS_Subset
    <2>3. Cardinality(up[s]) \in Nat /\ Cardinality(up[s]) # 0
      BY <2>1, <2>2, FS_CardinalityType, FS_EmptySet
    <2> HIDE DEF size
    <2> QED
      BY <1>1, <2>2, <2>3
  <1>3. ASSUME NEW s \in S, NEW u \in S, up[s] \subseteq up[u], u \notin up[s]
        PROVE  rank[s] < rank[u]
    <2>1. u \in up[u] /\ IsFiniteSet(up[u])
      BY <1>2 DEF Chain
    <2>2. Cardinality(up[s]) <= Cardinality(up[u]) /\ Cardinality(up[s]) # Cardinality(up[u])
      BY <1>3, <2>1, FS_Subset
    <2>3. rank[s] \in Nat /\ rank[u] \in Nat
      BY <1>2
    <2> QED
      BY <2>2, <2>3
  <1>4. ASSUME NEW s \in S, NEW u \in S, s # u PROVE rank[s] # rank[u]
    <2>1. rank[s] < rank[u] \/ rank[u] < rank[s]
      BY <1>3, <1>4 DEF Chain
    <2>2. rank[s] \in Nat /\ rank[u] \in Nat
      BY <1>2
    <2> HIDE DEF rank
    <2> QED
      BY <2>1, <2>2
  <1> HIDE DEF size
  <1>5. rank \in Injection(S, 1 .. size)
    BY <1>2, <1>4 DEF Injection, IsInjective
  <1>6. IsFiniteSet(1 .. size) /\ Cardinality(1 .. size) = size
    <2>1. Cardinality(1 .. size) = IF 1 > size THEN 0 ELSE size - 1 + 1
      BY <1>1, FS_Interval
    <2> QED
      BY <1>1, <2>1, FS_Interval
  <1>7. rank \in Surjection(S, 1 .. size)
    BY <1>5, <1>6, FS_Injection DEF size
  <1>8. \A n \in 1 .. size : \E s \in S : rank[s] = n
    BY <1>7 DEF Surjection
  <1> QED
    BY <1>1, <1>2, <1>3, <1>4, <1>8 DEF size

(* The query's order is total on the sales.                                  *)
LEMMA TotalOrder ==
  /\ \A s \in Sales : ~Precedes(s, s)
  /\ \A s, u \in Sales : s = u \/ Precedes(s, u) \/ Precedes(u, s)
  /\ \A s, u, w \in Sales : Precedes(s, u) /\ Precedes(u, w) => Precedes(s, w)
  <1>1. \A s \in Sales : s \in Nat /\ StampedAt[s] \in Nat
    BY ConstantsAssumption
  <1> QED
    BY <1>1 DEF Precedes

Place(S, s) == Cardinality({u \in S : ~Precedes(s, u)})

LEMMA SalesInOrder ==
  ASSUME NEW S \in SUBSET Sales
  PROVE  /\ Cardinality(S) \in Nat
         /\ \A n \in 1 .. Cardinality(S) : InOrder(S, n) \in S /\ Place(S, InOrder(S, n)) = n
         /\ \A s \in S : Place(S, s) \in 1 .. Cardinality(S) /\ InOrder(S, Place(S, s)) = s
         /\ \A s, u \in S : Place(S, s) < Place(S, u) => Precedes(s, u)
  <1> DEFINE up == [s \in S |-> {u \in S : ~Precedes(s, u)}]
  <1>1. IsFiniteSet(S)
    BY AmountCounts
  <1>2. \A s, u \in S : Precedes(s, u) => up[s] \subseteq up[u] /\ u \notin up[s] /\ u # s
    BY TotalOrder
  <1>3. Chain(S, up)
    <2>1. up \in [S -> SUBSET S] /\ \A s \in S : s \in up[s]
      BY TotalOrder
    <2> HIDE DEF up
    <2> QED
      BY <1>2, <2>1, TotalOrder DEF Chain
  <1>4. \A s \in S : Place(S, s) = Cardinality(up[s])
    BY DEF Place
  <1> HIDE DEF up
  <1>5. /\ Cardinality(S) \in Nat
        /\ \A s \in S : Place(S, s) \in 1 .. Cardinality(S)
        /\ \A s, u \in S : Precedes(s, u) => Place(S, s) < Place(S, u)
        /\ \A s, u \in S : Place(S, s) = Place(S, u) => s = u
        /\ \A n \in 1 .. Cardinality(S) : \E s \in S : Place(S, s) = n
    BY <1>1, <1>2, <1>3, <1>4, Ranks
  <1>6. ASSUME NEW n \in 1 .. Cardinality(S)
        PROVE  InOrder(S, n) \in S /\ Place(S, InOrder(S, n)) = n
    <2>1. \E s \in S : Cardinality({u \in S : ~Precedes(s, u)}) = n
      BY <1>5 DEF Place
    <2> QED
      BY <2>1 DEF InOrder, Place
  <1>7. \A s \in S : InOrder(S, Place(S, s)) = s
    BY <1>5, <1>6
  <1>8. ASSUME NEW s \in S, NEW u \in S, Place(S, s) < Place(S, u)
        PROVE  Precedes(s, u)
    <2>1. Place(S, s) \in Nat /\ Place(S, u) \in Nat
      BY <1>5
    <2>2. s # u /\ ~Precedes(u, s)
      BY <1>5, <1>8, <2>1
    <2> QED
      BY <2>2, TotalOrder
  <1> QED
    BY <1>5, <1>6, <1>7, <1>8

Increasing(rows) == \A i, j \in 1 .. Len(rows) : i < j => Precedes(rows[i], rows[j])

(* A page begins a set of sales in order, and tells where it stops.          *)
PageOf(S, page) ==
    /\ page.rows \in Seq(Sales) /\ Range(page.rows) \subseteq S /\ Increasing(page.rows)
    /\ page.next = NoSale => Range(page.rows) = S
    /\ page.next # NoSale =>
         /\ page.rows # <<>> /\ page.next = page.rows[Len(page.rows)] /\ page.next \in Sales
         /\ \A s \in S : s \in Range(page.rows) \/ Precedes(page.next, s)

LEMMA PagesInOrder ==
  ASSUME WorldInv, NEW o, NEW d, NEW token
  PROVE  PageOf({s \in Bucket(o, d) : Behind(token, s)}, SalesPage(o, d, token))
  <1> DEFINE S == {s \in Bucket(o, d) : Behind(token, s)}
             size == Cardinality(S)
             page == SalesPage(o, d, token)
             n == IF PageSize <= size THEN PageSize ELSE size
             rows == [i \in 1 .. n |-> InOrder(S, i)]
  <1>1. S \in SUBSET Sales
    BY DEF WorldInv, Bucket
  <1> HIDE DEF S
  <1>2. /\ size \in Nat
        /\ \A i \in 1 .. size : InOrder(S, i) \in S /\ Place(S, InOrder(S, i)) = i
        /\ \A s \in S : Place(S, s) \in 1 .. size /\ InOrder(S, Place(S, s)) = s
        /\ \A s, u \in S : Place(S, s) < Place(S, u) => Precedes(s, u)
    BY <1>1, SalesInOrder
  <1> HIDE DEF size
  <1>3. PageSize \in Nat \ {0} /\ n \in Nat /\ n <= size /\ n <= PageSize
    BY <1>2, ConstantsAssumption
  <1>4. /\ page.rows = rows
        /\ page.next = IF size > PageSize THEN InOrder(S, PageSize) ELSE NoSale
    <2>1. Min({PageSize, size}) = n
      <3>1. PageSize \in Int /\ size \in Int
        BY <1>2, <1>3
      <3> QED
        BY <3>1, Extremes
    <2> HIDE DEF n
    <2> QED
      BY <2>1 DEF SalesPage, S, size
  <1>5. \A i \in 1 .. n : i \in 1 .. size /\ rows[i] \in S /\ Place(S, rows[i]) = i
    <2>1. \A i \in 1 .. n : i \in 1 .. size
      BY <1>2, <1>3
    <2> HIDE DEF n
    <2> QED
      BY <1>2, <2>1
  <1> HIDE DEF n
  <1>6. rows \in Seq(Sales) /\ Len(rows) = n /\ DOMAIN rows = 1 .. n
    <2>1. \A i \in 1 .. n : InOrder(S, i) \in Sales
      BY <1>1, <1>2, <1>5
    <2> QED
      BY <1>3, <2>1
  <1>7. Range(rows) \subseteq S
    BY <1>5, <1>6 DEF Range
  <1>8. Increasing(rows)
    <2> SUFFICES ASSUME NEW i \in 1 .. n, NEW j \in 1 .. n, i < j PROVE Precedes(rows[i], rows[j])
      BY <1>6 DEF Increasing
    <2> HIDE DEF rows
    <2> QED
      BY <1>2, <1>5
  <1>9. \A s \in S : Place(S, s) \in 1 .. n => s \in Range(rows)
    <2> SUFFICES ASSUME NEW s \in S, Place(S, s) \in 1 .. n PROVE s \in Range(rows)
      OBVIOUS
    <2>1. rows[Place(S, s)] = s
      BY <1>2
    <2> QED
      BY <1>6, <2>1 DEF Range
  <1>10. CASE size > PageSize
    <2>1. n = PageSize /\ n \in 1 .. n
      BY <1>2, <1>3, <1>10 DEF n
    <2>2. page.next = rows[n] /\ rows[n] \in S /\ Place(S, rows[n]) = n
      BY <1>4, <1>5, <1>10, <2>1
    <2>3. page.next # NoSale /\ page.next \in Sales /\ rows # <<>>
      BY <1>1, <1>6, <2>1, <2>2, ConstantsAssumption
    <2>4. ASSUME NEW s \in S PROVE s \in Range(rows) \/ Precedes(page.next, s)
      <3>1. Place(S, s) \in Nat /\ Place(S, s) >= 1
        BY <1>2
      <3>2. CASE Place(S, s) <= n
        BY <1>3, <1>9, <3>1, <3>2
      <3>3. CASE ~(Place(S, s) <= n)
        <4>1. Place(S, rows[n]) < Place(S, s)
          BY <1>3, <2>2, <3>1, <3>3
        <4> HIDE DEF rows
        <4> QED
          BY <1>2, <2>2, <4>1
      <3> QED
        BY <3>2, <3>3
    <2> HIDE DEF rows, page
    <2> QED
      BY <1>4, <1>6, <1>7, <1>8, <2>2, <2>3, <2>4 DEF PageOf, S, page
  <1>11. CASE ~(size > PageSize)
    <2>1. n = size
      BY <1>2, <1>3, <1>11 DEF n
    <2>2. S \subseteq Range(rows) /\ page.next = NoSale
      BY <1>2, <1>4, <1>9, <1>11, <2>1
    <2> HIDE DEF rows, page
    <2> QED
      BY <1>4, <1>6, <1>7, <1>8, <2>2 DEF PageOf, S, page
  <1> QED
    BY <1>10, <1>11

-----------------------------------------------------------------------------
(* The walk of a bucket *)

LEMMA JoinedInOrder ==
  ASSUME NEW s \in Seq(Sales), NEW u \in Seq(Sales), Increasing(s), Increasing(u),
         \A x \in Range(s), y \in Range(u) : Precedes(x, y)
  PROVE  /\ s \o u \in Seq(Sales) /\ Increasing(s \o u) /\ Range(s \o u) = Range(s) \union Range(u)
         /\ u # <<>> => s \o u # <<>> /\ (s \o u)[Len(s \o u)] = u[Len(u)]
  <1> DEFINE w == s \o u
             a == Len(s)
             c == Len(u)
  <1>1. a \in Nat /\ c \in Nat /\ DOMAIN s = 1 .. a /\ DOMAIN u = 1 .. c
    OBVIOUS
  <1>2. w \in Seq(Sales) /\ Len(w) = a + c /\ DOMAIN w = 1 .. a + c
        /\ (\A i \in 1 .. a : w[i] = s[i]) /\ (\A n \in 1 .. c : w[a + n] = u[n])
    BY Joined DEF IsJoin
  <1>3. (u # <<>> <=> c # 0) /\ (w # <<>> <=> Len(w) # 0)
    BY <1>2
  <1> HIDE DEF w, a, c
  <1>4. ASSUME NEW i \in 1 .. a + c
        PROVE  \/ i \in 1 .. a /\ w[i] = s[i] /\ w[i] \in Range(s)
               \/ i - a \in 1 .. c /\ w[i] = u[i - a] /\ w[i] \in Range(u)
    <2>1. CASE i <= a
      <3>1. i \in 1 .. a /\ w[i] = s[i]
        BY <1>1, <1>2, <2>1
      <3> QED
        BY <1>1, <3>1 DEF Range
    <2>2. CASE ~(i <= a)
      <3>1. i - a \in 1 .. c /\ a + (i - a) = i
        BY <1>1, <2>2
      <3>2. w[i] = u[i - a]
        BY <1>2, <3>1
      <3> QED
        BY <1>1, <3>1, <3>2 DEF Range
    <2> QED
      BY <2>1, <2>2
  <1>5. Increasing(w)
    <2> SUFFICES ASSUME NEW i \in 1 .. a + c, NEW j \in 1 .. a + c, i < j PROVE Precedes(w[i], w[j])
      BY <1>2 DEF Increasing
    <2>1. i \in Int /\ j \in Int
      OBVIOUS
    <2>2. CASE j \in 1 .. a
      <3>1. i \in 1 .. a
        BY <1>1, <2>2
      <3> QED
        BY <1>2, <2>2, <3>1 DEF Increasing, a
    <2>3. CASE i - a \in 1 .. c
      <3>1. j - a \in 1 .. c /\ i - a < j - a /\ a + (i - a) = i /\ a + (j - a) = j
        BY <1>1, <2>1, <2>3
      <3>2. w[i] = u[i - a] /\ w[j] = u[j - a]
        BY <1>2, <2>3, <3>1
      <3> QED
        BY <2>3, <3>1, <3>2 DEF Increasing, c
    <2>4. CASE i \in 1 .. a /\ j - a \in 1 .. c
      <3>1. ~(i - a \in 1 .. c) /\ ~(j \in 1 .. a)
        BY <1>1, <2>1, <2>4
      <3>2. w[i] \in Range(s) /\ w[j] \in Range(u)
        BY <1>4, <3>1
      <3> QED
        BY <3>2
    <2> QED
      BY <1>4, <2>2, <2>3, <2>4
  <1>6. Range(w) = Range(s) \union Range(u)
    <2>1. Range(w) \subseteq Range(s) \union Range(u)
      BY <1>2, <1>4 DEF Range
    <2>2. ASSUME NEW i \in 1 .. a PROVE s[i] \in Range(w)
      <3>1. i \in 1 .. a + c
        BY <1>1
      <3> QED
        BY <1>2, <3>1 DEF Range
    <2>3. ASSUME NEW n \in 1 .. c PROVE u[n] \in Range(w)
      <3>1. a + n \in 1 .. a + c
        BY <1>1
      <3> QED
        BY <1>2, <3>1 DEF Range
    <2> QED
      BY <1>1, <2>1, <2>2, <2>3 DEF Range
  <1>7. c # 0 => Len(w) # 0 /\ w[Len(w)] = u[c]
    <2> SUFFICES ASSUME c # 0 PROVE Len(w) # 0 /\ w[Len(w)] = u[c]
      OBVIOUS
    <2>1. c \in 1 .. c /\ Len(w) = a + c /\ Len(w) # 0
      BY <1>1, <1>2
    <2> QED
      BY <1>2, <2>1
  <1> QED
    BY <1>2, <1>3, <1>5, <1>6, <1>7 DEF w, c

(* What a bucket had of the window when its walk began.                      *)
Wanted(b, since) == {s \in since : OutletOf[s] = b[1] /\ SoldOn[s] = b[2]}

(* A walk lists a bucket up to where it stands, and all of it when done.     *)
Walk(b, w, since) ==
    /\ w.rows \in Seq(Sales) /\ Range(w.rows) \subseteq Bucket(b[1], b[2]) /\ Increasing(w.rows)
    /\ w.done => Wanted(b, since) \subseteq Range(w.rows)
    /\ ~w.done /\ w.next = NoSale => w.rows = <<>>
    /\ ~w.done /\ w.next # NoSale =>
         /\ w.rows # <<>> /\ w.next = w.rows[Len(w.rows)]
         /\ \A s \in Wanted(b, since) : s \in Range(w.rows) \/ Precedes(w.next, s)

IsWalk(l) ==
    /\ DOMAIN l = {"asked", "since", "got"} /\ l.since \subseteq recorded \ Probes
    /\ \A b \in DOMAIN l.got : Walk(b, l.got[b], l.since)

WalksInv == screen = "sales" /\ load # Nothing => IsWalk(load)

(* A page more, whatever reached the server since the page before it.        *)
LEMMA PageTaken ==
  ASSUME WorldInv, NEW b, NEW since, since \subseteq recorded \ Probes,
         NEW w, Walk(b, w, since), ~w.done,
         NEW page, page = SalesPage(b[1], b[2], w.next),
         NEW k
  PROVE  Walk(b, [rows |-> w.rows \o page.rows, next |-> page.next,
                  pages |-> k, done |-> page.next = NoSale], since)
  <1> DEFINE n == [rows |-> w.rows \o page.rows, next |-> page.next,
                   pages |-> k, done |-> page.next = NoSale]
  <1>0. n.rows = w.rows \o page.rows /\ n.next = page.next /\ (n.done <=> page.next = NoSale)
    OBVIOUS
  <1> HIDE DEF n
  <1> DEFINE B == Bucket(b[1], b[2])
             S == {s \in B : Behind(w.next, s)}
  <1>1. PageOf(S, page)
    BY PagesInOrder
  <1>2. B \subseteq Sales /\ Wanted(b, since) \subseteq B
    BY DEF WorldInv, Bucket, Wanted
  <1>3. w.rows \in Seq(Sales) /\ Range(w.rows) \subseteq B /\ Increasing(w.rows)
    BY DEF Walk
  <1> HIDE DEF B
  <1>4. ASSUME NEW x \in Range(w.rows), NEW y \in S PROVE Precedes(x, y)
    <2>1. w.next # NoSale
      <3>1. w.rows # <<>>
        BY DEF Range
      <3> QED
        BY <3>1 DEF Walk
    <2>2. w.rows # <<>> /\ w.next = w.rows[Len(w.rows)]
      BY <2>1 DEF Walk
    <2>3. PICK i \in 1 .. Len(w.rows) : x = w.rows[i]
      BY <1>3 DEF Range
    <2>4. Len(w.rows) \in Nat
      BY <1>3
    <2>5. Precedes(w.next, y)
      BY <2>1 DEF Behind
    <2>6. CASE i = Len(w.rows)
      BY <2>2, <2>3, <2>5, <2>6
    <2>7. CASE i # Len(w.rows)
      <3>1. Len(w.rows) \in 1 .. Len(w.rows) /\ i < Len(w.rows)
        BY <2>3, <2>4, <2>7
      <3>2. Precedes(x, w.next)
        BY <1>3, <2>2, <2>3, <3>1 DEF Increasing
      <3>3. x \in Sales /\ y \in Sales
        BY <1>2, <1>3
      <3>4. w.next \in Sales
        BY <1>3, <2>2, <3>1
      <3> QED
        BY <2>5, <3>2, <3>3, <3>4, TotalOrder
    <2> QED
      BY <2>6, <2>7
  <1>5. ASSUME NEW s \in Wanted(b, since) PROVE s \in Range(w.rows) \/ s \in S
    <2>1. s \in B
      BY <1>2
    <2>2. w.next # NoSale => s \in Range(w.rows) \/ Precedes(w.next, s)
      BY DEF Walk
    <2> QED
      BY <2>1, <2>2 DEF Behind
  <1> HIDE DEF S
  <1>6. page.rows \in Seq(Sales) /\ Range(page.rows) \subseteq S /\ Increasing(page.rows)
    BY <1>1 DEF PageOf
  <1>7. \A x \in Range(w.rows), y \in Range(page.rows) : Precedes(x, y)
    BY <1>4, <1>6
  <1>8. /\ n.rows \in Seq(Sales) /\ Increasing(n.rows)
        /\ Range(n.rows) = Range(w.rows) \union Range(page.rows)
        /\ page.rows # <<>> => n.rows # <<>> /\ n.rows[Len(n.rows)] = page.rows[Len(page.rows)]
    BY <1>0, <1>3, <1>6, <1>7, JoinedInOrder, ZenonT(30)
  <1>9. Range(n.rows) \subseteq B
    BY <1>3, <1>6, <1>8 DEF S
  <1>10. n.done => Wanted(b, since) \subseteq Range(n.rows)
    BY <1>0, <1>1, <1>5, <1>8 DEF PageOf
  <1>11. ~n.done =>
           /\ n.next # NoSale /\ n.rows # <<>> /\ n.next = n.rows[Len(n.rows)]
           /\ \A s \in Wanted(b, since) : s \in Range(n.rows) \/ Precedes(n.next, s)
    <2> SUFFICES ASSUME ~n.done
                 PROVE  /\ n.next # NoSale /\ n.rows # <<>> /\ n.next = n.rows[Len(n.rows)]
                        /\ \A s \in Wanted(b, since) : s \in Range(n.rows) \/ Precedes(n.next, s)
      OBVIOUS
    <2>1. page.next # NoSale
      BY <1>0
    <2>2. page.rows # <<>> /\ page.next = page.rows[Len(page.rows)]
          /\ \A s \in S : s \in Range(page.rows) \/ Precedes(page.next, s)
      BY <1>1, <2>1 DEF PageOf
    <2> QED
      BY <1>0, <1>5, <1>8, <2>1, <2>2
  <1>12. Walk(b, n, since)
    BY <1>8, <1>9, <1>10, <1>11 DEF Walk, B
  <1> QED
    BY <1>12 DEF n

(* Sales only come in.                                                       *)
LEMMA WalkStays ==
  ASSUME NEW l, IsWalk(l), recorded \subseteq recorded'
  PROVE  IsWalk(l)'
  <1>1. \A b : Bucket(b[1], b[2]) \subseteq Bucket(b[1], b[2])'
    BY DEF Bucket
  <1>2. ASSUME NEW b \in DOMAIN l.got PROVE Walk(b, l.got[b], l.since)'
    <2>1. Walk(b, l.got[b], l.since)
      BY DEF IsWalk
    <2> QED
      BY <1>1, <2>1 DEF Walk
  <1> QED
    BY <1>2 DEF IsWalk

LEMMA WalkBegins == ASSUME NEW f PROVE IsWalk(Request("sales", f))
  <1> DEFINE l == Request("sales", f)
  <1>1. DOMAIN l = {"asked", "since", "got"} /\ l.since \subseteq recorded \ Probes
    BY DEF Request
  <1>2. ASSUME NEW b \in DOMAIN l.got PROVE Walk(b, l.got[b], l.since)
    <2>1. l.got[b] = NoPagesYet
      BY DEF Request
    <2>2. <<>> \in Seq(Sales) /\ Range(<<>>) = {} /\ Increasing(<<>>)
      BY DEF Range, Increasing
    <2> DEFINE w == NoPagesYet
    <2>3. w.rows = <<>> /\ w.next = NoSale /\ ~w.done
      BY DEF NoPagesYet
    <2> HIDE DEF w
    <2>4. Walk(b, w, l.since)
      BY <2>2, <2>3 DEF Walk
    <2> QED
      BY <2>1, <2>4 DEF w
  <1> QED
    BY <1>1, <1>2 DEF IsWalk

LEMMA RequestWalks ==
  ASSUME NEW f, load' = Request("sales", f), UNCHANGED recorded
  PROVE  WalksInv'
  <1>1. PICK l : l = load'
    OBVIOUS
  <1>2. IsWalk(l)
    BY <1>1, WalkBegins
  <1>3. IsWalk(l)'
    BY <1>2, WalkStays
  <1> QED
    BY <1>1, <1>3 DEF WalksInv, IsWalk

LEMMA Unaltered ==
  ASSUME WalksInv, UNCHANGED <<screen, load>>, recorded \subseteq recorded'
  PROVE  WalksInv'
  <1> SUFFICES ASSUME screen = "sales", load # Nothing PROVE IsWalk(load)'
    BY DEF WalksInv
  <1>1. PICK l : l = load
    OBVIOUS
  <1>2. IsWalk(l)'
    BY <1>1, WalkStays DEF WalksInv
  <1> QED
    BY <1>1, <1>2 DEF IsWalk

LEMMA FetchWalks ==
  ASSUME NEW sc \in Screens, NEW f, Fetches(sc, f), screen' = sc, UNCHANGED recorded
  PROVE  WalksInv'
  <1>1. CASE load' = Nothing
    BY <1>1 DEF WalksInv
  <1>2. CASE load' = Request(sc, f) /\ sc = "sales"
    BY <1>2, RequestWalks
  <1>3. CASE sc # "sales"
    BY <1>3 DEF WalksInv
  <1> QED
    BY <1>1, <1>2, <1>3 DEF Fetches

LEMMA SetFiltersWalks == ASSUME NEW f, SetFilters(f) PROVE WalksInv'
  BY FetchWalks DEF SetFilters, Refetch, Reading, world

LEMMA RenderWalks == ASSUME NEW sc, NEW r, Render(sc, r) PROVE WalksInv'
  <1>1. ASSUME NEW o, Leave(o) PROVE WalksInv'
    BY <1>1 DEF Leave, WalksInv
  <1>2. CASE Mount(sc)
    <2>1. CASE sc = "sales"
      BY <1>2, <2>1, RequestWalks DEF Mount, world
    <2>2. CASE sc # "sales"
      BY <1>2, <2>2 DEF Mount, WalksInv
    <2> QED
      BY <2>1, <2>2
  <1> QED
    BY <1>1, <1>2 DEF Render

LEMMA PageWalks ==
  ASSUME WorldInv, WalksInv, NEW b, BucketPage(b)
  PROVE  WalksInv'
  <1>1. /\ screen = "sales" /\ load # Nothing /\ b \in DOMAIN load.got /\ ~load.got[b].done
        /\ UNCHANGED <<screen, recorded>>
    BY DEF BucketPage, world
  <1>2. IsWalk(load)
    BY <1>1 DEF WalksInv
  <1>3. PICK since, got, w : since = load.since /\ got = load.got /\ w = load.got[b]
    OBVIOUS
  <1>4. PICK page : page = SalesPage(b[1], b[2], w.next)
    OBVIOUS
  <1> DEFINE n == [rows |-> w.rows \o page.rows, next |-> page.next,
                   pages |-> w.pages + 1, done |-> page.next = NoSale]
  <1>5. load' = [load EXCEPT !.got = [got EXCEPT ![b] = n]]
    BY <1>3, <1>4 DEF BucketPage
  <1>6. Walk(b, n, since)
    <2>1. since \subseteq recorded \ Probes /\ Walk(b, w, since) /\ ~w.done
      BY <1>1, <1>2, <1>3 DEF IsWalk
    <2> QED
      BY <1>4, <2>1, PageTaken
  <1> DEFINE l == [load EXCEPT !.got = [got EXCEPT ![b] = n]]
  <1> HIDE DEF n
  <1>7. /\ DOMAIN l = {"asked", "since", "got"} /\ l.since = since /\ DOMAIN l.got = DOMAIN got
        /\ l.got[b] = n /\ \A c \in DOMAIN got : c # b => l.got[c] = got[c]
    BY <1>1, <1>2, <1>3 DEF IsWalk
  <1> HIDE DEF l
  <1>8. \A c \in DOMAIN l.got : Walk(c, l.got[c], since)
    BY <1>2, <1>3, <1>6, <1>7 DEF IsWalk
  <1>9. IsWalk(l)
    BY <1>2, <1>3, <1>7, <1>8 DEF IsWalk
  <1>10. PICK m : m = load'
    OBVIOUS
  <1>11. IsWalk(m)'
    BY <1>1, <1>5, <1>9, <1>10, WalkStays DEF l
  <1> QED
    BY <1>10, <1>11 DEF WalksInv, IsWalk

LEMMA WalksNext ==
  ASSUME WorldInv, WalksInv, [ScreensNext]_screensVars
  PROVE  WalksInv'
  <1>1. CASE UNCHANGED screensVars
    BY <1>1, Unaltered DEF screensVars, world, reader
  <1>2. CASE ((\E s \in Sales : SaleArrives(s) \/ SaleVoided(s) \/ TenderVerified(s)) \/ NextDay)
             /\ UNCHANGED reader
    <2>1. recorded \subseteq recorded' /\ UNCHANGED <<screen, load>>
      BY <1>2 DEF SaleArrives, SaleVoided, TenderVerified, NextDay, reader
    <2> QED
      BY <2>1, Unaltered
  <1>3. ASSUME NEW r, NEW ok, NEW tooMany, Login(r, ok, tooMany) PROVE WalksInv'
    BY <1>3, RenderWalks DEF Login
  <1>4. CASE LoginFails
    BY <1>4, Unaltered DEF LoginFails, world
  <1>5. CASE Logout
    BY <1>5 DEF Logout, Leave, WalksInv
  <1>6. ASSUME NEW sc, NEW r, Navigate(sc, r) PROVE WalksInv'
    BY <1>6, RenderWalks DEF Navigate
  <1>7. ASSUME NEW sc, SetScope(sc) PROVE WalksInv'
    <2>1. CASE UNCHANGED <<world, screen, filters, load, loaded, failed>>
      BY <2>1, Unaltered DEF world
    <2> QED
      BY <1>7, <2>1, SetFiltersWalks DEF SetScope
  <1>8. CASE SetDates \/ SetOutlet \/ ClearFilters
    BY <1>8, SetFiltersWalks DEF SetDates, SetOutlet, ClearFilters
  <1>9. ASSUME NEW b, BucketPage(b) PROVE WalksInv'
    BY <1>9, PageWalks
  <1>10. CASE SalesAnswered \/ DashboardAnswered \/ CashierDayAnswered \/ LoadFails
    BY <1>10 DEF SalesAnswered, DashboardAnswered, CashierDayAnswered, LoadFails, Answered, WalksInv
  <1> QED
    BY <1>1, <1>2, <1>3, <1>4, <1>5, <1>6, <1>7, <1>8, <1>9, <1>10 DEF ScreensNext, Answers

LEMMA WalkIsWhole ==
  ASSUME NEW b, NEW w, NEW since, Walk(b, w, since)
  PROVE  /\ w.done => Wanted(b, since) \subseteq Range(w.rows)
         /\ Range(w.rows) \subseteq Bucket(b[1], b[2])
         /\ \A i, j \in 1 .. Len(w.rows) : i < j => Precedes(w.rows[i], w.rows[j])
         /\ FlattenSeq([p \in 1 .. PageCount(w.rows) |-> TablePage(w.rows, p - 1)]) = w.rows
         /\ w.rows # <<>> => \A p \in 0 .. Len(w.rows) : TablePage(w.rows, p) # <<>>
  <1>1. w.rows \in Seq(Sales)
    BY DEF Walk
  <1>2. FlattenSeq([p \in 1 .. PageCount(w.rows) |-> TablePage(w.rows, p - 1)]) = w.rows
    BY <1>1, PagesAreRows
  <1>3. w.rows # <<>> => \A p \in 0 .. Len(w.rows) : TablePage(w.rows, p) # <<>>
    BY <1>1, NoEmptyPage
  <1> QED
    BY <1>2, <1>3 DEF Walk, Increasing

(* Page after page, while sales reach the server late and out of order, the  *)
(* walk of a bucket lists each sale that was there when it began, once and in*)
(* order, and nothing of another bucket; and the pages of the table show it. *)
THEOREM WalksMissNone == ScreensInit /\ [][ScreensNext]_screensVars => []WalkMissesNone
  <1>1. ScreensInit => WorldInv /\ WalksInv
    BY DEF ScreensInit, WorldInit, WorldInv, WalksInv
  <1>2. WorldInv /\ WalksInv /\ [ScreensNext]_screensVars => (WorldInv /\ WalksInv)'
    BY WorldNext, WalksNext
  <1>3. WalksInv => WalkMissesNone
    <2> SUFFICES ASSUME WalksInv, screen = "sales", load # Nothing, NEW b \in DOMAIN load.got
                 PROVE  LET rows == load.got[b].rows
                            listed == Range(rows)
                        IN /\ load.got[b].done => Wanted(b, load.since) \subseteq listed
                           /\ listed \subseteq Bucket(b[1], b[2])
                           /\ \A i, j \in 1..Len(rows) : i < j => Precedes(rows[i], rows[j])
                           /\ FlattenSeq([p \in 1..PageCount(rows) |-> TablePage(rows, p - 1)]) = rows
                           /\ rows # <<>> => \A p \in 0..Len(rows) : TablePage(rows, p) # <<>>
      BY DEF WalkMissesNone, Wanted
    <2>1. Walk(b, load.got[b], load.since)
      BY DEF WalksInv, IsWalk
    <2> QED
      BY <2>1, WalkIsWhole
  <1> QED
    BY <1>1, <1>2, <1>3, PTL

-----------------------------------------------------------------------------
(* The lock in time *)

(* An unlocked till that is watched has its timer armed, and the ticks left  *)
(* on it and those since the last touch do not exceed the timeout.           *)
WatchInv ==
    /\ locked \in BOOLEAN
    /\ Watching /\ ~locked =>
          timer \in Nat /\ idle \in Nat /\ idle + timer <= IdleTicks

LEMMA WatchInit == Init => WatchInv
  BY DEF Init, EnrolmentInit, IdleLockInit, WatchInv, Watching

(* What a step of the whole does to the lock. *)
LEMMA StepsOfLock ==
  ASSUME [Next]_vars
  PROVE  \/ WatcherFollows
         \/ ~locked /\ Touched /\ Watching' = Watching
         \/ /\ Lock \/ Unlock(Watching) \/ WrongPin \/ ClearCooldown \/ Tick(Watching)
            /\ Watching' = Watching
         \/ Reloaded /\ ~Watching'
  <1>1. CASE OfficeStep /\ UNCHANGED <<idleLock, deaths>>
    <2>1. Watching' = Watching
      BY <1>1 DEF OfficeStep, IssueCode, CodeExpires, OtherRedeems, OtherRedeemed,
         ApiRestarts, Watching, till
    <2> QED
      BY <1>1, <2>1 DEF WatcherFollows
  <1>2. CASE TillStep /\ WatcherFollows /\ UNCHANGED deaths
    BY <1>2
  <1>3. CASE ClerkStep
    <2>1. Watching' = Watching
      BY <1>3 DEF ClerkStep, Submit, ResetDevice, RefreshByHand, CyclePulls, Watching, till
    <2> QED
      BY <1>3, <2>1 DEF ClerkStep
  <1>4. CASE LockStep
    BY <1>4 DEF LockStep, Watching, till
  <1>5. CASE TabStep
    BY <1>5 DEF TabStep, TabDies, Watching
  <1>6. CASE UNCHANGED vars
    BY <1>6 DEF vars, WatcherFollows, Watching, till
  <1> QED
    BY <1>1, <1>2, <1>3, <1>4, <1>5, <1>6 DEF Next

LEMMA WatchNext == WatchInv /\ [Next]_vars => WatchInv'
  <1> SUFFICES ASSUME WatchInv, [Next]_vars PROVE WatchInv'
    OBVIOUS
  <1> USE IdleLockAssumption
  <1>1. CASE WatcherFollows
    <2>1. CASE Watching' = Watching /\ UNCHANGED idleLock
      BY <2>1 DEF WatchInv, idleLock
    <2>2. CASE ~Watching /\ Watching' /\ WatcherStarts
               /\ UNCHANGED <<locked, attempts, cool, wrong>>
      BY <2>2 DEF WatchInv, WatcherStarts
    <2>3. CASE Watching /\ ~Watching' /\ UNCHANGED <<locked, attempts, cool, wrong>>
      BY <2>3 DEF WatchInv
    <2> QED
      BY <1>1, <2>1, <2>2, <2>3 DEF WatcherFollows
  <1>2. CASE ~locked /\ Touched /\ Watching' = Watching
    BY <1>2 DEF WatchInv, Touched, Activity, idleLock
  <1>3. CASE Lock /\ Watching' = Watching
    BY <1>3 DEF WatchInv, Lock
  <1>4. CASE Unlock(Watching) /\ Watching' = Watching
    <2>1. locked' = FALSE /\ idle' = 0 /\ (Watching => timer' = IdleTicks)
      BY <1>4 DEF Unlock, Rearmed
    <2>2. locked' \in BOOLEAN
      BY <2>1
    <2>3. timer' = IdleTicks => timer' \in Nat /\ idle' \in Nat /\ idle' + timer' <= IdleTicks
      BY <2>1
    <2> QED
      BY <1>4, <2>1, <2>2, <2>3 DEF WatchInv
  <1>5. CASE (WrongPin \/ ClearCooldown) /\ Watching' = Watching
    BY <1>5 DEF WatchInv, WrongPin, ClearCooldown
  <1>6. CASE Tick(Watching) /\ Watching' = Watching
    BY <1>6 DEF WatchInv, Tick, Counted, Aged
  <1>7. CASE Reloaded /\ ~Watching'
    BY <1>7 DEF WatchInv, Reloaded
  <1> QED
    BY <1>1, <1>2, <1>3, <1>4, <1>5, <1>6, <1>7, StepsOfLock

(* A till that is watched and that nobody has touched for longer than the    *)
(* timeout is locked, whatever was enrolled, reset, unlocked or reloaded.    *)
THEOREM LocksInTime == Spec => []LockedWhenIdle
  <1>1. WatchInv => LockedWhenIdle
    BY IdleLockAssumption DEF WatchInv, LockedWhenIdle
  <1> QED
    BY <1>1, WatchInit, WatchNext, PTL DEF Spec

-----------------------------------------------------------------------------
(* The pace of wrong PINs *)

(* The wrong PINs since the attempts were full. *)
Used == MaxAttempts - attempts

(* wrong[1] is the age of the last wrong PIN, wrong[i + 1] the gap between   *)
(* the i-th last and the one before it.  A cool-down runs iff no attempt is  *)
(* left, and what it has run is not more than the age of the last wrong PIN. *)
(* The run of the Used last PINs began a cool-down after the one before it;  *)
(* and when a cool-down was cleared, so did the run before.                  *)
PaceInv ==
    /\ attempts \in 0..MaxAttempts
    /\ cool \in {Off} \union (0..CoolTicks)
    /\ wrong \in Seq(Nat)
    /\ attempts = 0 <=> cool # Off
    /\ cool # Off => Len(wrong) > 0 /\ wrong[1] + cool >= CoolTicks
    /\ Used > 0 /\ Len(wrong) > Used => wrong[Used + 1] >= CoolTicks
    /\ Used = 0 =>
          /\ Len(wrong) > 0 => wrong[1] >= CoolTicks
          /\ Len(wrong) > MaxAttempts => wrong[MaxAttempts + 1] >= CoolTicks

LEMMA PaceInit == Init => PaceInv
  BY IdleLockAssumption, EmptySeq DEF Init, IdleLockInit, PaceInv, Used, Off

(* A new wrong PIN goes in front, and the oldest of too many is forgotten. *)
OneMore(gaps) == Remembered(<<0>> \o gaps)

LEMMA RememberedPins ==
  ASSUME NEW gaps \in Seq(Nat), NEW more, more = OneMore(gaps)
  PROVE  /\ more \in Seq(Nat)
         /\ Len(more) = IF Len(gaps) < MaxAttempts THEN Len(gaps) + 1 ELSE MaxAttempts + 1
         /\ more[1] = 0
         /\ \A i \in 2..Len(more) : more[i] = gaps[i - 1]
  <1> DEFINE all == <<0>> \o gaps
  <1>0. MaxAttempts \in Nat \ {0} /\ Len(gaps) \in Nat
    BY IdleLockAssumption, LenProperties
  <1>1. <<0>> \in Seq(Nat) /\ Len(<<0>>) = 1 /\ <<0>>[1] = 0
    OBVIOUS
  <1>2. /\ all \in Seq(Nat) /\ Len(all) = 1 + Len(gaps)
        /\ \A i \in 1..1 + Len(gaps) : all[i] = IF i <= 1 THEN <<0>>[i] ELSE gaps[i - 1]
    BY <1>1, ConcatProperties
  <1> HIDE DEF all
  <1>3. all[1] = 0 /\ \A i \in 2..Len(all) : all[i] = gaps[i - 1]
    BY <1>0, <1>1, <1>2
  <1>4. CASE Len(all) > MaxAttempts + 1
    <2>1. more = SubSeq(all, 1, MaxAttempts + 1)
      BY <1>4 DEF OneMore, Remembered, all
    <2>2. ASSUME NEW i \in 1..MaxAttempts + 1 PROVE all[i] \in Nat
      <3>1. i \in 1..Len(all)
        BY <1>0, <1>2, <1>4
      <3> QED
        BY <1>2, <3>1, ElementOfSeq, Zenon
    <2>3. /\ more \in Seq(Nat) /\ Len(more) = MaxAttempts + 1
          /\ \A i \in 1..MaxAttempts + 1 : more[i] = all[i]
      BY <1>0, <2>1, <2>2, SubSeqProperties
    <2>4. ~(Len(gaps) < MaxAttempts) /\ MaxAttempts + 1 <= Len(all)
      BY <1>0, <1>2, <1>4, SMTT(30)
    <2>5. more[1] = 0
      <3>1. 1 \in 1..MaxAttempts + 1
        BY <1>0
      <3> QED
        BY <1>3, <2>3, <3>1
    <2>6. \A i \in 2..MaxAttempts + 1 : more[i] = all[i] /\ i \in 2..Len(all)
      BY <1>0, <1>2, <2>3, <2>4, SMTT(30)
    <2>7. \A i \in 2..MaxAttempts + 1 : more[i] = gaps[i - 1]
      BY <1>3, <2>6
    <2> QED
      BY <2>3, <2>4, <2>5, <2>7
  <1>5. CASE ~(Len(all) > MaxAttempts + 1)
    <2>1. more = all
      BY <1>5 DEF OneMore, Remembered, all
    <2> QED
      BY <1>0, <1>2, <1>3, <1>5, <2>1
  <1> QED
    BY <1>4, <1>5

LEMMA WrongPinPaced == PaceInv /\ WrongPin => PaceInv'
  <1> SUFFICES ASSUME PaceInv, WrongPin PROVE PaceInv'
    OBVIOUS
  <1>0. /\ MaxAttempts \in Nat \ {0} /\ CoolTicks \in Nat \ {0}
        /\ wrong \in Seq(Nat) /\ Len(wrong) \in Nat
    BY IdleLockAssumption, LenProperties DEF PaceInv
  <1>1. /\ wrong' \in Seq(Nat)
        /\ Len(wrong') = IF Len(wrong) < MaxAttempts THEN Len(wrong) + 1
                                                     ELSE MaxAttempts + 1
        /\ wrong'[1] = 0
        /\ \A i \in 2..Len(wrong') : wrong'[i] = wrong[i - 1]
    BY <1>0, RememberedPins DEF WrongPin, OneMore
  <1>2. Refreshed \in 1..MaxAttempts /\ attempts' = Refreshed - 1
    BY <1>0 DEF PaceInv, WrongPin, PinPad, Refreshed, Off
  <1>3. cool' = IF attempts' = 0 THEN CoolTicks ELSE Off
    BY <1>0, <1>2 DEF WrongPin
  <1>4. Used' = MaxAttempts - Refreshed + 1 /\ Used' \in 1..MaxAttempts
    BY <1>0, <1>2 DEF Used
  <1>5. ASSUME Len(wrong') > Used' PROVE wrong'[Used' + 1] >= CoolTicks
    <2>0. \A n \in 1..MaxAttempts : Len(wrong') > n => wrong'[n + 1] = wrong[n]
      BY <1>0, <1>1
    <2>1. wrong'[Used' + 1] = wrong[Used']
      BY <1>4, <1>5, <2>0
    <2>2. Len(wrong) >= Used' /\ Len(wrong) > 0
      BY <1>0, <1>1, <1>4, <1>5
    <2>3. CASE cool = 0
      <3>1. Used' = 1 /\ wrong[1] >= CoolTicks
        BY <1>0, <1>4, <2>2, <2>3, ElementOfSeq DEF PaceInv, Refreshed, Off
      <3> QED
        BY <2>1, <3>1
    <2>4. CASE cool = Off /\ Used = 0
      <3>1. Used' = 1 /\ wrong[1] >= CoolTicks
        BY <1>0, <1>4, <2>2, <2>4 DEF PaceInv, Refreshed, Off, Used
      <3> QED
        BY <2>1, <3>1
    <2>5. CASE cool = Off /\ Used > 0
      <3>1. Used' = Used + 1
        BY <1>0, <1>4, <2>5 DEF PaceInv, Refreshed, Off, Used
      <3> QED
        BY <1>0, <2>1, <2>2, <2>5, <3>1 DEF PaceInv, Used
    <2> QED
      BY <1>0, <2>3, <2>4, <2>5 DEF PaceInv, WrongPin, PinPad, Used, Off
  <1>6. attempts' \in 0..MaxAttempts /\ cool' \in {Off} \union (0..CoolTicks)
    BY <1>0, <1>2, <1>3
  <1>7. (attempts' = 0 <=> cool' # Off)
        /\ (cool' # Off => Len(wrong') > 0 /\ wrong'[1] + cool' >= CoolTicks)
    BY <1>0, <1>1, <1>3 DEF Off
  <1> QED
    BY <1>1, <1>4, <1>5, <1>6, <1>7 DEF PaceInv

(* Time only makes the last wrong PIN older. *)
LEMMA TickPaced ==
  ASSUME PaceInv, Tick(Watching)
  PROVE  PaceInv'
  <1>0. /\ MaxAttempts \in Nat \ {0} /\ CoolTicks \in Nat \ {0}
        /\ wrong \in Seq(Nat) /\ Len(wrong) \in Nat /\ DOMAIN wrong = 1..Len(wrong)
        /\ \A i \in 1..Len(wrong) : wrong[i] \in Nat
    BY IdleLockAssumption, LenProperties, ElementOfSeq DEF PaceInv
  <1>1. wrong' = [i \in 1..Len(wrong) |->
                     IF i = 1 THEN Aged(wrong[i], CoolTicks) ELSE wrong[i]]
    BY <1>0 DEF Tick
  <1>2. \A i \in 1..Len(wrong) : wrong'[i] \in Nat
    BY <1>0, <1>1 DEF Aged
  <1>3. wrong' \in Seq(Nat) /\ Len(wrong') = Len(wrong)
    BY <1>0, <1>1, <1>2
  <1>4. \A i \in 2..Len(wrong) : wrong'[i] = wrong[i]
    BY <1>0, <1>1
  <1>5. Len(wrong) > 0 =>
          wrong'[1] = IF wrong[1] < CoolTicks THEN wrong[1] + 1 ELSE wrong[1]
    BY <1>0, <1>1 DEF Aged
  <1>6. attempts' = attempts /\ Used' = Used /\ cool' = IF cool <= 0 THEN cool ELSE cool - 1
    BY DEF Tick, Used, Counted
  <1>7. Used \in 0..MaxAttempts
    BY <1>0 DEF PaceInv, Used
  <1>8. cool' \in {Off} \union (0..CoolTicks) /\ (cool' # Off <=> cool # Off)
    BY <1>0, <1>6 DEF PaceInv, Off
  <1>9. cool' # Off => Len(wrong') > 0 /\ wrong'[1] + cool' >= CoolTicks
    BY <1>0, <1>3, <1>5, <1>6, <1>8 DEF PaceInv, Off
  <1>10. Used > 0 /\ Len(wrong') > Used => wrong'[Used + 1] >= CoolTicks
    BY <1>0, <1>3, <1>4, <1>7 DEF PaceInv
  <1>11. Used = 0 =>
            /\ Len(wrong') > 0 => wrong'[1] >= CoolTicks
            /\ Len(wrong') > MaxAttempts => wrong'[MaxAttempts + 1] >= CoolTicks
    BY <1>0, <1>3, <1>4, <1>5 DEF PaceInv
  <1> QED
    BY <1>3, <1>6, <1>8, <1>9, <1>10, <1>11 DEF PaceInv

LEMMA PaceNext == PaceInv /\ [Next]_vars => PaceInv'
  <1> SUFFICES ASSUME PaceInv, [Next]_vars PROVE PaceInv'
    OBVIOUS
  <1>0. MaxAttempts \in Nat \ {0} /\ CoolTicks \in Nat \ {0}
    BY IdleLockAssumption
  <1>1. UNCHANGED <<attempts, cool, wrong>> => PaceInv'
    BY DEF PaceInv, Used
  <1>2. WatcherFollows \/ Touched \/ Lock => UNCHANGED <<attempts, cool, wrong>>
    BY DEF WatcherFollows, Touched, Lock, idleLock
  <1>3. ASSUME Unlock(Watching) \/ Reloaded PROVE PaceInv'
    <2>1. attempts' = MaxAttempts /\ cool' = Off /\ wrong' = <<>>
      BY <1>3 DEF Unlock, Reloaded
    <2>2. wrong' \in Seq(Nat) /\ Len(wrong') = 0
      BY <2>1
    <2> QED
      BY <1>0, <2>1, <2>2 DEF PaceInv, Used
  <1>4. ASSUME ClearCooldown PROVE PaceInv'
    <2>1. /\ attempts' = MaxAttempts /\ cool' = Off /\ wrong' = wrong
          /\ cool = 0 /\ attempts = 0
      BY <1>4 DEF ClearCooldown, Elapsed, PaceInv, Off
    <2>2. wrong[1] >= CoolTicks
      BY <1>0, <2>1, ElementOfSeq, LenProperties DEF PaceInv, Off
    <2>3. Len(wrong) > MaxAttempts => wrong[MaxAttempts + 1] >= CoolTicks
      BY <1>0, <2>1 DEF PaceInv, Used
    <2> QED
      BY <1>0, <2>1, <2>2, <2>3 DEF PaceInv, Used
  <1> QED
    BY <1>1, <1>2, <1>3, <1>4, WrongPinPaced, TickPaced, StepsOfLock

(* Of the wrong PINs, one more than a run of attempts allows, two that       *)
(* follow each other are a cool-down apart: no order of guesses, countdowns  *)
(* and cool-downs that are cleared twice lets a run grow longer.             *)
THEOREM GuessesPaced == Spec => []PacedGuesses
  <1>1. PaceInv => PacedGuesses
    <2> SUFFICES ASSUME PaceInv, Len(wrong) > MaxAttempts
                 PROVE  \E i \in 2..Len(wrong) : wrong[i] >= CoolTicks
      BY DEF PacedGuesses
    <2>0. /\ MaxAttempts \in Nat \ {0} /\ Len(wrong) \in Nat
          /\ Used \in 0..MaxAttempts
      BY IdleLockAssumption, LenProperties DEF PaceInv, Used
    <2>1. CASE Used = 0
      <3>1. wrong[MaxAttempts + 1] >= CoolTicks /\ MaxAttempts + 1 \in 2..Len(wrong)
        BY <2>0, <2>1 DEF PaceInv
      <3> QED
        BY <3>1
    <2>2. CASE Used > 0
      <3>1. wrong[Used + 1] >= CoolTicks /\ Used + 1 \in 2..Len(wrong)
        BY <2>0, <2>2 DEF PaceInv
      <3> QED
        BY <3>1
    <2> QED
      BY <2>0, <2>1, <2>2
  <1> QED
    BY <1>1, PaceInit, PaceNext, PTL DEF Spec

-----------------------------------------------------------------------------
(* Single use *)

Code == [outlet : CodeOutlets, expired : BOOLEAN, used : BOOLEAN]
DevicesOf(c) == {d \in devices : d.code = c}

(* Codes are redeemed while nobody used them, so that of a code the devices  *)
(* and the redemptions that may still make one were once under way together; *)
(* a device's code is used, and both know the outlet the code was issued for. *)
CodesInv ==
    /\ codes = [c \in DOMAIN codes |-> codes[c]]
    /\ \A c \in DOMAIN codes : codes[c] \in Code
    /\ peak \in [Codes -> Nat]
    /\ IsFiniteSet(devices) /\ IsFiniteSet(hashing)
    /\ \A r \in hashing :
          r.code \in DOMAIN codes \intersect Codes /\ r.outlet = codes[r.code].outlet
    /\ \A d \in devices :
          d.code \in DOMAIN codes /\ d.outlet = codes[d.code].outlet /\ codes[d.code].used
    /\ \A c \in Codes : Cardinality(DevicesOf(c)) + Cardinality(UnderWay(c)) <= peak[c]

(* The till's secret, and the device it was answered but has not stored yet, *)
(* are the API's unless it restarted.                                        *)
SecretInv ==
    /\ restarts \in Nat
    /\ post # None /\ post.stage = "sent" =>
          post \in [stage : {"sent"}, code : Codes, no : {0}]
    /\ post # None /\ post.stage = "answered" => post.device \in devices \/ restarts > 0
    /\ secret # None => secret \in devices \/ restarts > 0

(* What a step of the whole does to the enrolment. *)
LEMMA StepsOfEnrolment ==
  ASSUME [Next]_vars
  PROVE  \/ UNCHANGED <<api, till>>
         \/ OfficeStep \/ TillStep
         \/ \E c \in Codes : Submit(c)
         \/ ResetDevice \/ RefreshByHand \/ TabDies
  BY DEF Next, ClerkStep, LockStep, TabStep, vars

(* What it does to the API's part of it. *)
LEMMA StepsOfCodes ==
  ASSUME SecretInv, [Next]_vars
  PROVE  \/ UNCHANGED api
         \/ \E c \in Codes : CodeExpires(c) \/ \E o \in CodeOutlets : IssueCode(c, o)
         \/ \E c \in Codes, by \in {"other", "till"} :
               Begins(c, by) /\ UNCHANGED <<codes, devices, restarts>>
         \/ \E r \in hashing : Redeemed(r)
         \/ ApiRestarts
  <1>1. CASE OfficeStep
    BY <1>1 DEF OfficeStep, OtherRedeems, OtherRedeemed
  <1>2. CASE PostChecked
    <2>1. post.code \in Codes
      BY <1>2 DEF PostChecked, SecretInv
    <2> QED
      BY <1>2, <2>1 DEF PostChecked
  <1>3. CASE \E r \in hashing : PostRedeemed(r)
    BY <1>3 DEF PostRedeemed
  <1>4. CASE TillStep /\ ~PostChecked /\ ~(\E r \in hashing : PostRedeemed(r))
    BY <1>4 DEF TillStep, PostFails, StoreSecret, PublishEnrolled, PublishReset, Hydrate,
       PublishHydration, HydrationFails, ProviderMounts, RunnerCycle, CyclePulls
  <1>5. CASE (\E c \in Codes : Submit(c)) \/ ResetDevice \/ RefreshByHand \/ TabDies
    BY <1>5 DEF Submit, ResetDevice, RefreshByHand, CyclePulls, TabDies
  <1> QED
    BY <1>1, <1>2, <1>3, <1>4, <1>5, StepsOfEnrolment

LEMMA FinitePerCode ==
  ASSUME CodesInv, NEW c
  PROVE  /\ IsFiniteSet(DevicesOf(c)) /\ Cardinality(DevicesOf(c)) \in Nat
         /\ IsFiniteSet(UnderWay(c)) /\ Cardinality(UnderWay(c)) \in Nat
  <1>1. DevicesOf(c) \subseteq devices /\ UnderWay(c) \subseteq hashing
    BY DEF DevicesOf, UnderWay
  <1> QED
    BY <1>1, FS_Subset, FS_CardinalityType DEF CodesInv

LEMMA AtMostOneMore ==
  ASSUME NEW S, IsFiniteSet(S), NEW x
  PROVE  /\ Cardinality(S) \in Nat /\ Cardinality(S \union {x}) \in Nat
         /\ Cardinality(S \union {x}) <= Cardinality(S) + 1
  <1>1. IsFiniteSet(S \union {x}) /\ (Cardinality(S \union {x}) = Cardinality(S)
                                      \/ Cardinality(S \union {x}) = Cardinality(S) + 1)
    BY FS_AddElement
  <1>2. Cardinality(S) \in Nat
    BY FS_CardinalityType
  <1> QED
    BY <1>1, <1>2

(* A redemption that begins: nobody used the code, so it has no device, and  *)
(* the peak counts all that are under way.                                   *)
LEMMA BeginsCounted ==
  ASSUME CodesInv, NEW c \in Codes, NEW by, Begins(c, by), UNCHANGED <<codes, devices>>
  PROVE  CodesInv'
  <1> DEFINE r == Redemption(c, by, minted + 1)
  <1>1. /\ Redeemable(c) /\ hashing' = hashing \union {r}
        /\ peak' = [peak EXCEPT ![c] = IF Cardinality(UnderWay(c)) < @ THEN @
                                       ELSE Cardinality(UnderWay(c)) + 1]
    BY DEF Begins
  <1>2. c \in DOMAIN codes /\ ~codes[c].used /\ r.code = c /\ r.outlet = codes[c].outlet
    BY <1>1 DEF Redeemable, Redemption
  <1> HIDE DEF r
  <1>3. peak' \in [Codes -> Nat]
    BY <1>1, FinitePerCode DEF CodesInv
  <1>4. IsFiniteSet(hashing')
    BY <1>1, FS_AddElement DEF CodesInv
  <1>5. \A x \in hashing' : x.code \in DOMAIN codes \intersect Codes /\ x.outlet = codes[x.code].outlet
    BY <1>1, <1>2 DEF CodesInv
  <1>6. ASSUME NEW d \in Codes
        PROVE  Cardinality(DevicesOf(d)') + Cardinality(UnderWay(d)') <= peak'[d]
    <2>1. DevicesOf(d)' = DevicesOf(d)
      BY DEF DevicesOf
    <2>2. CASE d = c
      <3>1. DevicesOf(c) = {}
        BY <1>2 DEF DevicesOf, CodesInv
      <3>2. UnderWay(c)' = UnderWay(c) \union {r}
        BY <1>1, <1>2 DEF UnderWay
      <3>3. Cardinality(UnderWay(c) \union {r}) <= Cardinality(UnderWay(c)) + 1
        BY FinitePerCode, AtMostOneMore
      <3>4. Cardinality(DevicesOf(c)) = 0
        BY <3>1, FS_EmptySet
      <3>5. Cardinality(UnderWay(c) \union {r}) \in Nat /\ Cardinality(UnderWay(c)) \in Nat
        BY FinitePerCode, AtMostOneMore
      <3>6. peak[c] \in Nat /\ peak'[c] = IF Cardinality(UnderWay(c)) < peak[c] THEN peak[c]
                                          ELSE Cardinality(UnderWay(c)) + 1
        BY <1>1 DEF CodesInv
      <3>7. Cardinality(UnderWay(c)) + 1 <= peak'[c]
        BY <3>5, <3>6
      <3> QED
        BY <1>3, <2>1, <2>2, <3>2, <3>3, <3>4, <3>5, <3>7
    <2>3. CASE d # c
      <3>1. UnderWay(d)' = UnderWay(d) /\ peak'[d] = peak[d]
        BY <1>1, <1>2, <2>3 DEF UnderWay, CodesInv
      <3> QED
        BY <2>1, <3>1 DEF CodesInv
    <2> QED
      BY <2>2, <2>3
  <1> QED
    BY <1>3, <1>4, <1>5, <1>6 DEF CodesInv

(* A redemption that ends: it makes one device, and is no longer under way. *)
LEMMA RedeemedCounted ==
  ASSUME CodesInv, NEW r \in hashing, Redeemed(r)
  PROVE  CodesInv'
  <1>1. /\ devices' = devices \union {Device(r)} /\ hashing' = hashing \ {r} /\ peak' = peak
        /\ r.code \in DOMAIN codes \intersect Codes /\ r.outlet = codes[r.code].outlet
        /\ codes' = [codes EXCEPT ![r.code].used = TRUE]
    BY DEF Redeemed, CodesInv
  <1>2. Device(r).code = r.code /\ Device(r).outlet = r.outlet
    BY DEF Device
  <1>3. /\ DOMAIN codes' = DOMAIN codes /\ codes' = [c \in DOMAIN codes' |-> codes'[c]]
        /\ \A c \in DOMAIN codes : codes'[c] \in Code /\ codes'[c].outlet = codes[c].outlet
        /\ \A c \in DOMAIN codes : codes[c].used \/ c = r.code => codes'[c].used
    <2>1. DOMAIN codes' = DOMAIN codes /\ codes' = [c \in DOMAIN codes' |-> codes'[c]]
      BY <1>1
    <2>2. ASSUME NEW c \in DOMAIN codes
          PROVE  /\ codes'[c] \in Code /\ codes'[c].outlet = codes[c].outlet
                 /\ codes[c].used \/ c = r.code => codes'[c].used
      <3>1. codes[c] \in Code
        BY DEF CodesInv
      <3>2. codes'[c] = IF c = r.code THEN [codes[c] EXCEPT !.used = TRUE] ELSE codes[c]
        BY <1>1
      <3> QED
        BY <3>1, <3>2 DEF Code
    <2> QED
      BY <2>1, <2>2
  <1>4. IsFiniteSet(devices') /\ IsFiniteSet(hashing')
    BY <1>1, FS_AddElement, FS_RemoveElement DEF CodesInv
  <1>5. \A x \in hashing' : x.code \in DOMAIN codes' \intersect Codes /\ x.outlet = codes'[x.code].outlet
    BY <1>1, <1>3 DEF CodesInv
  <1>6. \A d \in devices' :
           d.code \in DOMAIN codes' /\ d.outlet = codes'[d.code].outlet /\ codes'[d.code].used
    BY <1>1, <1>2, <1>3 DEF CodesInv
  <1>7. ASSUME NEW c \in Codes
        PROVE  Cardinality(DevicesOf(c)') + Cardinality(UnderWay(c)') <= peak[c]
    <2>1. CASE c = r.code
      <3>1. DevicesOf(c)' = DevicesOf(c) \union {Device(r)}
        BY <1>1, <1>2, <2>1 DEF DevicesOf
      <3>2. UnderWay(c)' = UnderWay(c) \ {r} /\ r \in UnderWay(c)
        BY <1>1, <2>1 DEF UnderWay
      <3>3. /\ Cardinality(DevicesOf(c) \union {Device(r)}) \in Nat
            /\ Cardinality(DevicesOf(c) \union {Device(r)}) <= Cardinality(DevicesOf(c)) + 1
        BY FinitePerCode, AtMostOneMore
      <3>4. /\ Cardinality(UnderWay(c) \ {r}) = Cardinality(UnderWay(c)) - 1
        BY <3>2, FinitePerCode, FS_RemoveElement
      <3>5. /\ Cardinality(DevicesOf(c)) \in Nat /\ Cardinality(UnderWay(c)) \in Nat
            /\ peak[c] \in Nat
            /\ Cardinality(DevicesOf(c)) + Cardinality(UnderWay(c)) <= peak[c]
        BY FinitePerCode DEF CodesInv
      <3> QED
        BY <3>1, <3>2, <3>3, <3>4, <3>5
    <2>2. CASE c # r.code
      <3>1. DevicesOf(c)' = DevicesOf(c) /\ UnderWay(c)' = UnderWay(c)
        BY <1>1, <1>2, <2>2 DEF DevicesOf, UnderWay
      <3> QED
        BY <3>1 DEF CodesInv
    <2> QED
      BY <2>1, <2>2
  <1> QED
    BY <1>1, <1>3, <1>4, <1>5, <1>6, <1>7 DEF CodesInv

LEMMA CodesNext == CodesInv /\ SecretInv /\ [Next]_vars => CodesInv'
  <1> SUFFICES ASSUME CodesInv, SecretInv, [Next]_vars PROVE CodesInv'
    OBVIOUS
  <1>1. CASE UNCHANGED api
    BY <1>1 DEF api, CodesInv, DevicesOf, UnderWay
  <1>2. ASSUME UNCHANGED <<devices, hashing, peak>>,
               codes' = [c \in DOMAIN codes' |-> codes'[c]], DOMAIN codes \subseteq DOMAIN codes',
               \A c \in DOMAIN codes' : codes'[c] \in Code,
               \A c \in DOMAIN codes :
                  codes'[c].outlet = codes[c].outlet /\ codes'[c].used = codes[c].used
        PROVE  CodesInv'
    <2>1. \A r \in hashing : r.code \in DOMAIN codes' \intersect Codes
                             /\ r.outlet = codes'[r.code].outlet
      BY <1>2 DEF CodesInv
    <2>2. \A d \in devices : d.code \in DOMAIN codes' /\ d.outlet = codes'[d.code].outlet
                             /\ codes'[d.code].used
      BY <1>2 DEF CodesInv
    <2>3. \A c \in Codes : DevicesOf(c)' = DevicesOf(c) /\ UnderWay(c)' = UnderWay(c)
      BY <1>2 DEF DevicesOf, UnderWay
    <2> QED
      BY <1>2, <2>1, <2>2, <2>3 DEF CodesInv
  <1>3. ASSUME NEW c \in Codes, NEW o \in CodeOutlets, IssueCode(c, o) PROVE CodesInv'
    <2> DEFINE made == [outlet |-> o, expired |-> FALSE, used |-> FALSE]
    <2>1. /\ c \notin DOMAIN codes /\ made \in Code
          /\ codes' = [d \in DOMAIN codes \union {c} |-> IF d = c THEN made ELSE codes[d]]
      BY <1>3 DEF IssueCode, Code
    <2> HIDE DEF made
    <2>2. /\ DOMAIN codes' = DOMAIN codes \union {c} /\ codes'[c] = made
          /\ \A d \in DOMAIN codes : codes'[d] = codes[d]
      BY <2>1
    <2> QED
      BY <1>2, <1>3, <2>1, <2>2 DEF IssueCode, CodesInv
  <1>4. ASSUME NEW c \in Codes, CodeExpires(c) PROVE CodesInv'
    <2>1. /\ DOMAIN codes' = DOMAIN codes /\ codes' = [d \in DOMAIN codes' |-> codes'[d]]
          /\ \A d \in DOMAIN codes : codes'[d] \in Code /\ codes'[d].outlet = codes[d].outlet
                                     /\ codes'[d].used = codes[d].used
      BY <1>4, ZenonT(30) DEF CodeExpires, CodesInv, Code
    <2> QED
      BY <1>2, <1>4, <2>1 DEF CodeExpires
  <1>5. CASE ApiRestarts
    <2>1. /\ DOMAIN codes' = {} /\ codes' = [c \in {} |-> None] /\ devices' = {} /\ hashing' = {}
          /\ peak' = [c \in Codes |-> 0]
      BY <1>5 DEF ApiRestarts
    <2>2. \A c \in Codes : DevicesOf(c)' = {} /\ UnderWay(c)' = {} /\ peak'[c] = 0
      BY <2>1 DEF DevicesOf, UnderWay
    <2>3. \A c \in Codes : Cardinality(DevicesOf(c)') + Cardinality(UnderWay(c)') <= peak'[c]
      BY <2>2, FS_EmptySet
    <2>4. peak' \in [Codes -> Nat] /\ IsFiniteSet(devices') /\ IsFiniteSet(hashing')
      BY <2>1, FS_EmptySet
    <2> QED
      BY <2>1, <2>3, <2>4 DEF CodesInv
  <1> QED
    BY <1>1, <1>3, <1>4, <1>5, StepsOfCodes, BeginsCounted, RedeemedCounted

LEMMA SecretNext == SecretInv /\ [Next]_vars => SecretInv'
  <1> SUFFICES ASSUME SecretInv, [Next]_vars PROVE SecretInv'
    OBVIOUS
  <1>0. restarts \in Nat
    BY DEF SecretInv
  <1>1. restarts' \in Nat /\ ((devices \subseteq devices' /\ restarts' = restarts) \/ restarts' > 0)
    <2>1. CASE ApiRestarts
      BY <1>0, <2>1 DEF ApiRestarts
    <2>2. CASE ~ApiRestarts
      BY <1>0, <2>2, StepsOfCodes DEF api, CodeExpires, IssueCode, Begins, Redeemed
    <2> QED
      BY <2>1, <2>2
  <1>2. ASSUME post' \in {post, None}, secret' \in {secret, None} PROVE SecretInv'
    BY <1>1, <1>2 DEF SecretInv
  <1>3. CASE OfficeStep
    <2>1. post' \in {post, None} /\ secret' = secret
      BY <1>3 DEF OfficeStep, CodeExpires, IssueCode, OtherRedeems, OtherRedeemed, ApiRestarts, till
    <2> QED
      BY <1>2, <2>1
  <1>4. CASE PostChecked
    <2>1. post \in [stage : {"sent"}, code : Codes, no : {0}]
      BY <1>4 DEF PostChecked, SecretInv
    <2>2. secret' = secret /\ post'.stage = "hashing"
      BY <1>4, <2>1 DEF PostChecked
    <2> QED
      BY <1>1, <2>2 DEF SecretInv
  <1>5. ASSUME NEW r \in hashing, PostRedeemed(r) PROVE SecretInv'
    <2>1. secret' = secret /\ post'.stage = "answered" /\ post'.device = Device(r) /\ Device(r) \in devices'
      BY <1>5 DEF PostRedeemed, Redeemed
    <2> QED
      BY <1>1, <2>1 DEF SecretInv
  <1>6. CASE StoreSecret
    <2>1. secret' = post.device /\ post'.stage = "stored" /\ (post.device \in devices \/ restarts > 0)
      BY <1>6 DEF StoreSecret, SecretInv
    <2>2. devices' = devices /\ restarts' = restarts
      BY <1>6 DEF StoreSecret, api
    <2> QED
      BY <1>0, <2>1, <2>2 DEF SecretInv
  <1>7. ASSUME NEW c \in Codes, Submit(c) PROVE SecretInv'
    <2>1. secret' = secret /\ post' = [stage |-> "sent", code |-> c, no |-> 0]
      BY <1>7 DEF Submit
    <2>2. post'.stage = "sent" /\ post' \in [stage : {"sent"}, code : Codes, no : {0}]
      BY <2>1
    <2> QED
      BY <1>1, <2>1, <2>2 DEF SecretInv
  <1>8. CASE TillStep /\ ~PostChecked /\ ~StoreSecret /\ ~(\E r \in hashing : PostRedeemed(r))
    <2>1. post' \in {post, None} /\ secret' = secret
      BY <1>8 DEF TillStep, PostFails, PublishEnrolled, PublishReset, Hydrate,
         PublishHydration, HydrationFails, ProviderMounts, RunnerCycle, CyclePulls
    <2> QED
      BY <1>2, <2>1
  <1>9. CASE ResetDevice \/ RefreshByHand \/ TabDies \/ UNCHANGED <<api, till>>
    <2>1. post' \in {post, None} /\ secret' \in {secret, None}
      BY <1>9 DEF ResetDevice, RefreshByHand, CyclePulls, TabDies, till
    <2> QED
      BY <1>2, <2>1
  <1> QED
    BY <1>3, <1>4, <1>5, <1>6, <1>7, <1>8, <1>9, StepsOfEnrolment

(* Of every code no more devices were made than redemptions of it were under *)
(* way at once, each device is for its code's outlet, and the till's secret  *)
(* names one the API made, through restarts of both, late hashes and lost    *)
(* answers.                                                                  *)
THEOREM DevicesAccounted == Spec => []DevicesAccountedFor
  <1>1. Init => CodesInv /\ SecretInv
    <2> SUFFICES ASSUME Init PROVE CodesInv /\ SecretInv
      OBVIOUS
    <2>1. /\ codes = [c \in {} |-> None] /\ devices = {} /\ hashing = {} /\ restarts = 0
          /\ peak = [c \in Codes |-> 0] /\ post = None /\ secret = None
      BY DEF Init, EnrolmentInit
    <2>2. \A c \in Codes : DevicesOf(c) = {} /\ UnderWay(c) = {} /\ peak[c] = 0
      BY <2>1 DEF DevicesOf, UnderWay
    <2>3. \A c \in Codes : Cardinality(DevicesOf(c)) + Cardinality(UnderWay(c)) <= peak[c]
      BY <2>2, FS_EmptySet
    <2>4. IsFiniteSet(devices) /\ IsFiniteSet(hashing)
      BY <2>1, FS_EmptySet
    <2> QED
      BY <2>1, <2>3, <2>4 DEF CodesInv, SecretInv
  <1>2. CodesInv /\ SecretInv => DevicesAccountedFor
    <2> SUFFICES ASSUME CodesInv, SecretInv PROVE DevicesAccountedFor
      OBVIOUS
    <2>1. ASSUME NEW c \in Codes PROVE Cardinality({d \in devices : d.code = c}) <= peak[c]
      <3>1. /\ Cardinality(DevicesOf(c)) \in Nat /\ Cardinality(UnderWay(c)) \in Nat
            /\ peak[c] \in Nat /\ Cardinality(DevicesOf(c)) + Cardinality(UnderWay(c)) <= peak[c]
        BY FinitePerCode DEF CodesInv
      <3>2. Cardinality(DevicesOf(c)) <= peak[c]
        BY <3>1
      <3> QED
        BY <3>2 DEF DevicesOf
    <2> QED
      BY <2>1 DEF CodesInv, SecretInv, DevicesAccountedFor
  <1> QED
    BY <1>1, <1>2, CodesNext, SecretNext, PTL DEF Spec
=============================================================================

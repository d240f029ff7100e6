---------------------------- MODULE OfficeScreens ----------------------------
(***************************************************************************)
(* The back office of one browser tab as a reader of the API: the login,   *)
(* the route gates, and the three screens that load while their filters    *)
(* change under them: dashboard, sales history and cashier report.         *)
(*                                                                         *)
(* Abstractions.  A filter change, the abort of the request before it and  *)
(* the start of the next are one step, as the effect of one render.  A     *)
(* page of a bucket is read by the server and taken by the client in one   *)
(* step: an abort in between only drops it.  The outlets are fixed: a      *)
(* screen that adds one is another screen, and a tab does not hear of      *)
(* another tab's writes (OfficeStore).  The rows are kept by sale; what a  *)
(* row shows of its sale is as of the page that brought it, and the figures*)
(* of a report as of its answer (SalesReports).  The filters by tender and *)
(* cashier, which load nothing, are SalesReports' Narrowed.  An account is *)
(* its role.  Left out: the row selected, and a login under way, beside    *)
(* which the form takes no second one.                                     *)
(***************************************************************************)
EXTENDS SalesReports

CONSTANTS
    Roles, ManagerRoles,
    NoRole,        \* nobody is logged in
    MaxPages,      \* of a bucket: MAX_PAGES_PER_BUCKET
    MaxChosen      \* bound: outlets a filter names; the dashboard names one

ASSUME ScreensAssumption ==
    /\ ManagerRoles \subseteq Roles /\ NoRole \notin Roles
    /\ MaxPages \in Nat \ {0}

VARIABLES
    screen,     \* the route shown, or "out" or "forbidden"
    scope,      \* the dashboard's choice of window
    filters,    \* [outlets, from, to], outlets empty for all
    load,       \* the request under way, or Nothing
    loaded,     \* the filters of the answer shown, or Nothing
    failed      \* an error is shown

reader == <<screen, scope, filters, load, loaded, failed>>
screensVars == <<world, reader>>

Screens == {"dashboard", "sales", "cashierDay"}
Scopes == {"today", "yesterday", "last_7_days"}
Reading == screen \in Screens

Nothing == [none |-> TRUE]

-----------------------------------------------------------------------------
(* Requests. *)

Targets(f) == IF f.outlets = {} THEN Outlets ELSE f.outlets
Buckets(f) == Targets(f) \X (f.from..f.to)

NoPagesYet == [rows |-> <<>>, next |-> NoSale, pages |-> 0, done |-> FALSE]

(* since: for the properties, what the server had when a walk began.      *)
Request(sc, f) ==
    IF sc = "sales"
    THEN [asked |-> f, since |-> recorded \ Probes, got |-> [b \in Buckets(f) |-> NoPagesYet]]
    ELSE [asked |-> f]

(* The effect of the filters: a range that is empty asks for nothing.       *)
Fetches(sc, f) ==
    IF sc = "sales" /\ Buckets(f) = {}
    THEN /\ load' = Nothing
         /\ loaded' = f
         /\ failed' = FALSE
    ELSE /\ load' = Request(sc, f)
         /\ failed' = FALSE
         /\ UNCHANGED loaded

Unaborted(sc, f) ==  \* mutant: the request before is left to answer
    IF load # Nothing THEN UNCHANGED <<load, loaded, failed>> ELSE Fetches(sc, f)

(* The cleanup aborts the request before, and its answer is not heard. *)
Refetch(sc, f) == Fetches(sc, f)

-----------------------------------------------------------------------------
(* The shell. *)

FirstOutlet == {CHOOSE o \in Outlets : TRUE}

(* Each screen begins with today, and with every outlet or the first. *)
Defaults(sc, d) ==
    [outlets |-> IF sc = "cashierDay" THEN FirstOutlet ELSE {}, from |-> d, to |-> d]

Leave(sc) ==
    /\ screen' = sc
    /\ scope' = "today" /\ filters' = Defaults("dashboard", today)
    /\ load' = Nothing /\ loaded' = Nothing /\ failed' = FALSE
    /\ UNCHANGED world

Mount(sc) ==
    /\ screen' = sc
    /\ scope' = "today" /\ filters' = Defaults(sc, today)
    /\ load' = Request(sc, filters') /\ loaded' = Nothing /\ failed' = FALSE
    /\ UNCHANGED world

(* What a route's component renders for a session. *)
Render(sc, role) ==
    IF role = NoRole THEN Leave("out")
    ELSE IF role \in ManagerRoles THEN Mount(sc) ELSE Leave("forbidden")

(* POST /v1/auth/session/login: what it answers an account's name. *)
SessionLogin(r, passwordOk, tooMany) ==
    IF tooMany THEN "rate_limited"
    ELSE IF r \in Roles /\ passwordOk THEN "ok"
    ELSE "invalid_credentials"

(* A login that is answered stores the session and goes to "/", which sends *)
(* managers on to the dashboard and the others to a screen they may not see.*)
Login(r, passwordOk, tooMany) ==
    /\ screen = "out" /\ SessionLogin(r, passwordOk, tooMany) = "ok"
    /\ Render("dashboard", r)

(* Whatever else comes back, or nothing, leaves the form with an error. *)
LoginFails ==
    /\ screen = "out" /\ failed' = TRUE
    /\ UNCHANGED <<world, screen, scope, filters, load, loaded>>

(* The logout clears the session of this browser; the cookie stays. *)
Logout == screen # "out" /\ Leave("out")

(* The gate of a route reads the session in localStorage when it renders.    *)
(* Another tab may have logged in or out by then, and nothing is rendered    *)
(* again for that, so the role is an input.                                  *)
Navigate(sc, role) == screen # "out" /\ sc # screen /\ Render(sc, role)

-----------------------------------------------------------------------------
(* The filters. *)

SetFilters(f) ==
    /\ Reading /\ f # filters
    /\ filters' = f
    /\ Refetch(screen, f)
    /\ UNCHANGED <<world, screen>>

(* The window of a scope is computed when the scope is chosen, and kept. *)
Window(sc) ==
    CASE sc = "today" -> [from |-> today, to |-> today]
      [] sc = "yesterday" -> [from |-> today - 1, to |-> today - 1]
      [] sc = "last_7_days" -> [from |-> today - 6, to |-> today]

SetScope(sc) ==
    LET f == [filters EXCEPT !.from = Window(sc).from, !.to = Window(sc).to]
    IN /\ screen = "dashboard" /\ scope # sc
       /\ scope' = sc
       /\ \/ SetFilters(f)
          \/ /\ f = filters
             /\ UNCHANGED <<world, screen, filters, load, loaded, failed>>

SetDates ==
    /\ screen # "dashboard"
    /\ \E d \in Dates :
         \/ screen = "sales" /\ SetFilters([filters EXCEPT !.from = d])
         \/ screen = "sales" /\ SetFilters([filters EXCEPT !.to = d])
         \/ screen = "cashierDay" /\ SetFilters([filters EXCEPT !.from = d, !.to = d])
    /\ UNCHANGED scope

SetOutlet ==
    /\ \E O \in SUBSET Outlets :
        /\ Cardinality(O) <= MaxChosen
        /\ screen = "cashierDay" => O # {}
        /\ SetFilters([filters EXCEPT !.outlets = O])
    /\ UNCHANGED scope

(* Back to the date on which the screen was opened. *)
ClearFilters ==
    /\ screen = "sales"
    /\ \E d \in Dates : d <= today /\ SetFilters(Defaults("sales", d))
    /\ UNCHANGED scope

-----------------------------------------------------------------------------
(* Answers. *)

Drained(got) == \A b \in DOMAIN got : got[b].done

(* fetchSalesBucket: the next page of a bucket. *)
BucketPage(b) ==
    /\ screen = "sales" /\ load # Nothing
    /\ b \in DOMAIN load.got /\ ~load.got[b].done /\ load.got[b].pages < MaxPages
    /\ LET page == SalesPage(b[1], b[2], load.got[b].next)
       IN load' = [load EXCEPT !.got[b] =
                      [rows |-> @.rows \o page.rows, next |-> page.next,
                       pages |-> @.pages + 1, done |-> page.next = NoSale]]
    /\ UNCHANGED <<world, screen, scope, filters, loaded, failed>>

Answered ==
    /\ loaded' = load.asked /\ load' = Nothing
    /\ UNCHANGED <<world, screen, scope, filters, failed>>

(* fetchSalesHistory has its last bucket. *)
SalesAnswered ==
    screen = "sales" /\ load # Nothing /\ Drained(load.got) /\ Answered

DashboardAnswered == screen = "dashboard" /\ load # Nothing /\ Answered

CashierDayAnswered == screen = "cashierDay" /\ load # Nothing /\ Answered

(* What is outstanding is refused or lost, or is out of contract; or a bucket *)
(* has more pages than the walk takes.                                       *)
LoadFails ==
    /\ load # Nothing
    /\ screen = "sales" => \E b \in DOMAIN load.got : ~load.got[b].done
    /\ load' = Nothing /\ loaded' = Nothing /\ failed' = TRUE
    /\ UNCHANGED <<world, screen, scope, filters>>

(* The link above the cashiers' rows names the filters, not the report. *)
CsvLink ==
    IF screen = "cashierDay" /\ loaded # Nothing THEN filters ELSE Nothing

-----------------------------------------------------------------------------
ScreensInit ==
    /\ WorldInit
    /\ screen = "out" /\ scope = "today"
    /\ filters = Defaults("dashboard", today)
    /\ load = Nothing /\ loaded = Nothing /\ failed = FALSE

Answers ==
    \/ \E b \in Outlets \X Dates : BucketPage(b)
    \/ SalesAnswered \/ DashboardAnswered \/ CashierDayAnswered \/ LoadFails

ScreensNext ==
    \/ (\E s \in Sales : SaleArrives(s) \/ SaleVoided(s) \/ TenderVerified(s))
         /\ UNCHANGED reader
    \/ NextDay /\ UNCHANGED reader
    \/ \E r \in Roles \union {NoRole}, ok, tooMany \in BOOLEAN : Login(r, ok, tooMany)
    \/ LoginFails
    \/ Logout
    \/ \E sc \in Screens, r \in Roles \union {NoRole} : Navigate(sc, r)
    \/ \E sc \in Scopes : SetScope(sc)
    \/ SetDates \/ SetOutlet \/ ClearFilters
    \/ Answers

-----------------------------------------------------------------------------
Settled == Reading /\ load = Nothing

(* A screen at rest shows the answer to the filters it shows, or an error:   *)
(* never the rows of filters that were changed while it loaded; and the file *)
(* it offers is of the report it shows.                                      *)
SettledIsAsked ==
    Settled => /\ failed \/ loaded = filters
               /\ CsvLink \in {Nothing, loaded}

(* The walks of all buckets together list every sale of the window that the  *)
(* server held when they began, once, in whatever order the sales of late    *)
(* tills arrive between two pages; and nothing that is not in the window.    *)
(* The pages of the table show them all, and never an empty page of some.    *)
WalkMissesNone ==
    (screen = "sales" /\ load # Nothing) =>
        \A b \in DOMAIN load.got :
            LET rows == load.got[b].rows
                listed == Range(rows)
            IN /\ load.got[b].done =>
                    {s \in load.since : OutletOf[s] = b[1] /\ SoldOn[s] = b[2]}
                        \subseteq listed
               /\ listed \subseteq Bucket(b[1], b[2])
               /\ \A i, j \in 1..Len(rows) : i < j => Precedes(rows[i], rows[j])
               /\ FlattenSeq([p \in 1..PageCount(rows) |-> TablePage(rows, p - 1)]) = rows
               /\ rows # <<>> => \A p \in 0..Len(rows) : TablePage(rows, p) # <<>>
=============================================================================

----------------------------- MODULE SalesReports -----------------------------
(***************************************************************************)
(* What the API answers a back office about the recorded sales: the bucket *)
(* of an outlet and a business date page by page, the dashboard summary,   *)
(* the report by cashier, the close of a date with its file; and what the  *)
(* screens make of the answers.                                            *)
(*                                                                         *)
(* Abstractions.  One merchant.  The sales repository and the two report   *)
(* repositories, separate classes in the code, are taken to hold the same  *)
(* sales.  A sale is a number, as its id sorts; createdAt is stamped by    *)
(* the till, so a sale that reaches the server late may sort before sales  *)
(* recorded already.  A sale has one tender, whose amount is what the      *)
(* buyer handed over: for cash the change is in it.  A page token is the   *)
(* sale it stands behind.  Every sale recorded is 'finalised', the default *)
(* of a column that no code writes, so the filters on it are left out.     *)
(* Left out too: the leaderboards, the names, and the drawer columns,      *)
(* which a shift seeds.                                                    *)
(***************************************************************************)
EXTENDS Integers, Sequences, FiniteSets, FiniteSetsExt, SequencesExt

CONSTANTS
    Sales,        \* sales of the merchant, numbered as their ids sort
    StampedAt,    \* per sale: createdAt, of the till's clock
    OutletOf, SoldOn, Clerk, Method, Total, Tax,
    Paid,         \* per sale: amountIdr of its tender
    Probes,       \* the synthetic ones
    Outlets, Dates,
    NoSale, NoDate,
    PageSize,     \* limit of a page when the client names none
    TableSize,    \* rows of a page of a table
    MaxVoids      \* bound: voids of a run

ASSUME ConstantsAssumption ==
    /\ Sales \subseteq Nat /\ IsFiniteSet(Sales) /\ NoSale \notin Sales
    /\ Probes \subseteq Sales /\ Dates \subseteq Nat /\ NoDate \notin Dates
    /\ StampedAt \in [Sales -> Nat] /\ OutletOf \in [Sales -> Outlets]
    /\ SoldOn \in [Sales -> Dates]
    /\ Total \in [Sales -> Nat] /\ Tax \in [Sales -> Nat] /\ Paid \in [Sales -> Nat]
    /\ \A s \in Sales : IF Method[s] = "cash" THEN Paid[s] >= Total[s] ELSE Paid[s] = Total[s]
    /\ PageSize \in Nat \ {0} /\ TableSize \in Nat \ {0}

VARIABLES
    recorded,   \* sales the server holds
    voidedOn,   \* per sale: voidBusinessDate, or NoDate
    verified,   \* sales whose static QRIS reconciliation has matched
    today       \* the merchant's date

world == <<recorded, voidedOn, verified, today>>

Amount(S) == SumFunction([s \in S |-> Total[s]])
Taken(S) == SumFunction([s \in S |-> Paid[s]])
TaxOn(S) == SumFunction([s \in S |-> Tax[s]])

-----------------------------------------------------------------------------
(* What the tills do. *)

WorldInit ==
    /\ recorded = {} /\ voidedOn = [s \in Sales |-> NoDate] /\ verified = {}
    /\ today \in Dates /\ \A d \in Dates : today <= d

SaleArrives(s) ==
    /\ s \notin recorded /\ SoldOn[s] <= today
    /\ recorded' = recorded \union {s}
    /\ UNCHANGED <<voidedOn, verified, today>>

(* A shift may stay open past midnight, and a void is dated by the till. *)
SaleVoided(s) ==
    /\ s \in recorded /\ voidedOn[s] = NoDate
    /\ Cardinality({u \in Sales : voidedOn[u] # NoDate}) < MaxVoids
    /\ voidedOn' = [voidedOn EXCEPT ![s] = today]
    /\ UNCHANGED <<recorded, verified, today>>

(* A static QRIS is recorded unverified; a nightly pass or a manual match   *)
(* flips the row.                                                           *)
TenderVerified(s) ==
    /\ s \in recorded \ verified /\ Method[s] = "qris_static"
    /\ verified' = verified \union {s}
    /\ UNCHANGED <<recorded, voidedOn, today>>

NextDay ==
    /\ today + 1 \in Dates
    /\ today' = today + 1
    /\ UNCHANGED <<recorded, voidedOn, verified>>

-----------------------------------------------------------------------------
(* GET /v1/sales?outletId=&businessDate=&pageToken= *)

Bucket(o, d) ==
    {s \in recorded : OutletOf[s] = o /\ SoldOn[s] = d /\ s \notin Probes}

Precedes(s, u) ==
    StampedAt[s] < StampedAt[u] \/ (StampedAt[s] = StampedAt[u] /\ s < u)

ByStamp(token, s) ==  \* mutant: the id breaks no tie
    token = NoSale \/ StampedAt[token] < StampedAt[s]

(* Whether the row comes after the row of the page token. *)
Behind(token, s) == token = NoSale \/ Precedes(token, s)

(* The n-th of a set of sales, as the query sorts them. *)
InOrder(S, n) == CHOOSE s \in S : Cardinality({u \in S : ~Precedes(s, u)}) = n

(* listSalesByBusinessDatePage *)
SalesPage(o, d, token) ==
    LET beyond == {s \in Bucket(o, d) : Behind(token, s)}
        n == Min({PageSize, Cardinality(beyond)})
    IN [rows |-> [i \in 1..n |-> InOrder(beyond, i)],
        next |-> IF Cardinality(beyond) > PageSize THEN InOrder(beyond, PageSize) ELSE NoSale]

-----------------------------------------------------------------------------
(* What the sales screen makes of the rows it was given. *)

WireMethod(s) == IF Method[s] = "qris_dynamic" THEN "qris" ELSE Method[s]

(* tenderMatches *)
PillTakes(pill, wire) == wire = (IF pill = "qris_dynamic" THEN "qris" ELSE pill)

(* methodToFilterKey: the tender a row, or the receipt beside it, names. *)
Label(wire) ==
    CASE wire = "qris" -> "qris_dynamic"
      [] wire \in {"cash", "qris_static"} -> wire
      [] OTHER -> "other"

(* applyClientFilters: no pill or no cashier chosen is all of them. *)
Narrowed(rows, pills, clerks) ==
    {s \in rows : /\ clerks = {} \/ Clerk[s] \in clerks
                  /\ pills = {} \/ \E k \in pills : PillTakes(k, WireMethod(s))}

SaleRow(s) ==
    [total |-> Total[s], tender |-> Label(WireMethod(s)), voided |-> voidedOn[s] # NoDate]

(* The rows of a table's page; the page left by longer rows is the last. *)
PageCount(rows) == Max({1, (Len(rows) + TableSize - 1) \div TableSize})
TablePage(rows, page) ==
    LET first == Min({page, PageCount(rows) - 1}) * TableSize
    IN SubSeq(rows, first + 1, Min({Len(rows), first + TableSize}))

-----------------------------------------------------------------------------
(* GET /v1/reports/dashboard: outlets is one outlet, or empty for all.       *)

VoidedToo(O, from, to) ==  \* mutant: voided sales count
    {s \in recorded \ Probes : (O = {} \/ OutletOf[s] \in O) /\ SoldOn[s] \in from..to}

(* baseSaleFilter: the WHERE clause the queries share. *)
Finalised(O, from, to) ==
    {s \in recorded \ Probes :
        /\ O = {} \/ OutletOf[s] \in O
        /\ SoldOn[s] \in from..to
        /\ voidedOn[s] = NoDate}

TenderMix(S) ==
    [m \in {Method[s] : s \in S} |-> Taken({s \in S : Method[s] = m})]

(* The first query and the second; another commit may fall between them. *)
Headline(O, from, to) ==
    LET S == Finalised(O, from, to)
    IN [gross |-> Amount(S), net |-> Amount(S) - TaxOn(S),
        count |-> Cardinality(S)]
Mix(O, from, to) == TenderMix(Finalised(O, from, to))

(* The tiles of the screen: a share is of what the tenders add up to. *)
TenderTotal(mix) == SumFunction(mix)
Tiles(headline, mix) ==
    [gross |-> headline.gross, net |-> headline.net, count |-> headline.count,
     shares |-> [m \in DOMAIN mix |->
                    IF TenderTotal(mix) = 0 THEN 0
                    ELSE (200 * mix[m] + TenderTotal(mix)) \div (2 * TenderTotal(mix))]]

-----------------------------------------------------------------------------
(* GET /v1/reports/cashier-day *)

Rung(o, d) == {s \in recorded \ Probes : OutletOf[s] = o /\ SoldOn[s] = d}

LiveThisDay(o, d) == {s \in Rung(o, d) : voidedOn[s] = NoDate}

(* A void counts on its own date, wherever the sale was rung. *)
VoidThisDay(o, d) == {s \in recorded \ Probes : OutletOf[s] = o /\ voidedOn[s] = d}

(* The figures of a set of cashiers: of one, for its row; of all, the totals. *)
Figures(live, void) ==
    [count |-> Cardinality(live), gross |-> Amount(live), voids |-> Cardinality(void),
     voided |-> Amount(void), net |-> Amount(live) - Amount(void), mix |-> TenderMix(live)]

Of(c, S) == {s \in S : Clerk[s] = c}

(* getCashierDay *)
CashierRows(o, d) ==
    [c \in {Clerk[s] : s \in LiveThisDay(o, d) \union VoidThisDay(o, d)} |->
        Figures(Of(c, LiveThisDay(o, d)), Of(c, VoidThisDay(o, d)))]

(* toCashierDayResponse: the totals add up the rows. *)
CashierTotals(rows) ==
    LET sum(k) == SumFunction([c \in DOMAIN rows |-> rows[c][k]])
        methods == UNION {DOMAIN rows[c].mix : c \in DOMAIN rows}
    IN [count |-> sum("count"), gross |-> sum("gross"),
        voids |-> sum("voids"), voided |-> sum("voided"), net |-> sum("gross") - sum("voided"),
        mix |-> [m \in methods |-> SumFunction([c \in DOMAIN rows |->
                    IF m \in DOMAIN rows[c].mix THEN rows[c].mix[m] ELSE 0])]]

TenderColumns == {"cash", "qris_dynamic", "qris_static"}
ASSUME MethodAssumption == Method \in [Sales -> TenderColumns]

(* The cells of the screen's table, and those of the card of the totals. *)
Amounts(f) ==
    [m \in TenderColumns |-> IF m \in DOMAIN f.mix THEN f.mix[m] ELSE 0]

DayTable(rows) ==
    [c \in DOMAIN rows |->
        [gross |-> rows[c].gross, net |-> rows[c].net, count |-> rows[c].count,
         voided |-> rows[c].voided, paid |-> Amounts(rows[c])]]

TotalsCard(totals) ==
    [gross |-> totals.gross, net |-> totals.net, count |-> totals.count,
     voided |-> totals.voided, paid |-> Amounts(totals)]

(* GET /v1/reports/cashier-day/export.csv: a line for each cashier and one   *)
(* for the totals, and in each a column for a tender, whether used or not.   *)
CsvLine(f) ==
    [gross |-> f.gross, net |-> f.net,
     paid |-> [m \in TenderColumns |-> IF m \in DOMAIN f.mix THEN f.mix[m] ELSE 0]]

CashierDayCsv(rows) ==
    [cashiers |-> [c \in DOMAIN rows |-> CsvLine(rows[c])],
     totals |-> CsvLine(CashierTotals(rows))]

-----------------------------------------------------------------------------
(* The close of a date, of the same sales, and the file of it a bookkeeper  *)
(* downloads.                                                                *)

(* toSaleRecord: a paid QRIS order is "qris" on the wire, and the reader that *)
(* feeds the close has a static QRIS of it, whose money nobody vouched for.   *)
EodTender(s) ==
    [method |-> IF WireMethod(s) = "qris" THEN "qris_static" ELSE WireMethod(s),
     amount |-> Paid[s],
     verified |-> WireMethod(s) # "qris" /\ (WireMethod(s) = "qris_static" => s \in verified)]

(* The change is taken off the cash tendered, never below nothing. *)
CashOf(s) ==
    LET other == IF EodTender(s).method = "cash" THEN 0 ELSE EodTender(s).amount
    IN IF other > Total[s] THEN 0 ELSE Total[s] - other

VoidsByVoidDate(o, d) == VoidThisDay(o, d)  \* mutant: a void is of its own date

(* Its void count is of the sales of the date, whenever they were voided. *)
VoidedOfDate(o, d) == {s \in Rung(o, d) : voidedOn[s] # NoDate}

(* computeBreakdown *)
EodBreakdown(o, d) ==
    LET live == LiveThisDay(o, d)
        by(m) == {s \in live : EodTender(s).method = m}
        unverified == {s \in by("qris_static") : ~EodTender(s).verified}
        tendered(S) == SumFunction([s \in S |-> EodTender(s).amount])
    IN [saleCount |-> Cardinality(live), voidCount |-> Cardinality(VoidedOfDate(o, d)),
        cashIdr |-> SumFunction([s \in live |-> CashOf(s)]),
        qrisDynamicIdr |-> tendered(by("qris_dynamic")),
        qrisStaticIdr |-> tendered(by("qris_static")),
        qrisStaticUnverifiedIdr |-> tendered(unverified),
        qrisStaticUnverifiedCount |-> Cardinality(unverified),
        netIdr |-> Amount(live), taxIdr |-> TaxOn(live)]

(* GET /v1/eod/:id/export.csv of a breakdown b; what the close calls net is   *)
(* what the file calls gross.                                                 *)
EodCsvRow(b) ==
    LET expected == b.qrisStaticIdr + b.qrisDynamicIdr
        settled == expected - b.qrisStaticUnverifiedIdr
    IN [expectedQris |-> expected, settledQris |-> settled,
        qrisVariance |-> expected - settled,
        gross |-> b.netIdr, ppn |-> b.taxIdr, net |-> b.netIdr - b.taxIdr,
        saleCount |-> b.saleCount, voidCount |-> b.voidCount]

-----------------------------------------------------------------------------
Change(S) == SumFunction([s \in S |-> Paid[s] - Total[s]])

ReportsAgreeOn(o, d) ==
    LET change == Change({s \in LiveThisDay(o, d) : Method[s] = "cash"})
        rows == CashierRows(o, d)
        totals == CashierTotals(rows)
        csv == CashierDayCsv(rows).totals
        mix == Mix({o}, d, d)
        tiles == Tiles(Headline({o}, d, d), mix)
        paid(M) == SumFunction([m \in M \intersect DOMAIN mix |-> mix[m]])
        under(k) == {s \in Narrowed(Bucket(o, d), {k}, {}) : ~SaleRow(s).voided}
        breakdown == EodBreakdown(o, d)
        eod == EodCsvRow(breakdown)
        table == DayTable(rows)
        card == TotalsCard(totals)
        column(k) == SumFunction([c \in DOMAIN table |-> table[c][k]])
    IN /\ card.gross = column("gross")
       /\ card.net = column("net")
       /\ \A m \in TenderColumns :
            card.paid[m] = SumFunction([c \in DOMAIN table |-> table[c].paid[m]])
       /\ totals.gross = tiles.gross /\ totals.count = tiles.count
       /\ totals.mix = mix /\ TenderTotal(mix) = tiles.gross + change
       /\ SumFunction(csv.paid) = csv.gross + change
       /\ \A k \in TenderColumns :
            /\ paid({k}) = SumFunction([s \in under(k) |-> SaleRow(s).total])
                              + (IF k = "cash" THEN change ELSE 0)
            /\ \A s \in under(k) : SaleRow(s).tender = k
       /\ eod.gross = tiles.gross /\ eod.net = tiles.net
       /\ eod.expectedQris = paid({"qris_dynamic", "qris_static"})
       /\ eod.settledQris = Taken({s \in under("qris_static") : s \in verified})
       /\ paid({"cash"}) = breakdown.cashIdr + change
       /\ eod.saleCount + eod.voidCount = Cardinality(Bucket(o, d))

(* The screens, the two reports and the close read the same sales by         *)
(* filters of their own, and name a tender in three ways; some add up what   *)
(* was sold, and some what was handed over, which for cash has the change    *)
(* in it.  Whatever sales, late ones and voids of a later day the server     *)
(* has: the card of an outlet's cashiers on a date adds up the table above   *)
(* it, and its totals are the dashboard's tiles for them; the slices of the  *)
(* tenders and the columns of the CSV exceed the gross by the change of the  *)
(* live cash sales and by nothing else; each tender's slice is the live rows *)
(* under its pill, which are the ones that name it, and for cash the change; *)
(* and a close that lands now has the same money, tax and sales in its file, *)
(* the cash without the change, settled what reconciliation has matched, and *)
(* every row of the bucket among its sales or voids.                         *)
ReportsAgree ==
    \A o \in {OutletOf[s] : s \in recorded},
       d \in Dates \intersect ({SoldOn[s] : s \in recorded} \union Range(voidedOn)) :
        ReportsAgreeOn(o, d)

(* packages/schemas/src/reports.ts calls net what the cashier banked for the  *)
(* day.  It is not: a void leaves the gross of its sale's date and is taken   *)
(* off again on its own.                                                      *)
NetIsBanked ==
    \A o \in Outlets, d \in Dates :
        CashierTotals(CashierRows(o, d)).net = Amount({s \in Rung(o, d) : voidedOn[s] # d})
                                  - Amount(VoidThisDay(o, d) \ Rung(o, d))
=============================================================================

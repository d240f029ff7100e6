---------------------------- MODULE Reconciliation ----------------------------
(***************************************************************************)
(* Reconciliation of static-QRIS tenders: a pass lists the unverified      *)
(* tenders of a business date, pages through the provider's settlement     *)
(* report of that date, pairs them and marks the matched tenders verified. *)
(* Passes are started by the owner (POST /run) and by the nightly job; the *)
(* owner may also verify a tender by hand.  Between listing and marking a  *)
(* pass awaits the network, so passes and manual matches interleave.       *)
(*                                                                         *)
(* Abstractions.  One merchant and outlet; a key stands for outlet, amount *)
(* and last four digits, which are only compared for equality; tenders,    *)
(* rows and minutes are numbers.  The report is appended to, and a row is  *)
(* on the report of the day it settled.  A row of a page that does not     *)
(* parse is skipped by itself and is no row here.  The API and the worker  *)
(* are given one repository, as workers/index.ts 92-95 asks for.           *)
(***************************************************************************)
EXTENDS Integers, Sequences, FiniteSets

CONSTANTS
    Tenders,      \* static-QRIS tenders, numbered as their ids sort
    Rows,         \* settlement rows, numbered as their ids sort
    TenderKey, RowKey,   \* what must be equal
    CreatedAt,    \* per tender, the minute of the sale
    SettledAt,    \* per row, the minute it settled
    Day,          \* minutes of a day
    Window,       \* greatest distance of a sale and its settlement
    Passes,       \* passes under way at once
    PageSize, MaxPages,
    MaxAttempts,  \* of the nightly job (RECONCILE_OUTLET_RETRY)
    MaxDeaths,    \* bound on deaths of the worker
    Dates         \* business dates

ASSUME ConstantsAssumption ==
    /\ Tenders \subseteq Nat /\ Rows \subseteq Nat /\ IsFiniteSet(Tenders)
    /\ CreatedAt \in [Tenders -> Nat] /\ SettledAt \in [Rows -> Nat]
    /\ Day \in Nat \ {0} /\ Window \in Nat /\ Dates \subseteq Nat
    /\ {PageSize, MaxPages, MaxAttempts} \subseteq Nat \ {0} /\ MaxDeaths \in Nat

VARIABLES
    arrived,   \* tenders the repository holds
    report,    \* per date, the settlement report, in the order it was posted
    today,     \* the merchant's date
    verified,  \* tenders marked verified
    pass,      \* per pass: how far it got
    counted,   \* sum of the reported matchedCount and of the manual flips
    job,       \* per date: the nightly job and its failed attempts
    deaths

reconcileVars == <<arrived, report, today, verified, pass, counted, job, deaths>>

NoPass == [phase |-> "idle"]
DateOf(minute) == minute \div Day
BusinessDate(t) == DateOf(CreatedAt[t])
DayOfTenders(d) == {t \in arrived : BusinessDate(t) = d}
Listed(d) == DayOfTenders(d) \ verified
InReport(d) == {r \in Rows : \E i \in 1..Len(report[d]) : report[d][i] = r}

-----------------------------------------------------------------------------
(* The matcher. *)

Abs(n) == IF n < 0 THEN -n ELSE n
Delta(t, r) == Abs(SettledAt[r] - CreatedAt[t])
Eligible(t, r) == RowKey[r] = TenderKey[t] /\ Delta(t, r) <= Window

Earlier(t, u) ==
    CreatedAt[t] < CreatedAt[u] \/ (CreatedAt[t] = CreatedAt[u] /\ t < u)
Nearer(t, r, q) ==
    Delta(t, r) < Delta(t, q) \/ (Delta(t, r) = Delta(t, q) /\ r < q)

(* reconcileStaticQrisTenders: in the order of their sales, each tender takes *)
(* the nearest eligible row that is still free.                               *)
NothingConsumed(T, R) ==  \* mutant: a row taken stays a candidate
    {m \in T \X R : Eligible(m[1], m[2]) /\
        \A q \in R : Eligible(m[1], q) => ~Nearer(m[1], q, m[2])}

Age(T, t) == Cardinality({u \in T : Earlier(u, t)})
Nth(T, n) == CHOOSE t \in T : Age(T, t) = n - 1
Free(M, t, R) == {r \in R : Eligible(t, r) /\ \A m \in M : m[2] # r}
Taken(M, t, R) ==
    {<<t, r>> : r \in {q \in Free(M, t, R) : \A o \in Free(M, t, R) : ~Nearer(t, o, q)}}
Matches(T, R) ==
    LET upTo[n \in 0..Cardinality(T)] ==
            IF n = 0 THEN {}
            ELSE upTo[n - 1] \union Taken(upTo[n - 1], Nth(T, n), R)
    IN  upTo[Cardinality(T)]

-----------------------------------------------------------------------------
(* Sales reach the server, payments settle, days go by. *)

TenderArrives(t) ==
    /\ t \notin arrived /\ BusinessDate(t) <= today
    /\ arrived' = arrived \union {t}
    /\ UNCHANGED <<report, today, verified, pass, counted, job, deaths>>

RowPosted(r) ==
    /\ DateOf(SettledAt[r]) \in Dates /\ DateOf(SettledAt[r]) <= today
    /\ r \notin InReport(DateOf(SettledAt[r]))
    /\ report' = [report EXCEPT ![DateOf(SettledAt[r])] = Append(@, r)]
    /\ UNCHANGED <<arrived, today, verified, pass, counted, job, deaths>>

NextDay ==
    /\ today + 1 \in Dates
    /\ today' = today + 1
    /\ UNCHANGED <<arrived, report, verified, pass, counted, job, deaths>>

-----------------------------------------------------------------------------
(* The nightly job.  Its id holds the date, so a second tick adds nothing,    *)
(* even when the job is long done.                                            *)

ScheduleTick ==
    /\ today - 1 \in Dates
    /\ job[today - 1].state = "absent"
    /\ job' = [job EXCEPT ![today - 1].state = "waiting"]
    /\ UNCHANGED <<arrived, report, today, verified, pass, counted, deaths>>

Listing(d, nightly) ==
    [phase |-> "fetching", date |-> d, nightly |-> nightly,
     tenders |-> Listed(d), rows |-> {}, due |-> InReport(d), page |-> 1]

StartJob(p, d) ==
    /\ pass[p] = NoPass /\ job[d].state = "waiting"
    /\ job' = [job EXCEPT ![d].state = "active"]
    /\ pass' = [pass EXCEPT ![p] = Listing(d, TRUE)]
    /\ UNCHANGED <<arrived, report, today, verified, counted, deaths>>

(* POST /run. *)
RunPass(p, d) ==
    /\ pass[p] = NoPass /\ d <= today
    /\ pass' = [pass EXCEPT ![p] = Listing(d, FALSE)]
    /\ UNCHANGED <<arrived, report, today, verified, counted, job, deaths>>

RetriedForEver(p, outcome) ==  \* mutant: a failed job is always retried
    LET d == pass[p].date IN
    job' = IF ~pass[p].nightly THEN job
           ELSE [job EXCEPT ![d] = [state |-> "waiting", failures |-> @.failures + 1]]

(* A pass that ends tells its job, if it is a job's. *)
JobEnds(p, outcome) ==
    LET d == pass[p].date IN
    job' = IF ~pass[p].nightly THEN job
           ELSE IF outcome = "completed" THEN [job EXCEPT ![d].state = "completed"]
           ELSE IF outcome = "stalled" THEN [job EXCEPT ![d].state = "waiting"]
           ELSE [job EXCEPT ![d] =
                    [state |-> IF @.failures + 1 < MaxAttempts THEN "waiting" ELSE "failed",
                     failures |-> @.failures + 1]]

(* fetchQrisSettlements: a page; a short one is the last, and so is the       *)
(* MaxPages-th.                                                               *)
Page(d, k) == {report[d][i] : i \in {j \in 1..Len(report[d]) :
                                         (k - 1) * PageSize < j /\ j <= k * PageSize}}

FullIsLast(page, k) == Cardinality(page) <= PageSize \/ k = MaxPages  \* mutant
LastPage(page, k) == Cardinality(page) < PageSize \/ k = MaxPages

FetchPage(p) ==
    /\ pass[p].phase = "fetching"
    /\ LET page == Page(pass[p].date, pass[p].page)
       IN  pass' = [pass EXCEPT
               ![p].rows = @ \union page, ![p].page = @ + 1,
               ![p].phase = IF LastPage(page, pass[p].page) THEN "fetched" ELSE "fetching"]
    /\ UNCHANGED <<arrived, report, today, verified, counted, job, deaths>>

(* A 2xx whose body is empty, does not parse or has no data counts for an    *)
(* empty page, the last: the pass goes on with the rows before it.  Only the *)
(* model tells such a pass from one that has read the report.                *)
FetchBroken(p) ==
    /\ pass[p].phase = "fetching"
    /\ pass' = [pass EXCEPT ![p].phase = "partial"]
    /\ UNCHANGED <<arrived, report, today, verified, counted, job, deaths>>

(* Any page that is refused, timed out or lost fails the pass: nothing was   *)
(* marked.                                                                   *)
FetchFails(p) ==
    /\ pass[p].phase = "fetching"
    /\ JobEnds(p, "failed")
    /\ pass' = [pass EXCEPT ![p] = NoPass]
    /\ UNCHANGED <<arrived, report, today, verified, counted, deaths>>

(* The worker dies; the broker finds the job stalled and hands it out again. *)
WorkerDies(p) ==
    /\ pass[p].phase # "idle" /\ pass[p].nightly /\ deaths < MaxDeaths
    /\ deaths' = deaths + 1
    /\ JobEnds(p, "stalled")
    /\ pass' = [pass EXCEPT ![p] = NoPass]
    /\ UNCHANGED <<arrived, report, today, verified, counted>>

(* markMatched passes over tenders verified since they were listed. *)
MarkedBlindly(matches) == matches  \* mutant: verified tenders are marked again
MarkMatched(matches) == {m \in matches : m[1] \notin verified}

MatchAndMark(p) ==
    /\ pass[p].phase \in {"fetched", "partial"}
    /\ LET d == pass[p].date
           flips == MarkMatched(Matches(pass[p].tenders, pass[p].rows))
       IN  /\ verified' = verified \union {m[1] : m \in flips}
           /\ counted' = counted + Cardinality(flips)
    /\ JobEnds(p, "completed")
    /\ pass' = [pass EXCEPT ![p] = NoPass]
    /\ UNCHANGED <<arrived, report, today, deaths>>

(* POST /match: the owner verifies a tender by hand; the row he names is kept *)
(* for the audit only.                                                        *)
ManualMatch(t) ==
    /\ t \in arrived \ verified
    /\ verified' = verified \union {t}
    /\ counted' = counted + 1
    /\ UNCHANGED <<arrived, report, today, pass, job, deaths>>

-----------------------------------------------------------------------------
ReconcileInit ==
    /\ arrived = {} /\ report = [d \in Dates |-> <<>>] /\ verified = {}
    /\ today \in Dates /\ \A d \in Dates : today <= d
    /\ pass = [p \in Passes |-> NoPass]
    /\ counted = 0 /\ deaths = 0
    /\ job = [d \in Dates |-> [state |-> "absent", failures |-> 0]]

ReconcileNext ==
    \/ \E t \in Tenders : TenderArrives(t) \/ ManualMatch(t)
    \/ \E r \in Rows : RowPosted(r)
    \/ NextDay \/ ScheduleTick
    \/ \E p \in Passes : \/ \E d \in Dates : StartJob(p, d) \/ RunPass(p, d)
                         \/ FetchPage(p) \/ FetchBroken(p) \/ FetchFails(p)
                         \/ WorkerDies(p) \/ MatchAndMark(p)

ReconcileSpec == ReconcileInit /\ [][ReconcileNext]_reconcileVars

-----------------------------------------------------------------------------
ReconcileTypeOK ==
    /\ arrived \subseteq Tenders /\ verified \subseteq arrived
    /\ report \in [Dates -> Seq(Rows)] /\ today \in Dates
    /\ pass \in [Passes -> {NoPass} \union
          [phase : {"fetching", "fetched", "partial"}, date : Dates, nightly : BOOLEAN,
           tenders : SUBSET Tenders, rows : SUBSET Rows, due : SUBSET Rows, page : Nat]]
    /\ counted \in Nat /\ deaths \in Nat
    /\ job \in [Dates -> [state : {"absent", "waiting", "active", "completed", "failed"},
                          failures : 0..MaxAttempts]]

(* The pairing is the one the comment promises: nobody is paired twice, only *)
(* eligible pairs, and a tender goes without a nearer row only because an    *)
(* earlier tender has it, so that reruns show the operator the same rows     *)
(* (matcher.ts 11-26).                                                       *)
ServesInOrder(M, T, R) ==
    /\ M \subseteq {m \in T \X R : Eligible(m[1], m[2])}
    /\ \A m, n \in M : m[1] = n[1] <=> m[2] = n[2]
    /\ \A t \in T, r \in R :
          Eligible(t, r) =>
             \/ \E m \in M : m[1] = t /\ ~Nearer(t, r, m[2])
             \/ \E m \in M : m[2] = r /\ Earlier(m[1], t)
MatcherServesInOrder ==
    \A d \in Dates : ServesInOrder(Matches(Listed(d), InReport(d)), Listed(d), InReport(d))

(* The counts the owner is shown add up: every tender that became verified   *)
(* was counted by exactly one pass or manual match, whichever of them raced  *)
(* (service.ts 75-90, memory-repository.ts 53-78).                           *)
EveryFlipCountedOnce == counted = Cardinality(verified)

(* A tender lost its eligible rows of R to earlier tenders of V, each row to *)
(* another one.                                                              *)
Beaten(t, R, V) ==
    LET open == {r \in R : Eligible(t, r)}
    IN \E taker \in [open -> V] :
          /\ \A r \in open : Eligible(taker[r], r) /\ Earlier(taker[r], t)
          /\ \A r, q \in open : taker[r] = taker[q] => r = q

(* After a pass no listed tender is left behind: one that is still           *)
(* unverified lost each eligible row that was on the report when the pass    *)
(* began to an earlier tender that is verified, no two rows to the same one, *)
(* however the report grew, or the owner matched by hand, while the pages    *)
(* came in (service.ts 75-83, midtrans.ts 245-285).  Unless the report was   *)
(* longer than the pass reads, or a broken body ended it early: that pass    *)
(* ends as any other, and its job is not retried.                            *)
NoneLeftBehind ==
    [][\A p \in Passes :
          (/\ MatchAndMark(p) /\ pass[p].phase = "fetched"
           /\ Cardinality(pass[p].due) <= PageSize * MaxPages) =>
              \A t \in pass[p].tenders \ verified' :
                  Beaten(t, pass[p].due, verified')]_reconcileVars

(* What a pass matches is "the QRIS-static settlement rows the provider      *)
(* posted on businessDate" (provider.ts 20-24), up to the rows it may read,  *)
(* for "errors propagate verbatim" (reconciliation/service.ts 21): of those  *)
(* posted before it began it has every one.                                  *)
MatchesTheReport ==
    \A p \in Passes :
        (/\ pass[p].phase \in {"fetched", "partial"}
         /\ Cardinality(pass[p].due) <= PageSize * MaxPages) => pass[p].due \subseteq pass[p].rows

(* The comment: a rerun of the same date is safe and converges on a fixed    *)
(* point, so one over the tenders and the rows of the pass just made finds   *)
(* nothing to verify (service.ts 17-19).                                     *)
RerunFlipsNothing ==
    [][\A p \in Passes :
          MatchAndMark(p) => Matches(pass[p].tenders \ verified', pass[p].rows) = {}]_reconcileVars
=============================================================================

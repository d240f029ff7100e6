----------------------------- MODULE ReceiptPrint -----------------------------
(***************************************************************************)
(* A sale's receipt on its four media, and the Bluetooth printer, which    *)
(* the receipt and the reprint screens share: print jobs are promises, and *)
(* one that is under way survives the screen it was started on.            *)
(*                                                                         *)
(* Abstractions.  A rendition is the set of its rows; wording and layout   *)
(* are left out.  A till takes one tender.  A receipt takes Chunks writes  *)
(* of 180 bytes.  Discovery of the service and of its characteristic is    *)
(* one step with connect().  The browser has Web Bluetooth: without it no  *)
(* screen offers the printer.  The receipt screen, just after the sale, and *)
(* the reprint screen, off the history, differ in the mark of a copy.  The  *)
(* printer takes writes without a response, the kind writeChunks prefers:   *)
(* a write that resolved is under way and may still be lost.                *)
(***************************************************************************)
EXTENDS Integers, Sequences, FiniteSets

CONSTANTS
    Slips,     \* [subtotal, discount, tax, total, tender, voided, salinan];
               \* tax -1: none; salinan: on the reprint screen
    Chunks,    \* writes of a receipt
    MaxJobs, MaxVisits  \* bounds: taps on print, screens opened

ASSUME PrintAssumption == {Chunks, MaxJobs, MaxVisits} \subseteq Nat \ {0}
ASSUME SlipsAssumption == \A s \in Slips : s.discount \in Nat

VARIABLES
    slip,     \* the sale
    visit,    \* the screen now open, counted
    shown,    \* its PrintState: "idle", "printing", "done" or "fallback"
    jobs,     \* [visit, step, sent, left], in the order of the taps
    printer,  \* pairedDevice: "none", "paired", "connected"
    failed,   \* sessionFailed: PDF is the primary action
    air,      \* the job of each chunk the radio took and has not delivered
    paper,    \* the job of each chunk printed, in order
    lost      \* jobs a chunk of which never reached the printer (history)

radio == <<air, paper, lost>>
printVars == <<slip, visit, shown, jobs, printer, failed, radio>>

-----------------------------------------------------------------------------
(* What a medium shows of the sale: rows with amounts, and marks. *)

Sole(present, row) == IF present THEN {row} ELSE {}
Change(s) == IF s.tender.amount > s.total THEN s.tender.amount - s.total ELSE 0

Preview(s) ==
    {<<"subtotal", s.subtotal>>, <<"total", s.total>>, <<"tendered", s.tender.amount>>,
     <<"change", Change(s)>>, <<"code", 0>>}
    \union Sole(s.discount > 0, <<"discount", s.discount>>)
    \union Sole(s.tax > 0, <<"tax", s.tax>>)
    \union Sole(s.salinan, <<"salinan", 0>>)
    \union Sole(s.voided, <<"voided", 0>>)
    \union Sole(s.voided /\ s.tender.method # "cash", <<"refund", 0>>)

Pdf(s) == Preview(s) \ {<<"code", 0>>}

TaxUnasked(s) ==  \* mutant: the message has its tax row whenever the field is there
    {<<"subtotal", s.subtotal>>, <<"total", s.total>>, <<"tendered", s.tender.amount>>,
     <<"change", Change(s)>>}
    \union Sole(s.discount > 0, <<"discount", s.discount>>)
    \union Sole(s.tax >= 0, <<"tax", s.tax>>)

WhatsApp(s) ==
    {<<"subtotal", s.subtotal>>, <<"total", s.total>>, <<"tendered", s.tender.amount>>,
     <<"change", Change(s)>>}
    \union Sole(s.discount > 0, <<"discount", s.discount>>)
    \union Sole(s.tax > 0, <<"tax", s.tax>>)

(* A discount of nothing has its row, and one of the whole sale has none. *)
EscPos(s) ==
    {<<"subtotal", s.subtotal>>, <<"total", s.total>>, <<"tendered", s.tender.amount>>,
     <<"change", Change(s)>>}
    \union Sole(s.discount # s.subtotal, <<"discount", s.discount>>)
    \union Sole(s.tax > 0, <<"tax", s.tax>>)
    \union Sole(s.salinan, <<"salinan", 0>>)

Rendition(medium, s) ==
    CASE medium = "print" -> EscPos(s) [] medium = "pdf" -> Pdf(s) [] OTHER -> WhatsApp(s)

(* What the two screens offer.  Before a print has failed the printer is the *)
(* first choice and the PDF the second, afterwards it is the other way       *)
(* around; the message to the buyer is the receipt screen's alone.           *)
ReceiptOffers == {"print", "pdf", "whatsapp"}
ReprintOffers == {"print", "pdf"}
Offers(s) == IF s.salinan THEN ReprintOffers ELSE ReceiptOffers

-----------------------------------------------------------------------------
UnderWayNow(n) == jobs[n].step \notin {"done", "failed", "dead"}
Step(n, step) == jobs' = [jobs EXCEPT ![n].step = step]

AlwaysTappable == TRUE  \* mutant: the button is not disabled while printing
Tappable == shown # "printing"

TapPrint ==
    /\ Tappable /\ Len(jobs) < MaxJobs
    /\ shown' = "printing"
    /\ jobs' = Append(jobs, [visit |-> visit, step |-> "device", sent |-> 0, left |-> FALSE])
    /\ UNCHANGED <<slip, visit, printer, failed, radio>>

(* ensureDevice: the printer that is connected, or the browser's chooser. *)
EnsureDevice(n) ==
    /\ jobs[n].step = "device" /\ Step(n, "connect")
    /\ printer' = IF printer = "connected" THEN printer ELSE "paired"
    /\ UNCHANGED <<slip, visit, shown, failed, radio>>

Connect(n) ==
    /\ jobs[n].step = "connect" /\ Step(n, "write")
    /\ printer' = "connected"
    /\ UNCHANGED <<slip, visit, shown, failed, radio>>

(* writeValueWithoutResponse resolves when the radio has the chunk, whatever *)
(* becomes of it.                                                            *)
WriteChunk(n) ==
    /\ jobs[n].step = "write" /\ jobs[n].sent < Chunks
    /\ jobs' = [jobs EXCEPT ![n].sent = @ + 1]
    /\ air' = Append(air, n)
    /\ UNCHANGED <<slip, visit, shown, printer, failed, paper, lost>>

Arrives ==
    /\ air # <<>> /\ paper' = Append(paper, Head(air)) /\ air' = Tail(air)
    /\ UNCHANGED <<slip, visit, shown, jobs, printer, failed, lost>>

AirLost ==
    /\ air' = <<>> /\ lost' = lost \union {air[i] : i \in DOMAIN air}
    /\ UNCHANGED paper

Heard(n, state) == IF jobs[n].visit = visit THEN state ELSE shown

PrintDone(n) ==
    /\ jobs[n].step = "write" /\ jobs[n].sent = Chunks
    /\ Step(n, "done") /\ shown' = Heard(n, "done")
    /\ UNCHANGED <<slip, visit, printer, failed, radio>>

(* The chooser is cancelled, the printer is not reached or a write fails. *)
PrintFails(n) ==
    /\ UnderWayNow(n) /\ jobs[n].sent < Chunks /\ Step(n, "failed")
    /\ failed' = TRUE /\ shown' = Heard(n, "fallback")
    /\ UNCHANGED <<slip, visit, printer, radio>>

(* Out of range or switched off: no write goes through any more, and those  *)
(* that resolved but have not arrived do not either.                        *)
PrinterDrops ==
    /\ printer = "connected" /\ printer' = "paired" /\ AirLost
    /\ jobs' = [n \in DOMAIN jobs |-> IF jobs[n].step = "write" /\ jobs[n].sent < Chunks
                                      THEN [jobs[n] EXCEPT !.step = "cut"] ELSE jobs[n]]
    /\ UNCHANGED <<slip, visit, shown, failed>>

LeaveReceipt ==
    /\ visit < MaxVisits /\ visit' = visit + 1 /\ shown' = "idle"
    /\ jobs' = [n \in DOMAIN jobs |-> [jobs[n] EXCEPT !.left = @ \/ UnderWayNow(n)]]
    /\ UNCHANGED <<slip, printer, failed, radio>>

(* The page's connection closes, before or after it has sent what it took. *)
ReloadReceipt ==
    /\ visit < MaxVisits /\ visit' = visit + 1 /\ shown' = "idle"
    /\ printer' = "none" /\ failed' = FALSE
    /\ jobs' = [n \in DOMAIN jobs |-> IF UnderWayNow(n) THEN [jobs[n] EXCEPT !.step = "dead"]
                                      ELSE jobs[n]]
    /\ AirLost \/ UNCHANGED radio
    /\ UNCHANGED slip

PrintInit ==
    /\ slip \in Slips /\ visit = 1 /\ shown = "idle" /\ jobs = <<>>
    /\ printer = "none" /\ failed = FALSE
    /\ air = <<>> /\ paper = <<>> /\ lost = {}

PrintNext ==
    \/ TapPrint \/ Arrives \/ PrinterDrops \/ LeaveReceipt \/ ReloadReceipt
    \/ \E n \in DOMAIN jobs :
         EnsureDevice(n) \/ Connect(n) \/ WriteChunk(n) \/ PrintDone(n) \/ PrintFails(n)

-----------------------------------------------------------------------------
(* A job the screen reports as printed has its whole receipt in one piece,   *)
(* printed or on its way, whatever failed or was cut off before it; unless   *)
(* the printer dropped what had not arrived, which the till does not learn,  *)
(* so that a slip may be short that the screen calls printed; and unless     *)
(* some job's screen was left while it printed, whose writes go on beside    *)
(* those of the next screen's job.                                           *)
Roll == paper \o air
PrintsWhole ==
    (\A n \in DOMAIN jobs : ~jobs[n].left) =>
        \A n \in DOMAIN jobs \ lost : jobs[n].step = "done" =>
            \E at \in DOMAIN Roll : /\ at + Chunks - 1 <= Len(Roll)
                                    /\ \A i \in at..(at + Chunks - 1) : Roll[i] = n

(* Whatever the screen offers shows the amounts that it shows itself, and    *)
(* the mark of a copy if it shows that: the slip, the PDF and the message to *)
(* the buyer compute their rows apart.  The zero discount is the slip's      *)
(* alone, and a sale given away has its discount everywhere else.            *)
OnPaper(rows) == {r \in rows : r[1] \notin {"voided", "refund", "code"}} \ {<<"discount", 0>>}
PapersAgree ==
    slip.discount # slip.subtotal =>
        \A medium \in Offers(slip) : OnPaper(Rendition(medium, slip)) = OnPaper(Preview(slip))

(* A slip of a voided sale says so. *)
SlipSaysVoided == slip.voided => <<"voided", 0>> \in EscPos(slip)
=============================================================================

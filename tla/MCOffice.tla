------------------------------ MODULE MCOffice ------------------------------
(* The back office, a part of it in each behaviour: the screens that load,   *)
(* the walk of a bucket while sales of it arrive, the reports over the sales *)
(* alone, and two tabs over one localStorage, which share no state with the  *)
(* rest.                                                                     *)
(*                                                                           *)
(* Of outlet o1 are, on the first day, a cash sale with change, a static     *)
(* QRIS of the same stamp, a paid QRIS order stamped before them, a probe    *)
(* and a cash sale behind, and on the second a cash sale; of o2 a static     *)
(* QRIS.                                                                     *)
EXTENDS OfficeScreens, OfficeStore

VARIABLE part

MCStampedAt == <<2, 2, 1, 3, 4, 2, 3>>
MCOutletOf == <<"o1", "o1", "o1", "o1", "o1", "o2", "o1">>
MCSoldOn == <<1, 1, 1, 1, 2, 1, 1>>
MCClerk == <<"siti", "budi", "budi", "probe", "siti", "siti", "budi">>
MCMethod == <<"cash", "qris_static", "qris_dynamic", "cash", "cash", "qris_static", "cash">>
MCTotal == <<4, 3, 2, 1, 5, 6, 2>>
MCPaid == <<6, 3, 2, 1, 8, 6, 2>>
MCTax == <<1, 0, 1, 0, 2, 0, 0>>

Row(sku, value) == [sku |-> sku, value |-> value]
MCFiles ==
    [f \in {"whole", "faulty"} |->
        IF f = "whole" THEN <<Row("a", 2), Row("b", 1)>>
        ELSE <<Row("b", 1), Row("b", 2), Row("a", 0)>>]

officeVars == <<screensVars, storeVars, part>>

(* The sales of a part, and how many of them may be voided there. *)
Rings ==
    CASE part = "screens" -> {1, 4, 6} [] part = "walk" -> {1, 2, 3, 4, 5, 7}
      [] part = "reports" -> 1..6 [] OTHER -> {}
Voidable == IF part = "reports" THEN 3 ELSE 0

InPart ==
    /\ recorded' \subseteq Rings
    /\ Cardinality({s \in Sales : voidedOn'[s] # NoDate}) <= Voidable

(* The walks are of outlet o1 from the first day on, and none begins over an *)
(* answer that is shown.                                                      *)
OneOutlet ==
    /\ verified' = {} /\ screen' \in {"out", "dashboard", "sales"} /\ scope' = "today"
    /\ screen' = "dashboard" => filters' = Defaults("dashboard", filters'.to)
    /\ screen' = "sales" => filters'.from = 1
    /\ screen' = "sales" /\ load' # Nothing =>
         /\ loaded' = Nothing
         /\ load'.asked.outlets = {"o1"} \/ \A b \in DOMAIN load'.got : load'.got[b].pages = 0

(* What happens to the sales, with no screen open. *)
WorldNext ==
    \/ \E s \in Sales : SaleArrives(s) \/ SaleVoided(s) \/ TenderVerified(s)
    \/ NextDay

OfficeInit == ScreensInit /\ StoreInit /\ part \in {"screens", "walk", "reports", "store"}

OfficeNext ==
    /\ UNCHANGED part
    /\ \/ part = "screens" /\ ScreensNext /\ InPart /\ UNCHANGED storeVars
       \/ part = "walk" /\ ScreensNext /\ InPart /\ OneOutlet /\ UNCHANGED storeVars
       \/ part = "reports" /\ WorldNext /\ InPart /\ UNCHANGED <<reader, storeVars>>
       \/ part = "store" /\ StoreNext /\ UNCHANGED screensVars

OfficeSpec == OfficeInit /\ [][OfficeNext]_officeVars
=============================================================================

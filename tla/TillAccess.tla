------------------------------ MODULE TillAccess ------------------------------
(***************************************************************************)
(* A till that is enrolled, locked and unlocked: the lock's watcher runs   *)
(* only while the till shows itself enrolled, the locked screens take no   *)
(* input, and a reload drops the lock.                                     *)
(***************************************************************************)
EXTENDS Enrolment, IdleLock

CONSTANT MaxDeaths  \* bound on deaths of the tab

VARIABLE deaths

vars == <<api, till, idleLock, deaths>>

Init == EnrolmentInit /\ IdleLockInit /\ deaths = 0

Watching == shown = "enrolled"

(* The gate around the routes mounts and unmounts the watcher. *)
WatcherFollows ==
    \/ Watching' = Watching /\ UNCHANGED idleLock
    \/ ~Watching /\ Watching' /\ WatcherStarts /\ UNCHANGED <<locked, attempts, cool, wrong>>
    \/ Watching /\ ~Watching' /\ WatcherStops /\ UNCHANGED <<locked, attempts, cool, wrong>>

(* What the clerk does on the screens is activity, and stops at the lock. *)
Touched == IF Watching THEN Activity /\ UNCHANGED <<locked, attempts, cool, wrong>>
                       ELSE UNCHANGED idleLock

ClerkStep ==
    /\ ~locked /\ Touched /\ UNCHANGED deaths
    /\ \/ \E c \in Codes : Submit(c)
       \/ ResetDevice \/ RefreshByHand \/ UNCHANGED <<api, till>>

LockStep ==
    /\ Lock \/ Unlock(Watching) \/ WrongPin \/ ClearCooldown \/ Tick(Watching)
    /\ UNCHANGED <<api, till, deaths>>

TabStep == TabDies /\ Reloaded /\ deaths < MaxDeaths /\ deaths' = deaths + 1

Next ==
    \/ OfficeStep /\ UNCHANGED <<idleLock, deaths>>
    \/ TillStep /\ WatcherFollows /\ UNCHANGED deaths
    \/ ClerkStep \/ LockStep \/ TabStep

Spec == Init /\ [][Next]_vars

-----------------------------------------------------------------------------
(* Properties. *)

(* Single use, up to the hash: every device of a code comes from redemptions *)
(* that were under way together, so that a code redeemed one at a time makes *)
(* one device; and the till's secret names a device the API made, for the    *)
(* outlet its code was issued for, and knows unless it restarted since.      *)
DevicesAccountedFor ==
    /\ \A c \in Codes : Cardinality({d \in devices : d.code = c}) <= peak[c]
    /\ \A d \in devices : d.code \in DOMAIN codes /\ d.outlet = codes[d.code].outlet
    /\ secret # None => secret \in devices \/ restarts > 0

(* A till nobody touches is locked in time, whatever was enrolled, reset,    *)
(* unlocked or reloaded before.                                              *)
LockedWhenIdle == Watching /\ idle > IdleTicks => locked

(* However wrong PINs, cool-downs and their countdowns follow each other,    *)
(* of one wrong PIN more than allowed two are a cool-down apart.            *)
PacedGuesses ==
    Len(wrong) > MaxAttempts => \E i \in 2..Len(wrong) : wrong[i] >= CoolTicks
=============================================================================

------------------------------- MODULE IdleLock -------------------------------
(***************************************************************************)
(* The lock of an unattended till: the watcher that locks the screens when *)
(* nobody touches them, and the PIN keypad that unlocks them, with its     *)
(* cool-down after too many wrong PINs.                                    *)
(*                                                                         *)
(* Time passes in ticks; a due timer fires before the next one.  A PIN is  *)
(* right or wrong.                                                         *)
(***************************************************************************)
EXTENDS Integers, Sequences

CONSTANTS
    IdleTicks,   \* DEFAULT_IDLE_TIMEOUT_MS
    CoolTicks,   \* PIN_COOLDOWN_MS
    MaxAttempts  \* MAX_PIN_ATTEMPTS

ASSUME IdleLockAssumption ==
    /\ IdleTicks \in Nat \ {0} /\ CoolTicks \in Nat \ {0} /\ MaxAttempts \in Nat \ {0}

Off == -1

VARIABLES
    locked,
    attempts,  \* attempts remaining
    cool,      \* ticks left of the cool-down, or Off
    timer,     \* ticks left until the screens lock, or Off
    idle,      \* ticks since the till was touched, while it is watched
    wrong      \* ticks since the last wrong PIN, and between those before it

idleLock == <<locked, attempts, cool, timer, idle, wrong>>

IdleLockInit ==
    /\ locked = FALSE /\ attempts = MaxAttempts /\ cool = Off /\ timer = Off
    /\ idle = 0 /\ wrong = <<>>

Counted(n) == IF n <= 0 THEN n ELSE n - 1
Aged(n, most) == IF n < most THEN n + 1 ELSE n

(* The watcher is mounted: it arms the timer.  Unmounted, it clears it. *)
WatcherStarts == timer' = (IF locked THEN Off ELSE IdleTicks) /\ idle' = 0
WatcherStops == timer' = Off /\ idle' = 0

(* A touch, a key, or a tab that becomes visible again. *)
Activity == timer' = IdleTicks /\ idle' = 0

Lock ==
    /\ timer = 0
    /\ locked' = TRUE /\ timer' = Off
    /\ UNCHANGED <<attempts, cool, idle, wrong>>

LeftOff == timer' = timer  \* mutant: the watcher does not arm again
Rearmed == timer' = IdleTicks

(* The overlay's keypad, dead while the cool-down runs; attemptUnlock asks   *)
(* the same again.                                                           *)
PinPad == locked /\ cool <= 0

(* attemptUnlock on a right PIN; a watcher hears that the lock is gone.      *)
Unlock(watched) ==
    /\ PinPad
    /\ locked' = FALSE /\ attempts' = MaxAttempts /\ cool' = Off
    /\ IF watched THEN Rearmed ELSE UNCHANGED timer
    /\ idle' = 0 /\ wrong' = <<>>

Refreshed == IF cool = 0 THEN MaxAttempts ELSE attempts
Remembered(gaps) ==
    IF Len(gaps) > MaxAttempts + 1 THEN SubSeq(gaps, 1, MaxAttempts + 1) ELSE gaps

WrongPin ==
    /\ PinPad
    /\ attempts' = Refreshed - 1
    /\ cool' = IF Refreshed - 1 <= 0 THEN CoolTicks ELSE Off
    /\ wrong' = Remembered(<<0>> \o wrong)
    /\ UNCHANGED <<locked, timer, idle>>

AtAnyTime == cool # Off  \* mutant: the countdown is not waited for
Elapsed == cool = 0

(* The keypad's countdown asks the store to clear a cool-down that is over.  *)
ClearCooldown ==
    /\ locked /\ Elapsed
    /\ attempts' = MaxAttempts /\ cool' = Off
    /\ UNCHANGED <<locked, timer, idle, wrong>>

Tick(watched) ==
    /\ timer # 0
    /\ timer' = Counted(timer) /\ cool' = Counted(cool)
    /\ idle' = IF watched /\ ~locked THEN Aged(idle, IdleTicks + 1) ELSE idle
    /\ wrong' = [i \in DOMAIN wrong |-> IF i = 1 THEN Aged(wrong[i], CoolTicks) ELSE wrong[i]]
    /\ UNCHANGED <<locked, attempts>>

Reloaded ==
    /\ locked' = FALSE /\ attempts' = MaxAttempts /\ cool' = Off /\ timer' = Off
    /\ idle' = 0 /\ wrong' = <<>>
=============================================================================

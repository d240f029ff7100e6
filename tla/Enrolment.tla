------------------------------- MODULE Enrolment -------------------------------
(***************************************************************************)
(* The enrolment of a till: the codes the back office issues, their        *)
(* redemption by the API, which awaits the hash of the new secret between  *)
(* its checks and its writes, and the till that stores the secret, shows   *)
(* itself enrolled, and starts its sync runner when the tab boots.         *)
(*                                                                         *)
(* Abstractions.  The API's outlets are all known to it and never removed, *)
(* a fresh code never collides with an old one, and the rate limit is left *)
(* out.  A device is its id, outlet and code.  Other tablets are requests  *)
(* that redeem a code.  Of what a sync cycle does only the outlet it pulls *)
(* for is kept.                                                            *)
(***************************************************************************)
EXTENDS Integers, FiniteSets

CONSTANTS
    Codes, CodeOutlets,
    MaxDevices,  \* bound on devices
    MaxRestarts  \* bound on restarts of the API, whose repository is in memory

ASSUME EnrolmentAssumption == MaxDevices \in Nat /\ MaxRestarts \in Nat

VARIABLES
    codes,     \* the codes issued: outlet, whether they expired, whether they were used
    devices,
    hashing,   \* redemptions that passed the checks and await their hash
    peak,      \* per code: the most redemptions that were under way at once
    minted,    \* how many devices were made, restarts included
    restarts,
    post,      \* the till's own redemption
    secret,    \* device_secret in Dexie
    shown,     \* the snapshot the screens read
    hydration, \* what boot read of the secret, before it is shown
    provider,  \* the sync provider: loaded after the first paint
    running,   \* its runner's interval
    pulled     \* the outlet the last successful cycle pulled for

api == <<codes, devices, hashing, peak, minted, restarts>>
till == <<post, secret, shown, hydration, provider, running, pulled>>

None == [none |-> TRUE]

EnrolmentInit ==
    /\ codes = [c \in {} |-> None] /\ devices = {} /\ hashing = {}
    /\ peak = [c \in Codes |-> 0] /\ minted = 0 /\ restarts = 0
    /\ post = None /\ secret = None /\ shown = "loading" /\ hydration = None
    /\ provider = "unmounted" /\ running = FALSE /\ pulled = None

-----------------------------------------------------------------------------
(* The API. *)

IssueCode(c, o) ==
    /\ c \notin DOMAIN codes
    /\ codes' = [d \in DOMAIN codes \union {c} |->
                    IF d = c THEN [outlet |-> o, expired |-> FALSE, used |-> FALSE]
                    ELSE codes[d]]
    /\ UNCHANGED <<devices, hashing, peak, minted, restarts, till>>

CodeExpires(c) ==
    /\ c \in DOMAIN codes /\ ~codes[c].expired
    /\ codes' = [codes EXCEPT ![c].expired = TRUE]
    /\ UNCHANGED <<devices, hashing, peak, minted, restarts, till>>

Unexpired(c) == c \in DOMAIN codes /\ ~codes[c].expired  \* mutant: used or not
Redeemable(c) == c \in DOMAIN codes /\ ~codes[c].expired /\ ~codes[c].used

UnderWay(c) == {r \in hashing : r.code = c}
Redemption(c, by, no) == [code |-> c, outlet |-> codes[c].outlet, by |-> by, no |-> no]

(* The checks of enrolDevice, up to the hash of the new secret. *)
Begins(c, by) ==
    /\ Redeemable(c) /\ minted < MaxDevices
    /\ hashing' = hashing \union {Redemption(c, by, minted + 1)}
    /\ minted' = minted + 1
    /\ peak' = [peak EXCEPT ![c] = IF Cardinality(UnderWay(c)) < @ THEN @
                                   ELSE Cardinality(UnderWay(c)) + 1]

OtherRedeems(c) ==
    /\ Begins(c, "other")
    /\ UNCHANGED <<codes, devices, restarts, till>>

Device(r) == [id |-> r.no, outlet |-> r.outlet, code |-> r.code]

(* The hash is there: the device is made and the code marked used, without   *)
(* another look at it.                                                       *)
Redeemed(r) ==
    /\ devices' = devices \union {Device(r)}
    /\ codes' = IF r.code \in DOMAIN codes THEN [codes EXCEPT ![r.code].used = TRUE]
                ELSE codes
    /\ hashing' = hashing \ {r}
    /\ UNCHANGED <<peak, minted, restarts>>

OtherRedeemed(r) ==
    /\ r \in hashing /\ ~(r.by = "till" /\ post # None /\ post.no = r.no)
    /\ Redeemed(r) /\ UNCHANGED till

(* Codes and devices are in memory only. *)
ApiRestarts ==
    /\ restarts < MaxRestarts /\ restarts' = restarts + 1
    /\ codes' = [c \in {} |-> None] /\ devices' = {} /\ hashing' = {}
    /\ peak' = [c \in Codes |-> 0]
    /\ post' = IF post # None /\ post.stage = "hashing" THEN None ELSE post
    /\ UNCHANGED <<minted, secret, shown, hydration, provider, running, pulled>>

-----------------------------------------------------------------------------
(* The till enrols. *)

Submit(c) ==
    /\ shown = "unenrolled" /\ post = None
    /\ post' = [stage |-> "sent", code |-> c, no |-> 0]
    /\ UNCHANGED <<api, secret, shown, hydration, provider, running, pulled>>

PostChecked ==
    /\ post # None /\ post.stage = "sent"
    /\ Begins(post.code, "till")
    /\ post' = [post EXCEPT !.stage = "hashing", !.no = minted + 1]
    /\ UNCHANGED <<codes, devices, restarts, secret, shown, hydration, provider,
                   running, pulled>>

PostRedeemed(r) ==
    /\ r \in hashing /\ r.by = "till" /\ post # None /\ post.no = r.no
    /\ Redeemed(r)
    /\ post' = [stage |-> "answered", no |-> r.no, device |-> Device(r)]
    /\ UNCHANGED <<secret, shown, hydration, provider, running, pulled>>

(* Turned down, or the request or its answer is lost: the clerk tries again. *)
PostFails ==
    /\ post # None /\ post.stage \in {"sent", "hashing", "answered"}
    /\ post' = None
    /\ UNCHANGED <<api, secret, shown, hydration, provider, running, pulled>>

StoreSecret ==
    /\ post # None /\ post.stage = "answered"
    /\ secret' = post.device
    /\ post' = [stage |-> "stored", no |-> post.no]
    /\ UNCHANGED <<api, shown, hydration, provider, running, pulled>>

PublishEnrolled ==
    /\ post # None /\ post.stage = "stored"
    /\ shown' = "enrolled" /\ post' = None
    /\ UNCHANGED <<api, secret, hydration, provider, running, pulled>>

(* Reset by the manager: the secret goes first; nothing else in Dexie does,  *)
(* and the runner is left as it is.                                          *)
ResetDevice ==
    /\ shown = "enrolled" /\ secret # None
    /\ secret' = None
    /\ UNCHANGED <<api, post, shown, hydration, provider, running, pulled>>

PublishReset ==
    /\ shown = "enrolled" /\ secret = None
    /\ shown' = "unenrolled"
    /\ UNCHANGED <<api, post, secret, hydration, provider, running, pulled>>

-----------------------------------------------------------------------------
(* The tab boots, and dies. *)

Hydrate ==
    /\ shown = "loading" /\ hydration = None
    /\ hydration' = [found |-> secret # None]
    /\ UNCHANGED <<api, post, secret, shown, provider, running, pulled>>

PublishHydration ==
    /\ hydration # None
    /\ shown' = IF hydration.found THEN "enrolled" ELSE "unenrolled"
    /\ hydration' = None
    /\ UNCHANGED <<api, post, secret, provider, running, pulled>>

(* The database does not open or the secret cannot be read: the till shows   *)
(* itself not enrolled, whatever its secret, and may be enrolled again.      *)
HydrationFails ==
    /\ shown = "loading" /\ hydration = None
    /\ shown' = "unenrolled"
    /\ UNCHANGED <<api, post, secret, hydration, provider, running, pulled>>

StartsNow == secret # None

(* The provider mounts once, and starts the runner if the till is enrolled.  *)
ProviderMounts ==
    /\ provider = "unmounted"
    /\ provider' = "mounted" /\ running' = StartsNow
    /\ UNCHANGED <<api, post, secret, shown, hydration, pulled>>

(* A cycle that gets through: the runner's, or one asked for by hand. *)
CyclePulls ==
    /\ secret # None
    /\ pulled' = [outlet |-> secret.outlet]
    /\ UNCHANGED <<api, post, secret, shown, hydration, provider, running>>
RunnerCycle == running /\ CyclePulls
RefreshByHand == provider = "mounted" /\ CyclePulls

TabDies ==
    /\ shown # "loading" \/ provider = "mounted"
    /\ post' = None /\ shown' = "loading" /\ hydration' = None
    /\ provider' = "unmounted" /\ running' = FALSE
    /\ UNCHANGED <<api, secret, pulled>>

OfficeStep ==
    \/ \E c \in Codes, o \in CodeOutlets : IssueCode(c, o)
    \/ \E c \in Codes : CodeExpires(c) \/ OtherRedeems(c)
    \/ \E r \in hashing : OtherRedeemed(r)
    \/ ApiRestarts

TillStep ==
    \/ PostChecked \/ PostFails \/ StoreSecret \/ PublishEnrolled \/ PublishReset
    \/ \E r \in hashing : PostRedeemed(r)
    \/ Hydrate \/ PublishHydration \/ HydrationFails \/ ProviderMounts \/ RunnerCycle
=============================================================================

------------------------------ MODULE Presence ------------------------------
(***************************************************************************)
(* The presence state machine of src/blesentry/presence.py.                *)
(*                                                                         *)
(* A PresenceTracker is driven once per scan window with the devices heard *)
(* in it and returns the ABSENT/PRESENT transitions the window produced.   *)
(* It keeps one record per device it has heard recently, debounces both    *)
(* edges, merges quick returns into one visit (the cooldown) and forgets   *)
(* devices that stayed away long enough (pruning).                         *)
(*                                                                         *)
(* Signal strengths are abstracted to what the threshold tells apart.      *)
(***************************************************************************)
EXTENDS Integers

CONSTANTS
    Devices,        \* the device ids the resolver may hand out
    Appear,         \* appear_windows
    Disappear,      \* disappear_windows
    Cooldown,       \* cooldown_windows
    PruneAfter,     \* prune_after_windows (the constructor does not check it)
    HitCap          \* bound of this model: hits saturates here (see Saturate)

\* The two ValueErrors of the constructor.
ASSUME PresenceAssumption ==
    /\ Appear \in Nat \ {0}
    /\ Disappear \in Nat \ {0}
    /\ Cooldown \in Nat
    /\ PruneAfter \in Int
    /\ HitCap \in Nat /\ HitCap >= Appear

VARIABLES
    devices,        \* _devices: a record for every tracked device
    heard,          \* the argument of the latest update()
    transitions     \* its result: the transition of each device, or NoTransition

vars == <<devices, heard, transitions>>

ABSENT  == "ABSENT"
PRESENT == "PRESENT"
NoTransition == "none"
Transitions == {ABSENT, PRESENT, NoTransition}

\* A reading of a device in a window: below the threshold, or at or above it.
Signals == {"unheard", "weak", "strong"}

DeviceState ==
    [state: {ABSENT, PRESENT}, hits: 0..HitCap, misses: Nat,
     cooldown_remaining: 0..Cooldown, present_emitted: BOOLEAN]

-----------------------------------------------------------------------------
\* What update() does to one device.

NewDevice == [state |-> ABSENT, hits |-> 0, misses |-> 0,
              cooldown_remaining |-> 0, present_emitted |-> FALSE]

\* hits is read only while ABSENT, where it stays below appear_windows: the
\* consecutive hits of a PRESENT device are counted and never looked at, so
\* letting them stop at HitCap >= appear_windows changes no decision.
Saturate(n) == IF n > HitCap THEN HitCap ELSE n

CoolDown(n) == IF n > 0 THEN n - 1 ELSE n

\* Mutant: a device arrives only when its cooldown is over, which only the
\* windows without it count down.
HitWaitsForCooldown(s) ==
    LET arrives == s.state = ABSENT /\ s.hits + 1 >= Appear /\ s.cooldown_remaining = 0
    IN  [s EXCEPT !.state = IF arrives THEN PRESENT ELSE @,
                  !.hits = IF arrives THEN 0 ELSE Saturate(@ + 1),
                  !.misses = 0,
                  !.present_emitted = @ \/ arrives]

\* A window with the device at or above the threshold, then _maybe_present.
Hit(s) ==
    LET hits     == Saturate(s.hits + 1)
        cooldown == CoolDown(s.cooldown_remaining)
        arrives  == s.state = ABSENT /\ hits >= Appear
    IN  [state |-> IF arrives THEN PRESENT ELSE s.state,
         hits |-> IF arrives THEN 0 ELSE hits,
         misses |-> 0,
         cooldown_remaining |-> cooldown,
         present_emitted |-> IF arrives THEN cooldown = 0 ELSE s.present_emitted]

\* Mutant of Miss: misses are counted up to the departure only.
MissUntilAbsent(s) ==
    LET leaves == s.state = PRESENT /\ s.misses + 1 >= Disappear
    IN  [s EXCEPT !.state = IF leaves THEN ABSENT ELSE @, !.hits = 0,
                  !.misses = IF s.state = PRESENT THEN @ + 1 ELSE @,
                  !.cooldown_remaining = IF leaves THEN Cooldown ELSE CoolDown(@),
                  !.present_emitted = IF leaves THEN FALSE ELSE @]

\* A window without it, then _maybe_absent.
Miss(s) ==
    LET misses == s.misses + 1
        leaves == s.state = PRESENT /\ misses >= Disappear
    IN  [state |-> IF leaves THEN ABSENT ELSE s.state,
         hits |-> 0,
         misses |-> misses,
         cooldown_remaining |-> IF leaves THEN Cooldown
                                ELSE CoolDown(s.cooldown_remaining),
         present_emitted |-> IF leaves THEN FALSE ELSE s.present_emitted]

\* The transition returned for a device whose record goes from s to t: an
\* arrival is announced unless the cooldown muted it, a departure only if the
\* arrival had been.
Announce(s, t) ==
    IF s.state = ABSENT /\ t.state = PRESENT /\ t.present_emitted THEN PRESENT
    ELSE IF s.state = PRESENT /\ t.state = ABSENT /\ s.present_emitted THEN ABSENT
    ELSE NoTransition

ShouldPruneInCooldown(t) == t.state = ABSENT /\ t.misses >= PruneAfter    \* mutant

ShouldPrune(t) ==
    /\ t.state = ABSENT
    /\ t.misses >= PruneAfter
    /\ t.cooldown_remaining = 0

-----------------------------------------------------------------------------
\* update(): operators of the table and of the window, used by the scan cycle.

Seen(h) == {d \in DOMAIN h : h[d] = "strong"}

\* The table once the devices heard for the first time were added.
Tracked(ds, h) ==
    [d \in DOMAIN ds \cup Seen(h) |-> IF d \in DOMAIN ds THEN ds[d] ELSE NewDevice]

Stepped(ds, h, d) == IF d \in Seen(h) THEN Hit(Tracked(ds, h)[d])
                                      ELSE Miss(Tracked(ds, h)[d])

WindowTransitions(ds, h) ==
    [d \in Devices |-> IF d \in DOMAIN Tracked(ds, h)
                       THEN Announce(Tracked(ds, h)[d], Stepped(ds, h, d))
                       ELSE NoTransition]

Pruned(ds, h) ==
    {d \in DOMAIN Tracked(ds, h) :
        /\ d \notin Seen(h)
        /\ WindowTransitions(ds, h)[d] = NoTransition
        /\ ShouldPrune(Stepped(ds, h, d))}

AfterWindow(ds, h) ==
    [d \in DOMAIN Tracked(ds, h) \ Pruned(ds, h) |-> Stepped(ds, h, d)]

-----------------------------------------------------------------------------

Init ==
    /\ devices = [d \in {} |-> NewDevice]
    /\ heard = [d \in Devices |-> "unheard"]
    /\ transitions = [d \in Devices |-> NoTransition]

Update(h) ==
    /\ heard' = h
    /\ transitions' = WindowTransitions(devices, h)
    /\ devices' = AfterWindow(devices, h)

Next == \E h \in [Devices -> Signals] : Update(h)

\* The scan loop runs window after window for as long as the daemon lives.
Spec == Init /\ [][Next]_vars /\ WF_vars(Next)

-----------------------------------------------------------------------------

TypeOK ==
    /\ DOMAIN devices \subseteq Devices
    /\ \A d \in DOMAIN devices : devices[d] \in DeviceState
    /\ heard \in [Devices -> Signals]
    /\ transitions \in [Devices -> Transitions]

\* No record stands where update() would already have flipped it: an absent
\* device has no open visit and fewer than appear_windows hits, a present one
\* fewer than disappear_windows misses.
Consistent(s) ==
    /\ s.state = ABSENT => ~s.present_emitted /\ s.hits < Appear
    /\ s.state = PRESENT => s.misses < Disappear

RecordsConsistent == \A d \in DOMAIN devices : Consistent(devices[d])

\* Memory stays bounded: a device that is never again heard at or above the
\* threshold is forgotten (_should_prune), even when its cooldown outlasts
\* prune_after_windows.
SilentDevicesAreForgotten ==
    \A d \in Devices :
        <>[](heard[d] # "strong") => <>[](d \notin DOMAIN devices)

\* A device that keeps being heard at or above the threshold becomes PRESENT
\* and stays so, whatever the tracker had seen of it before (update).
SteadyDevicesBecomePresent ==
    \A d \in Devices :
        <>[](heard[d] = "strong") =>
            <>[](d \in DOMAIN devices /\ devices[d].state = PRESENT)

=============================================================================

-------------------------------- MODULE Floor --------------------------------
(* src/src/ps5_framegen_menu.c, the floor of frame generation (a test turns it   *)
(* on): a core that cannot keep its rate is shown as it is, if it is generation  *)
(* that slows it.  A step is a window of two seconds or a little more, at whose  *)
(* end ps5_fg_osd has the calls the core made in it.                             *)
EXTENDS Integers

CONSTANTS
    Games,      \* what a core makes a second, without generation and with it
    Declared,   \* ps5_fg_core_fps, the rate it declares
    MenuRates,  \* the calls a second while the menu is open
    Lengths,    \* how many seconds a window may last
    OffFor,     \* 10: how long a core that generation slows is shown as it is
    MaxChanges  \* bound: times the game changes its rate, or the menu is opened

FloorAssumption ==
    /\ Games \subseteq [off : Nat, on : Nat] /\ MenuRates \subseteq Nat
    /\ Declared \in Nat /\ OffFor \in Nat \ {0} /\ Lengths \subseteq Nat \ {0} /\ MaxChanges \in Nat

VARIABLES
    floor,       \* ps5_fg_floor: generation is off
    phase,       \* 0 generating, 1 off for the measure, 2 generating again, to be compared
    offWindows, verifyWindows, slowWindows,
    lastSlow,    \* last_slow_rate
    rateOff, rateKept,  \* rate_off, rate_kept
    left,        \* the seconds until floor_until, 0 once it has passed
    game, plan,  \* the game's rates now; a game is shown, not the menu
    mixed,       \* ghost: the rates this window began at, if they changed as it began
    steady,      \* ghost: nothing but the floor has changed since the last measure began
    verdict,     \* ghost: the last verdict while steady
    offFor,      \* ghost: how many windows in a row generation has been off
    changes      \* how much of MaxChanges is spent

counts == <<offWindows, verifyWindows, slowWindows, lastSlow>>
rates  == <<rateOff, rateKept>>
vars   == <<floor, phase, counts, rates, left, game, plan, mixed, steady, verdict, offFor, changes>>

None == "none"

Rates == {g.off : g \in Games} \cup {g.on : g \in Games} \cup MenuRates

TypeOK ==
    /\ {floor, plan, steady} \subseteq BOOLEAN /\ phase \in 0 .. 2 /\ game \in Games
    /\ offWindows \in 0 .. 2 /\ verifyWindows \in 0 .. 2 /\ slowWindows \in 0 .. 2
    /\ {lastSlow, rateOff, rateKept} \subseteq Rates \cup {0} /\ left \in 0 .. OffFor
    /\ mixed \subseteq Rates /\ verdict \in {None, "harmless", "slows"}

Init ==
    /\ floor = FALSE /\ phase = 0 /\ offWindows = 0 /\ verifyWindows = 0 /\ slowWindows = 0 /\ lastSlow = 0
    /\ rateOff = 0 /\ rateKept = 0 /\ left = 0
    /\ game \in Games /\ plan = TRUE /\ mixed = {} /\ steady = TRUE /\ verdict = None /\ offFor = 0 /\ changes = 0

-----------------------------------------------------------------------------
\* What the core makes a second now.
Rate == IF floor THEN game.off ELSE game.on
Made == IF plan THEN {Rate} ELSE MenuRates

\* A window that began with a change may hold calls of before it.
Calls == Made \cup mixed

\* The first window with generation off, and the first with it back, is a mix of both.
WholeAtOnce(windows) == TRUE  \* mutant
Whole(windows) == windows + 1 >= 2

\* Generation that costs the core under a tenth of its rate stays on.
Harmless(calls) == 10 * calls >= 9 * rateOff

\* The rate below which the core is slow: its own, or the one generation was found harmless at.
ExpectedDeclared == Declared  \* mutant
Expected == IF rateKept > 0 THEN rateKept ELSE Declared
Slow(calls) == plan /\ Declared > 20 /\ 100 * calls < 85 * Expected

\* A slow window whose rate has settled; two of them begin a measure.
Settled(calls) == slowWindows = 0 \/ (10 * (calls - lastSlow) <= lastSlow /\ 10 * (lastSlow - calls) <= lastSlow)

-----------------------------------------------------------------------------
(* What the end of a window decides *)

\* Generation is off, to measure the core without it.
Measure(calls) ==
    /\ floor /\ phase = 1 /\ offWindows' = offWindows + 1
    /\ IF Whole(offWindows)
         THEN rateOff' = calls /\ floor' = FALSE /\ phase' = 2 /\ verifyWindows' = 0 /\ slowWindows' = 0
         ELSE UNCHANGED <<rateOff, floor, phase, verifyWindows, slowWindows>>
    /\ UNCHANGED <<lastSlow, rateKept, left, steady, verdict>>

\* Generation is off, for it slows the core: it is tried again after a while.
TryAgain(length) ==
    /\ floor /\ phase # 1
    /\ left' = IF left > length THEN left - length ELSE 0
    /\ IF left' = 0 THEN floor' = FALSE /\ slowWindows' = 0 ELSE UNCHANGED <<floor, slowWindows>>
    /\ UNCHANGED <<phase, offWindows, verifyWindows, lastSlow, rates, steady, verdict>>

\* Generation is back: the core with it is compared with the core without it.
Compare(calls) ==
    /\ ~floor /\ phase = 2 /\ verifyWindows' = verifyWindows + 1
    /\ IF Whole(verifyWindows)
         THEN /\ phase' = 0 /\ floor' = ~Harmless(calls)
              /\ rateKept' = (IF Harmless(calls) THEN rateOff ELSE 0)
              /\ left' = (IF Harmless(calls) THEN 0 ELSE OffFor)
              /\ verdict' = IF ~steady THEN None ELSE IF Harmless(calls) THEN "harmless" ELSE "slows"
         ELSE UNCHANGED <<phase, floor, rateKept, left, verdict>>
    /\ UNCHANGED <<offWindows, slowWindows, lastSlow, rateOff, steady>>

\* Frames are generated: two slow windows at a settled rate begin a measure.
Watch(calls) ==
    /\ ~floor /\ phase # 2 /\ UNCHANGED <<verifyWindows, rateOff, left>>
    /\ LET slow   == IF Settled(calls) THEN slowWindows + 1 ELSE 1
           begins == Slow(calls) /\ slow >= 2
       IN  /\ slowWindows' = (IF Slow(calls) /\ ~begins THEN slow ELSE 0)
           /\ lastSlow' = IF Slow(calls) THEN calls ELSE lastSlow
           /\ IF begins
                THEN floor' = TRUE /\ offWindows' = 0 /\ rateKept' = 0 /\ phase' = 1 /\ steady' = TRUE /\ verdict' = None
                ELSE UNCHANGED <<floor, offWindows, rateKept, phase, steady, verdict>>

\* The end of a window (ps5_fg_osd).
Window(calls, length) ==
    /\ calls \in Calls
    /\ Measure(calls) \/ TryAgain(length) \/ Compare(calls) \/ Watch(calls)
    /\ mixed' = IF floor' # floor THEN Made ELSE {}
    /\ offFor' = IF floor THEN offFor + 1 ELSE 0
    /\ UNCHANGED <<game, plan, changes>>

\* The game changes its rate, or the menu opens or closes.
Changed(g, p) ==
    /\ changes < MaxChanges /\ changes' = changes + 1 /\ <<g, p>> # <<game, plan>>
    /\ game' = g /\ plan' = p /\ mixed' = mixed \cup Made /\ steady' = FALSE /\ verdict' = None
    /\ UNCHANGED <<floor, phase, counts, rates, left, offFor>>

Next ==
    \/ \E calls \in Rates, length \in Lengths : Window(calls, length)
    \/ \E g \in Games, p \in BOOLEAN : Changed(g, p)

Spec == Init /\ [][Next]_vars

-----------------------------------------------------------------------------
(* A verdict on a game that stayed as it was is the truth about it, although the core's calls    *)
(* are counted over windows generation was on for only a part of (rate_off, calls_per_s).        *)
VerdictsAreTrue ==
    /\ verdict = "harmless" => 10 * game.on >= 9 * game.off
    /\ verdict = "slows" => 10 * game.on < 9 * game.off

(* Generation that was found harmless is not turned off again while the game stays as it is     *)
(* (rate_kept), and generation that is off is tried again within its time.                       *)
HarmlessStays == verdict = "harmless" => ~floor'
OffEnds       == floor => offFor < 2 \/ \E length \in Lengths : offFor * length < OffFor

\* What a window may do, and what it leaves.
FloorIsFair == TypeOK' /\ VerdictsAreTrue' /\ HarmlessStays /\ OffEnds'
==============================================================================

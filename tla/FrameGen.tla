------------------------------ MODULE FrameGen ------------------------------
(* src/tooling/framegen/vulkan_framegen.cpp and the Vulkan driver's calls to it  *)
(* (src/tools/apply-port-patches.py, patches 0119 to 0137): the pictures shown   *)
(* between one new frame of a game and the next, at the instants of the target   *)
(* rate.  Times are in one unit, whole for every group (the code's are doubles   *)
(* of intervals, with a tolerance of 1e-6 for their rounding).                   *)
EXTENDS Integers, Sequences

CONSTANTS
    Rates,      \* what a frame of the core and a picture may last, and the presents of each picture
    Cadence,    \* the cadence the player forces, 0 for none
    Covers,     \* how many frames a blocking core says its next one covers, 0 for one that does not block
    Sizes,      \* the sizes frames come in
    LowRes,     \* those that are pixel art
    Method,     \* the method chosen: 0 the network, 1 a blend, 2 a repeat
    LongestGap, \* 8: a longer gap breaks the sequence
    Overs, FirstWait, LongestWait, Soon,  \* the governor's 8, 600, 20000 and 3000 groups
    Costs,      \* what a picture may be measured to cost: "none", "dear", "fair", "cheap"
    MaxFrames,  \* bound: new frames
    MaxSkips,   \* bound: calls the clock finds a fast core skipped before a new frame
    MaxCalls,   \* bound: calls in a group
    MaxStops,   \* bound: times the menu, a pause or a fast-forward interrupts
    MaxFails    \* bound: times the generator cannot be made

FrameGenAssumption ==
    /\ {LongestGap, Overs, FirstWait, LongestWait, MaxCalls} \subseteq Nat \ {0}
    /\ {Cadence, Soon, MaxFrames, MaxSkips, MaxStops, MaxFails} \subseteq Nat
    /\ Rates \subseteq [frame : Nat \ {0}, step : Nat \ {0}, dup : Nat \ {0}]
    /\ Covers \subseteq Nat /\ LowRes \subseteq Sizes /\ Method \in 0 .. 2
    /\ Costs \subseteq {"none", "dear", "fair", "cheap"}

VARIABLES
    rate,      \* the rates of the run: 1 / core_fps, 1 / target_fps, dup
    made,      \* the size the images and the network are for, or NoSize (no ctx)
    frames,    \* the new frames the two images hold, None for a fresh image
    held,      \* which of them is the held one
    hasHeld, history, tiles,  \* has_held, history_valid, tiles_found
    latest,    \* latest, Neither while latest_valid is false
    level, over, under, wait, sinceUp,  \* the governor
    times,     \* the instants of the group's pictures, after the previous new frame
    phase,     \* when the next picture falls, after the group's own
    calls,     \* group_period
    gap,       \* group_gap_s, 0 before the first group
    open, call, period,  \* the driver's: a group is open, the call within it, the gap it expects
    present,   \* the next present of the call, 0 between calls
    newest,    \* the core's newest new frame
    since,     \* ghost: the first frame after the last break
    cut,       \* ghost: the group before this one was cut short by this one's frame
    search,    \* ghost: the pair the last motion search was made on
    shown,     \* ghost: the last picture shown
    seen,      \* ghost: the pictures of the group that were shown
    line,      \* ghost: since the phase began afresh, its first picture, the pictures planned, the time they cover
    stops, fails  \* how much of MaxStops and MaxFails is spent

images   == <<made, frames, held, hasHeld, history, tiles, latest>>
governor == <<level, over, under, wait, sinceUp>>
timeline == <<times, phase, calls, gap, line>>
driver   == <<open, call, period>>
ghosts   == <<since, cut, search, shown, seen>>
vars     == <<rate, images, governor, timeline, driver, present, newest, ghosts, stops, fails>>

None    == 0
Neither == 2
NoSize  == "none"
NoPair  == <<None, None>>
Nothing == [of |-> "nothing", pair |-> NoPair, at |-> 0, from |-> NoPair]

Frame == rate.frame
Step  == rate.step
Dup   == rate.dup

Larger(a, b)  == IF a > b THEN a ELSE b
Smaller(a, b) == IF a < b THEN a ELSE b

TypeOK ==
    /\ rate \in Rates /\ made \in Sizes \cup {NoSize} /\ frames \in [0 .. 1 -> 0 .. MaxFrames] /\ held \in 0 .. 1 /\ latest \in 0 .. 2
    /\ {hasHeld, history, tiles, open, cut} \subseteq BOOLEAN /\ level \in 0 .. 2
    /\ times \in Seq(Nat) /\ phase \in Nat \ {0} /\ calls \in Nat \ {0} /\ {gap, call, period, present} \subseteq Nat

Init ==
    /\ rate \in Rates
    /\ made = NoSize /\ frames = [i \in 0 .. 1 |-> None] /\ held = 0 /\ latest = Neither
    /\ hasHeld = FALSE /\ history = FALSE /\ tiles = FALSE
    /\ level = 0 /\ over = 0 /\ under = 0 /\ wait = FirstWait /\ sinceUp = Soon
    /\ times = <<>> /\ phase = Step /\ calls = 1 /\ gap = 0
    /\ line = [first |-> Step, planned |-> 0, lasted |-> 0]
    /\ open = FALSE /\ call = 0 /\ period = 0 /\ present = 0
    /\ newest = 0 /\ since = 1 /\ cut = FALSE /\ search = NoPair /\ shown = Nothing /\ seen = {}
    /\ stops = 0 /\ fails = 0

-----------------------------------------------------------------------------
(* A group's pictures *)

\* A game within 2% of a whole number of pictures is taken as exactly that.
Snapped(length) ==
    LET whole == ((2 * length + Step) \div (2 * Step)) * Step
    IN  IF whole > 0 /\ 50 * (length - whole) <= length /\ 50 * (whole - length) <= length THEN whole ELSE length

\* A group of another length begins its phase afresh; 5% is a clock's jitter.
Another(c, length) ==
    c # calls \/ gap = 0 \/ 20 * (length - gap) > gap \/ 20 * (gap - length) > gap

\* When the first picture after a group falls: the time its own left over is carried.
RestForgotten(first, count, interval) == Step  \* mutant
Rest(first, count, interval) == first + count * Step - interval

\* vk_framegen_begin_group: the group's pictures, and the phase it leaves to the next.
MostPictures == 64
BeginGroup(c, length) ==
    LET interval == Snapped(length)
        fresh == Another(c, length) \/ phase > interval + Step
        first == IF fresh THEN Smaller(interval, Step) ELSE phase
        count == IF first > interval THEN 0 ELSE Smaller(MostPictures, (interval - first) \div Step + 1)
    IN  /\ calls' = c /\ gap' = length
        /\ times' = [i \in 1 .. count |-> Smaller(first + (i - 1) * Step, interval)]
        /\ phase' = Rest(first, count, interval)
        /\ line' = IF fresh THEN [first |-> first, planned |-> count, lasted |-> interval]
                            ELSE [line EXCEPT !.planned = @ + count, !.lasted = @ + interval]

\* The first picture of a call.
FromShort(c) == (c * Len(times)) \div (calls + 1)  \* mutant
From(c) == (c * Len(times)) \div calls

Nominal == Larger(1, (2 * Frame + Step) \div (2 * Step))

\* vk_framegen_call_presents
Presents == (IF call >= calls THEN Nominal ELSE Larger(1, From(call + 1) - From(call))) * Dup

\* vk_framegen_picture: which of the group's pictures a present shows, whether it lies between
\* the two new frames, and whether the present is the group's last.
Picture == (IF call < calls THEN From(call) ELSE Len(times)) + (present - 1) \div Dup + 1
Between == Picture <= Len(times) /\ times[Picture] < Snapped(gap)
Final   == call + 1 >= calls /\ present >= Presents

-----------------------------------------------------------------------------
(* The governor *)

\* govern: a step down after a run of groups above the limit, one up after enough far below it.
Govern(cost) ==
    \/ cost = "none" /\ UNCHANGED governor
    \/ /\ cost = "dear" /\ under' = 0 /\ UNCHANGED sinceUp
       /\ IF over + 1 >= Overs /\ level < 2
            THEN /\ level' = level + 1 /\ over' = 0
                 /\ wait' = IF sinceUp < Soon THEN Smaller(2 * wait, LongestWait) ELSE FirstWait
            ELSE over' = Smaller(over + 1, Overs) /\ UNCHANGED <<level, wait>>
    \/ /\ cost \in {"fair", "cheap"} /\ over' = 0 /\ UNCHANGED wait
       /\ LET counts == level # 0 /\ cost = "cheap"
          IN  IF counts /\ under + 1 >= wait
                THEN level' = level - 1 /\ under' = 0 /\ sinceUp' = 0
                ELSE /\ under' = (IF counts THEN under + 1 ELSE under)
                     /\ sinceUp' = Smaller(sinceUp + 1, Soon) /\ UNCHANGED level

\* The method a picture is made with: the one chosen, or a cheaper one; pixel art goes without
\* the network, and a repeat is its next step.
Used == IF Method # 0 THEN Method
        ELSE IF made \in LowRes THEN (IF level = 0 THEN 0 ELSE 2)
        ELSE level

-----------------------------------------------------------------------------
(* The frames *)

\* What a new frame does to the frames before it and to the search made on them: a frame of
\* another size and a long gap end the sequence, and the pair is another from now on.
BreaksNever(size, broken) == made # size  \* mutant
Breaks(size, broken) == made # size \/ broken
FoundStill(ok) == tiles  \* mutant
Found(ok) == tiles /\ ~ok

\* ensure_resources and vk_framegen_hold: the frame is copied to the held image, which is made
\* anew, with all else the generator has, for a frame of another size.
Hold(size, ok, broken) ==
    LET n == newest + 1
        remade == made # size
    IN  /\ made' = IF ok THEN size ELSE NoSize
        /\ ok \/ (remade /\ fails < MaxFails)
        /\ fails' = IF ok THEN fails ELSE fails + 1
        /\ frames' = IF ok THEN [i \in 0 .. 1 |-> IF i = held THEN n ELSE IF remade THEN None ELSE frames[i]]
                           ELSE [i \in 0 .. 1 |-> None]
        /\ hasHeld' = ok /\ history' = (history /\ ~Breaks(size, broken))
        /\ tiles' = Found(ok)
        /\ latest' = IF ok THEN held ELSE latest
        /\ since' = IF remade \/ broken THEN n ELSE since
        /\ search' = IF remade THEN NoPair ELSE search
        /\ UNCHANGED held

\* vk_framegen_invalidate, as the menu opens, the game is paused or runs fast.
Stop ==
    /\ present = 0 /\ stops < MaxStops /\ stops' = stops + 1
    /\ history' = FALSE /\ hasHeld' = FALSE /\ open' = FALSE /\ since' = newest + 1
    /\ UNCHANGED <<rate, made, frames, held, tiles, latest, governor, timeline, call, period, present, newest,
                   cut, search, shown, seen, fails>>

\* A call with a new frame: the gap since the last one, by the calls or by the clock, predicts
\* the next; a blocking core says its own.
NewFrame(size, ok, skips, covers, cost) ==
    LET last     == call + 1 + skips
        broken   == open /\ last > LongestGap
        measured == IF Cadence # 0 THEN Cadence % 5 ELSE IF open /\ ~broken THEN last ELSE period
        blocks   == covers # 0 /\ Cadence = 0
        length   == IF blocks THEN Smaller(covers, 8) ELSE Larger(1, measured)
    IN  /\ present = 0 /\ newest < MaxFrames
        /\ open' = TRUE /\ call' = 0 /\ present' = 1 /\ newest' = newest + 1
        /\ period' = IF blocks THEN length ELSE measured
        /\ Govern(cost)
        /\ BeginGroup(IF ~blocks THEN length ELSE IF open THEN Smaller(call + 1, length) ELSE 1, length * Frame)
        /\ Hold(size, ok, broken)
        /\ cut' = (open /\ call + 1 < calls) /\ seen' = {}
        /\ UNCHANGED <<rate, shown, stops>>

\* A call that brings no new frame belongs to the group its last one began.
SameFrame ==
    /\ present = 0 /\ open /\ call + 1 < MaxCalls
    /\ call' = call + 1 /\ present' = 1
    /\ UNCHANGED <<rate, images, governor, timeline, open, period, newest, ghosts, stops, fails>>

\* A present: a picture generated from the two images (vk_framegen_generate), or the real frame,
\* from the held copy for pixel art (vk_framegen_current); the group's last commits the held frame.
GeneratesUnseen == Between /\ made # NoSize /\ hasHeld  \* mutant
Generates == Between /\ made # NoSize /\ history /\ hasHeld
Pair      == <<frames[1 - held], frames[held]>>
Commit    == Final /\ hasHeld
Present ==
    /\ present > 0
    /\ present' = IF present >= Presents THEN 0 ELSE present + 1
    /\ tiles' = IF Generates THEN Used = 0 ELSE tiles
    /\ search' = IF Generates /\ Used = 0 /\ ~tiles THEN Pair ELSE search
    /\ held' = IF Commit THEN 1 - held ELSE held
    /\ hasHeld' = (hasHeld /\ ~Commit) /\ history' = (history \/ Commit)
    /\ shown' = IF Generates THEN [of |-> "made", pair |-> Pair, at |-> times[Picture], from |-> IF tiles THEN search ELSE Pair]
                ELSE IF made \in LowRes /\ latest # Neither
                     THEN [of |-> "copy", pair |-> <<frames[latest], frames[latest]>>, at |-> Snapped(gap), from |-> NoPair]
                     ELSE [of |-> "real", pair |-> <<newest, newest>>, at |-> Snapped(gap), from |-> NoPair]
    /\ seen' = IF Picture <= Len(times) THEN seen \cup {Picture} ELSE seen
    /\ UNCHANGED <<rate, made, frames, latest, governor, timeline, driver, newest, since, cut, stops, fails>>

Next ==
    \/ \E size \in Sizes, ok \in BOOLEAN, skips \in 0 .. MaxSkips, covers \in Covers, cost \in Costs :
        NewFrame(size, ok, skips, covers, cost)
    \/ SameFrame \/ Present \/ Stop

Spec == Init /\ [][Next]_vars

-----------------------------------------------------------------------------
(* A picture is made between two frames of one size, neither from before a break (the menu, a   *)
(* pause, a long gap, another size), the second the game's newest and the first the one before  *)
(* it unless that one's group was cut short; a motion search that is taken over is that pair's   *)
(* own, and a real frame shown from its copy is the newest (vk_framegen_generate, hold, commit). *)
MadeOfItsFrames ==
    present # 0 =>
        /\ shown'.of = "made" =>
            /\ since <= shown'.pair[1] /\ shown'.pair[1] < newest /\ shown'.pair[2] = newest
            /\ cut \/ shown'.pair[1] = newest - 1
            /\ shown'.from = shown'.pair
        /\ shown'.of = "copy" => shown'.pair[2] = newest

(* A group that runs its length shows every one of its pictures, none before one that was shown  *)
(* already (vk_framegen_call_presents and vk_framegen_picture divide them among its calls).      *)
AllAreShown == present = 0 /\ open /\ call + 1 >= calls => seen = 1 .. Len(times)
NeverBack   == present # 0 => \A p \in seen, q \in seen' \ seen : p < q

(* Whatever the game's rate, the pictures planned keep the target rate: of the time covered none  *)
(* is missing and none too many (vk_framegen_begin_group).                                        *)
RateIsKept ==
    /\ line.lasted < line.first + line.planned * Step
    /\ line.planned > 0 => line.first + (line.planned - 1) * Step <= line.lasted

\* What a step may do to the pictures shown, and what it leaves.
PicturesAreTheirs == TypeOK' /\ MadeOfItsFrames /\ NeverBack /\ AllAreShown' /\ RateIsKept'
==============================================================================

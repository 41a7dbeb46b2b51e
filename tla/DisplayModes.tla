---------------------------- MODULE DisplayModes ----------------------------
(* src/src/display_modes_ps5.cpp: the armed test that presents every display mode *)
(* before RetroArch starts.  The title may end at any step and be started again.  *)
EXTENDS Naturals, Sequences, FiniteSets, SequencesExt

CONSTANTS
    MaxModes,   \* modes the display may report
    Frames,     \* frames a mode
    MaxArms,    \* bound: how often the test is armed
    MaxDeaths   \* bound: how often the title ends inside it

DisplayModesAssumption == {MaxModes, Frames, MaxArms, MaxDeaths} \subseteq Nat

VARIABLES
    armed,    \* /app0/display-modes-test.txt is there
    results,  \* /app0/display-modes-test.jsonl
    pc,       \* where run_test is
    order,    \* the modes still to present, the one under way first
    step,     \* how far present_mode is: the objects it has made, or frames
    chain, surface,  \* run_test's swapchain and surface: the mode they are of, 0 for none
    objects,  \* the Vulkan objects that live, each with the mode it was made for
    passed,   \* run_test's passed
    shown,    \* frames of each mode that were presented in this run
    arms, starts, deaths  \* how often the test was armed, started, cut short

files  == <<armed, results>>
test   == <<pc, order, step, chain, surface, objects, passed, shown>>
counts == <<arms, starts, deaths>>
vars   == <<files, test, counts>>

\* What present_mode makes for a mode, in its order; every call may fail.
Makes == <<"surface", "chain", "buffer", "memory", "acquired", "copied", "done">>
Parts == Makes \o [f \in 1 .. Frames |-> "frame"]
Scratch == {"buffer", "memory", "acquired", "copied", "done"}
Of(kinds, m) == {<<k, m>> : k \in kinds}

TypeOK ==
    /\ {armed, passed} \subseteq BOOLEAN /\ pc \in {"off", "setup", "mode", "down", "last"}
    /\ step \in 0 .. Len(Parts) /\ {chain, surface} \subseteq 0 .. MaxModes + 1

Quiet ==
    /\ pc' = "off" /\ order' = <<>> /\ step' = 0 /\ chain' = 0 /\ surface' = 0 /\ objects' = {}
    /\ passed' = FALSE /\ shown' = <<>>

Init ==
    /\ armed = FALSE /\ results = <<>> /\ pc = "off" /\ order = <<>> /\ step = 0
    /\ chain = 0 /\ surface = 0 /\ objects = {} /\ passed = FALSE /\ shown = <<>>
    /\ arms = 0 /\ starts = 0 /\ deaths = 0

\* tools/run-title.sh --display-modes-test
Arm ==
    /\ pc = "off" /\ arms < MaxArms /\ arms' = arms + 1 /\ armed' = TRUE
    /\ UNCHANGED <<results, test, starts, deaths>>

DisarmsNot == armed  \* mutant

\* The test is disarmed before anything of it runs.
Disarms == FALSE

Start ==
    /\ pc = "off" /\ armed /\ armed' = Disarms /\ results' = <<>>
    /\ pc' = "setup" /\ order' = <<>> /\ step' = 0 /\ chain' = 0 /\ surface' = 0 /\ objects' = {}
    /\ passed' = FALSE /\ shown' = <<>> /\ starts' = starts + 1
    /\ UNCHANGED <<arms, deaths>>

\* set_up: the instance, then the device and its pool, or what there was before it failed.
SetUp(n) ==
    /\ pc = "setup"
    /\ order' = [i \in 1 .. (IF n = 0 THEN 0 ELSE n + 1) |-> IF i > n THEN 1 ELSE i]
    /\ objects' = Of({"instance", "device", "pool"}, 0) /\ passed' = (n > 0)
    /\ pc' = IF n = 0 THEN "down" ELSE "mode"
    /\ UNCHANGED <<files, step, chain, surface, shown, counts>>

SetUpFails(kinds) ==
    /\ pc = "setup" /\ objects' = Of(kinds, 0) /\ results' = Append(results, "setup") /\ pc' = "down"
    /\ UNCHANGED <<armed, order, step, chain, surface, passed, shown, counts>>

\* The mode under way; the first mode once more counts as a mode of its own.
Again == Len(order) = 1 /\ results # <<>>
This  == IF Again THEN MaxModes + 1 ELSE Head(order)

OldGoesNot == {}  \* mutant

\* The new swapchain is made through the old one, which then goes with its surface.
OldGoes == {<<"chain", chain>>, <<"surface", surface>>}

Make ==
    /\ pc = "mode" /\ step < Len(Makes) /\ step' = step + 1
    /\ LET kind == Makes[step + 1] IN
         /\ objects' = (IF kind = "chain" THEN objects \ OldGoes ELSE objects) \cup {<<kind, This>>}
         /\ IF kind = "chain" THEN chain' = This /\ surface' = This ELSE UNCHANGED <<chain, surface>>
    /\ UNCHANGED <<files, pc, order, passed, shown, counts>>

Present ==
    /\ pc = "mode" /\ step \in Len(Makes) .. Len(Parts) - 1 /\ step' = step + 1
    /\ shown' = Append(shown, This)
    /\ UNCHANGED <<files, pc, order, chain, surface, objects, passed, counts>>

\* The mode's line is written and the next one begins; what the mode made for itself goes.
ModeEnds ==
    /\ pc = "mode" /\ step = Len(Parts) /\ step' = 0
    /\ objects' = objects \ Of(Scratch, This) /\ results' = Append(results, "ok")
    /\ order' = Tail(order) /\ pc' = IF Len(order) = 1 THEN "down" ELSE "mode"
    /\ UNCHANGED <<armed, chain, surface, passed, shown, counts>>

PassedKept == passed  \* mutant

PassedAfterFailure == FALSE

ModeFails ==
    /\ pc = "mode" /\ step < Len(Parts)
    /\ passed' = PassedAfterFailure /\ results' = Append(results, "error") /\ pc' = "down"
    /\ UNCHANGED <<armed, order, step, chain, surface, objects, shown, counts>>

\* The swapchain, the pool and the device, then the surface and the instance.
TearDown ==
    /\ pc = "down" /\ pc' = "last"
    /\ objects' = objects \ (Of({"instance", "device", "pool"}, 0) \cup {<<"chain", chain>>, <<"surface", surface>>})
    /\ UNCHANGED <<files, order, step, chain, surface, passed, shown, counts>>

Result ==
    /\ pc = "last" /\ results' = Append(results, IF passed THEN "PASS" ELSE "FAIL") /\ Quiet
    /\ UNCHANGED <<armed, counts>>

\* The title ends inside the test: the console takes its objects back.
Die ==
    /\ pc # "off" /\ deaths < MaxDeaths /\ deaths' = deaths + 1 /\ Quiet
    /\ UNCHANGED <<files, arms, starts>>

Next ==
    \/ Arm \/ Start \/ Make \/ Present \/ ModeEnds \/ ModeFails \/ TearDown \/ Result \/ Die
    \/ \E n \in 0 .. MaxModes : SetUp(n)
    \/ \E kinds \in {{}, {"instance"}, {"instance", "device"}} : SetUpFails(kinds)

Spec == Init /\ [][Next]_vars

-----------------------------------------------------------------------------
(* The properties *)

\* A test that took the title down with it is not run again at the next start: only
\* arming it does that (run_test: "The test is disarmed and RetroArch starts as usual").
StartsAreArmed == starts <= arms

\* PASS is written only after every mode, and the first again, had all its frames, and
\* with nothing of the test left on the device.
PassIsEarned ==
    /\ (pc \in {"down", "last"} /\ passed) =>
          /\ order = <<>> /\ Len(shown) = Frames * Len(results) /\ Len(results) > 1
          /\ {"error", "setup"} \cap Range(results) = {}
    /\ (pc = "last" /\ passed) => objects = {}

\* A swapchain is never left without the surface it was made for.
ChainHasItsSurface == \A o \in objects : o[1] = "chain" => <<"surface", o[2]>> \in objects

\* What the failing path leaves to the device and the instance that go before it: every
\* object is destroyed before the object it was made from.
ChildrenFirst == pc = "last" => objects = {}
=============================================================================

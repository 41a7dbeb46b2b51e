------------------------------ MODULE Display -------------------------------
(* src/src/display.cpp and src/src/video_ps5.cpp: the software video driver over *)
(* VideoOut.  The frontend's thread opens the display, hands over pictures and   *)
(* presents; the display takes a submitted flip at the next vblank.              *)
EXTENDS Naturals, FiniteSets

CONSTANTS
    MaxPictures,  \* bound: pictures the frontend draws
    MaxFrames,    \* bound: frames it asks for
    MaxRefused    \* bound: calls the console refuses or fails

DisplayAssumption == {MaxPictures, MaxFrames, MaxRefused} \subseteq Nat

VARIABLES
    opening,   \* the resources Display::open holds
    isOpen,    \* handle_ >= 0, buffers registered
    frames,    \* what each of the two buffers holds
    back,      \* back_
    pending,   \* the buffer of the submitted flip, or Neither
    scanned,   \* the buffer the display shows, or Neither
    waits,     \* ps5_frame: "idle", "drawn", or "vblank" (in sceVideoOutWaitVblank)
    early,     \* that call failed, and the display has not taken the flip since
    menu,      \* menu_frame: the menu's picture, or Nothing
    have,      \* have_menu_frame
    seen,      \* seen_menu_frame
    offered,   \* the picture ps5_frame was last given (menu before core), or Nothing
    drawn,     \* pictures drawn so far
    asked,     \* frames asked for so far
    refused    \* calls refused so far

memory == <<opening, isOpen>>
flips  == <<frames, back, pending, scanned, waits, early>>
driver == <<menu, have, seen>>
bounds == <<drawn, asked, refused>>
vars   == <<memory, flips, driver, offered, bounds>>

Neither == 2
Nothing == [of |-> "nothing", n |-> 0]
Bands   == [of |-> "bands", n |-> 0]
Picture(of, n) == [of |-> of, n |-> n]
Pictures == [of : {"nothing", "bands", "corner", "menu", "core"}, n : 0 .. MaxPictures]

TypeOK ==
    /\ opening \subseteq {"handle", "physical", "mapping"} /\ {isOpen, have, seen} \subseteq BOOLEAN
    /\ frames \in [0 .. 1 -> Pictures] /\ back \in 0 .. 1 /\ {pending, scanned} \subseteq 0 .. 2
    /\ waits \in {"idle", "drawn", "vblank"} /\ early \in BOOLEAN /\ {menu, offered} \subseteq Pictures

Init ==
    /\ opening = {} /\ isOpen = FALSE /\ frames = [b \in 0 .. 1 |-> Nothing] /\ back = 0
    /\ pending = Neither /\ scanned = Neither /\ waits = "idle" /\ early = FALSE
    /\ menu = Nothing /\ have = FALSE /\ seen = FALSE /\ offered = Nothing
    /\ drawn = 0 /\ asked = 0 /\ refused = 0

Refusal == refused < MaxRefused /\ refused' = refused + 1

-----------------------------------------------------------------------------
(* Display::open and ps5_init *)

\* What each call of Display::open needs to have been given before it.
Needs == [handle |-> {}, physical |-> {"handle"}, mapping |-> {"handle", "physical"}]

Take(r) ==
    /\ ~isOpen /\ r \notin opening /\ Needs[r] \subseteq opening
    /\ opening' = opening \cup {r}
    /\ UNCHANGED <<isOpen, flips, driver, offered, bounds>>

\* sceVideoOutRegisterBuffers2: the driver may draw into the first buffer.
Register ==
    /\ ~isOpen /\ opening = {"handle", "physical", "mapping"} /\ isOpen' = TRUE /\ back' = 0
    /\ UNCHANGED <<opening, frames, pending, scanned, waits, early, driver, offered, bounds>>

\* Display::close forgets what it holds; ps5_init deletes the driver's state.
OpenFails ==
    /\ ~isOpen /\ Refusal /\ opening' = {}
    /\ UNCHANGED <<isOpen, flips, driver, offered, drawn, asked>>

-----------------------------------------------------------------------------
(* The poke interface *)

\* ps5_set_texture_frame; n = 0 hands over no framebuffer.
SetTextureFrame(n) ==
    /\ isOpen /\ waits = "idle" /\ n \in {0, drawn + 1} /\ n <= MaxPictures
    /\ menu' = (IF n = 0 THEN Nothing ELSE Picture("menu", n)) /\ have' = (n # 0)
    /\ drawn' = IF n = 0 THEN drawn ELSE n
    /\ UNCHANGED <<memory, flips, seen, offered, asked, refused>>

\* ps5_set_texture_enable: enabling does not bring a framebuffer back.
SetTextureEnable(enable) ==
    /\ isOpen /\ waits = "idle" /\ have' = (enable /\ have)
    /\ UNCHANGED <<memory, flips, menu, seen, offered, bounds>>

-----------------------------------------------------------------------------
(* ps5_frame *)

\* The menu's framebuffer, else the core's frame (Nothing when the core repeats one).
Source(core) == IF have THEN menu ELSE core

\* blit_whole_frame draws nothing of no source; before the menu was ever seen the
\* bands go down first, and a core's frame into the corner over them.
Painted(source, everSeen) ==
    IF everSeen THEN IF source = Nothing THEN frames[back] ELSE source
    ELSE IF source # Nothing THEN Picture("corner", source.n) ELSE Bands

PaintsMenuLast(core, everSeen) == Painted(IF core # Nothing THEN core ELSE Source(core), everSeen)  \* mutant

Paints(core, everSeen) == Painted(Source(core), everSeen)

\* A frame draws into the back buffer, and ps5_frame goes on to present it.
Draw(n) ==
    /\ isOpen /\ waits = "idle" /\ asked < MaxFrames /\ asked' = asked + 1
    /\ n \in {0, drawn + 1} /\ n <= MaxPictures /\ drawn' = (IF n = 0 THEN drawn ELSE n)
    /\ LET core == IF n = 0 THEN Nothing ELSE Picture("core", n) IN
         /\ seen' = (seen \/ have) /\ offered' = Source(core)
         /\ frames' = [frames EXCEPT ![back] = Paints(core, seen')]
    /\ waits' = "drawn"
    /\ UNCHANGED <<memory, back, pending, scanned, early, menu, have, refused>>

WaitsNot == "idle"  \* mutant

\* What Display::present does after it has submitted the flip.
Waits == "vblank"

\* sceVideoOutSubmitFlip
Submit ==
    /\ waits = "drawn" /\ pending = Neither
    /\ pending' = back /\ waits' = Waits
    /\ back' = IF Waits = "idle" THEN 1 - back ELSE back
    /\ UNCHANGED <<memory, frames, scanned, early, driver, offered, bounds>>

\* A flip that was refused, as one is while another waits: the same buffer is drawn into again.
SubmitFails ==
    /\ waits = "drawn" /\ (Refusal \/ (pending # Neither /\ UNCHANGED refused)) /\ waits' = "idle"
    /\ UNCHANGED <<memory, frames, back, pending, scanned, early, driver, offered, drawn, asked>>

\* The display takes the flip, and sceVideoOutWaitVblank returns: the other buffer
\* is the driver's to write.
Vblank ==
    /\ pending # Neither \/ waits = "vblank"
    /\ scanned' = (IF pending = Neither THEN scanned ELSE pending) /\ pending' = Neither
    /\ waits' = (IF waits = "vblank" THEN "idle" ELSE waits)
    /\ back' = (IF waits = "vblank" THEN 1 - back ELSE back) /\ early' = FALSE
    /\ UNCHANGED <<memory, frames, driver, offered, bounds>>

\* sceVideoOutWaitVblank fails or returns early: its result is not looked at, and the other buffer is the
\* driver's although the display has not taken the flip.
WaitFails ==
    /\ waits = "vblank" /\ Refusal /\ waits' = "idle" /\ back' = 1 - back /\ early' = TRUE
    /\ UNCHANGED <<memory, frames, pending, scanned, driver, offered, drawn, asked>>

-----------------------------------------------------------------------------
Next ==
    \/ \E r \in {"handle", "physical", "mapping"} : Take(r)
    \/ Register \/ OpenFails \/ Submit \/ SubmitFails \/ Vblank \/ WaitFails
    \/ \E n \in 0 .. MaxPictures : SetTextureFrame(n) \/ Draw(n)
    \/ \E enable \in BOOLEAN : SetTextureEnable(enable)

Spec == Init /\ [][Next]_vars

-----------------------------------------------------------------------------
(* The properties *)

Screen == IF scanned = Neither THEN Nothing ELSE frames[scanned]

\* The driver never draws into a buffer the display shows or is about to show
\* (Display::present: "the next one is drawn into the buffer the display is not
\* reading"), but into the one it shows once a wait for the vblank has failed, until the
\* display takes the flip after all.
NotTorn == frames' # frames => back # pending /\ (back = scanned => early)

\* Once the menu has been seen, a flip the display takes puts the picture on the
\* screen that the frame had to offer: the menu's newest, else the core's.
NewestShown == (scanned' # scanned /\ seen /\ offered # Nothing /\ waits = "vblank") => Screen' = offered

\* video_ps5.cpp:300: "the screen is the menu's and not the instrument's"; a frame with
\* nothing new to show must leave the picture that is on the screen there.
PictureStays == [][(seen /\ scanned' # scanned /\ offered = Nothing) => Screen' = Screen]_vars

\* display.cpp:251: "the buffers must not be released while the display still scans them
\* out": a failed opening would give back what it took.
NothingForgotten == [][opening' # {} \/ opening = {}]_vars
=============================================================================

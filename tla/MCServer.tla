------------------------------- MODULE MCServer ------------------------------
(* Model checking of the server's requests: large uploads whose connections     *)
(* break, the settings the pages and RetroArch share, batches of files, and     *)
(* byte ranges; each on its own, part says which.                               *)
EXTENDS Upload

CONSTANTS
    u1, u2, p1, r1, r2, name,
    Accounts, Pages, MaxEdits, MaxStarts, MaxFails, MaxCores, EarlyCrash, LateCrash  \* of Settings
OneName == [u \in {u1, u2} |-> name]

\* The files each batch, and a request of one file, may send.
Rec(n, s) == [name |-> n, size |-> s]
Bodies == [b |-> {<<Rec("x", 2), Rec("y", 1)>>, <<Rec("x", 1), Rec("x", 0)>>, <<Rec("y", 3), Rec("x", 3)>>},
           s |-> {<<Rec("x", 2)>>, <<Rec("y", 0)>>}]

VARIABLES
    part,  \* the component this behavior is of
    setWeb, setRa, setPending, setProfile, setInstalled, setMarker, setPc, setHeld, setMem,
    setOption, setRequest, setSeen, setWanted, setSaved, setDisturbed, setMet, setLeft,
    batFiles, batPc, batBody, batRec, batState, batHave, batPiece, batTakes, batTemp,
    batOut, batBuf, batResult, batFaults,
    ranRanges, ranCovered, ranReceived, ranAsked, ranGot

Set == INSTANCE Settings WITH
    web <- setWeb,
    ra <- setRa, pending <- setPending, profile <- setProfile, installed <- setInstalled,
    marker <- setMarker, pc <- setPc, held <- setHeld, mem <- setMem, option <- setOption,
    request <- setRequest, seen <- setSeen, wanted <- setWanted, saved <- setSaved,
    disturbed <- setDisturbed, met <- setMet, left <- setLeft
Bat == INSTANCE Batch WITH
    Requests <- {"b", "s"}, Names <- {"x", "y"}, Bodies <- Bodies, Batches <- {"b"},
    Replaces <- {"s"}, Block <- 2, MaxFailed <- 1, MaxSkipped <- 1, MaxPiece <- 5, MaxFaults <- 1, files <- batFiles,
    pc <- batPc, body <- batBody, rec <- batRec, state <- batState, have <- batHave,
    piece <- batPiece, takes <- batTakes, temp <- batTemp, out <- batOut, buf <- batBuf,
    result <- batResult, faults <- batFaults
Ran == INSTANCE Ranges WITH
    Size <- 6, Width <- 3, ranges <- ranRanges, covered <- ranCovered,
    received <- ranReceived, asked <- ranAsked, got <- ranGot
SetVars ==
    <<setWeb, setRa, setPending, setProfile, setInstalled, setMarker, setPc, setHeld,
      setMem, setOption, setRequest, setSeen, setWanted, setSaved, setDisturbed, setMet, setLeft>>
BatVars ==
    <<batFiles, batPc, batBody, batRec, batState, batHave, batPiece, batTakes, batTemp,
      batOut, batBuf, batResult, batFaults>>
RanVars ==
    <<ranRanges, ranCovered, ranReceived, ranAsked, ranGot>>

\* The variables of a component this behavior is not of.
Off == "off"
SetOff ==
    /\ setWeb = Off /\ setRa = Off /\ setPending = Off /\ setProfile = Off
    /\ setInstalled = Off /\ setMarker = Off /\ setPc = Off /\ setHeld = Off /\ setMem = Off
    /\ setOption = Off /\ setRequest = Off /\ setSeen = Off /\ setWanted = Off
    /\ setSaved = Off /\ setDisturbed = Off /\ setMet = Off /\ setLeft = Off
BatOff ==
    /\ batFiles = Off /\ batPc = Off /\ batBody = Off /\ batRec = Off /\ batState = Off
    /\ batHave = Off /\ batPiece = Off /\ batTakes = Off /\ batTemp = Off /\ batOut = Off
    /\ batBuf = Off /\ batResult = Off /\ batFaults = Off
RanOff ==
    /\ ranRanges = Off /\ ranCovered = Off /\ ranReceived = Off /\ ranAsked = Off
    /\ ranGot = Off

MCInit ==
    \/ part = "uploads" /\ Init /\ SetOff /\ BatOff /\ RanOff
    \/ part = "settings" /\ Init /\ Set!Init /\ BatOff /\ RanOff
    \/ part = "batch" /\ Init /\ SetOff /\ Bat!Init /\ RanOff
    \/ part = "ranges" /\ Init /\ SetOff /\ BatOff /\ Ran!Init

MCNext ==
    /\ UNCHANGED part
    /\ \/ /\ part = "uploads" /\ Next /\ UNCHANGED SetVars /\ UNCHANGED BatVars /\ UNCHANGED RanVars
       \/ /\ part = "settings" /\ UNCHANGED vars /\ Set!Next /\ UNCHANGED BatVars /\ UNCHANGED RanVars
       \/ /\ part = "batch" /\ UNCHANGED vars /\ UNCHANGED SetVars /\ Bat!Next /\ UNCHANGED RanVars
       \/ /\ part = "ranges" /\ UNCHANGED vars /\ UNCHANGED SetVars /\ UNCHANGED BatVars /\ Ran!Next

MCVars == <<part, vars, SetVars, BatVars, RanVars>>
MCFairness ==
    /\ \A r \in Requests : WF_vars(part = "uploads" /\ Serve(r))
MCSpec == MCInit /\ [][MCNext]_MCVars /\ MCFairness


-----------------------------------------------------------------------------
ASSUME SetAssumption == Set!SettingsAssumption
ASSUME Bat!BatchAssumption /\ Ran!RangesAssumption

\* However RetroArch's own saves, its crashes and the pages' edits interleave, an option the
\* page was told is saved reaches the core, an account it saved signs in, and the password
\* it signed in with stays in no file (webui_ps5.cpp, ps5_cheevos.c).
SettingsAreKept == part = "settings" =>
    Set!TypeOK /\ Set!EditKept /\ Set!AccountKept /\ Set!PasswordForgotten

\* Whatever call fails and however a body is cut into pieces, a file is whole or not there,
\* the page calls no file uploaded that is not, as far as the names it is given go (64 failed
\* ones), and no hidden file is left (BatchUpload, BatchReader::feed, runBatch); each
\* byte of an upload is counted once, however its parts overlap, touch or repeat, and a
\* download in parts misses none (Session::add, parse_range).
FilesAreWhole ==
    /\ part = "batch" => Bat!TypeOK /\ Bat!WholeFiles /\ Bat!ToldAsItWas /\ Bat!NoPartLeft
    /\ part = "ranges" => Ran!TypeOK /\ Ran!EachByteOnce /\ Ran!PartsMakeTheFile

\* A request that does not ask to replace writes over no file, though two find its name free.
NeverOver == [][part = "batch" => Bat!NotOver]_BatVars
==============================================================================

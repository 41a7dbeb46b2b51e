------------------------------ MODULE MCDevices ------------------------------
(* Model checking of the devices: the audio driver, the microphone, the         *)
(* controllers and the network share, each on its own.  A behavior is one       *)
(* component's; part says whose.                                                *)
EXTENDS Audio

CONSTANTS
    MicGrain, MicCapacity, MicAsks, MicMaxSamples, MicMaxStarts, MicMaxMutes,           \* of Microphone
    PadUsers, PadStarter, PadLastPort, PadMaxLevel, PadWidth, PadLimit, PadBounds, PadParts,  \* of Input
    ShareLength, ShareBlock, ShareAsks, ShareMaxRead, ShareMaxDrops, ShareMaxFaults, ShareMaxCalls  \* of Smb

MCBounds == [sign |-> 2, reset |-> 1, dead |-> 2, close |-> 1, touch |-> 3, rumble |-> 3]

VARIABLES
    part,  \* the component this behavior is of
    micActive, micShutdown, micFailed, micInInput, micQueue, micHead, micCount, micSilent,
    micCapture, micCall, micAsleep, micNonblock, micMuted, micGiven, micSession, micMutes,
    padSigned, padPads, padMain, padLeaving, padTold, padFinger, padStylus, padPart, padLeft,
    shareUp, shareContext, shareContexts, shareHandle, sharePosition, shareOpened, shareDir,
    shareCall, shareCursor, shareAnswer, shareStage, shareLocal, shareCalls, shareDrops,
    shareFaults

Mic == INSTANCE Microphone WITH
    Grain <- MicGrain, Capacity <- MicCapacity, Asks <- MicAsks, MaxSamples <- MicMaxSamples,
    MaxStarts <- MicMaxStarts, MaxMutes <- MicMaxMutes, active <- micActive,
    shutdown <- micShutdown, failed <- micFailed, inInput <- micInInput, queue <- micQueue,
    head <- micHead, count <- micCount, silent <- micSilent, capture <- micCapture,
    call <- micCall, asleep <- micAsleep, nonblock <- micNonblock, muted <- micMuted,
    given <- micGiven, session <- micSession, mutes <- micMutes
Pad == INSTANCE Input WITH
    Users <- PadUsers, Starter <- PadStarter, LastPort <- PadLastPort, MaxLevel <- PadMaxLevel,
    Width <- PadWidth, Limit <- PadLimit, None <- "none", Bounds <- PadBounds,
    Parts <- PadParts, signed <- padSigned, pads <- padPads, main <- padMain,
    leaving <- padLeaving, told <- padTold, finger <- padFinger, stylus <- padStylus,
    part <- padPart, left <- padLeft
Share == INSTANCE Smb WITH
    Length <- ShareLength, Block <- ShareBlock, Asks <- ShareAsks, MaxRead <- ShareMaxRead,
    MaxDrops <- ShareMaxDrops, MaxFaults <- ShareMaxFaults, MaxCalls <- ShareMaxCalls,
    up <- shareUp, context <- shareContext, contexts <- shareContexts,
    handle <- shareHandle, position <- sharePosition, opened <- shareOpened,
    dir <- shareDir, call <- shareCall, cursor <- shareCursor, answer <- shareAnswer,
    stage <- shareStage, local <- shareLocal, calls <- shareCalls, drops <- shareDrops,
    faults <- shareFaults
MicVars ==
    <<micActive, micShutdown, micFailed, micInInput, micQueue, micHead, micCount, micSilent,
      micCapture, micCall, micAsleep, micNonblock, micMuted, micGiven, micSession, micMutes>>
PadVars ==
    <<padSigned, padPads, padMain, padLeaving, padTold, padFinger, padStylus, padPart,
      padLeft>>
ShareVars ==
    <<shareUp, shareContext, shareContexts, shareHandle, sharePosition, shareOpened,
      shareDir, shareCall, shareCursor, shareAnswer, shareStage, shareLocal, shareCalls,
      shareDrops, shareFaults>>

\* The variables of a component this behavior is not of.
Off == "off"
MicOff ==
    /\ micActive = Off /\ micShutdown = Off /\ micFailed = Off /\ micInInput = Off
    /\ micQueue = Off /\ micHead = Off /\ micCount = Off /\ micSilent = Off
    /\ micCapture = Off /\ micCall = Off /\ micAsleep = Off /\ micNonblock = Off
    /\ micMuted = Off /\ micGiven = Off /\ micSession = Off /\ micMutes = Off
PadOff ==
    /\ padSigned = Off /\ padPads = Off /\ padMain = Off /\ padLeaving = Off
    /\ padTold = Off /\ padFinger = Off /\ padStylus = Off /\ padPart = Off /\ padLeft = Off
ShareOff ==
    /\ shareUp = Off /\ shareContext = Off /\ shareContexts = Off /\ shareHandle = Off
    /\ sharePosition = Off /\ shareOpened = Off /\ shareDir = Off /\ shareCall = Off
    /\ shareCursor = Off /\ shareAnswer = Off /\ shareStage = Off /\ shareLocal = Off
    /\ shareCalls = Off /\ shareDrops = Off /\ shareFaults = Off

MCInit ==
    \/ part = "audio" /\ Init /\ MicOff /\ PadOff /\ ShareOff
    \/ part = "microphone" /\ Init /\ Mic!Init /\ PadOff /\ ShareOff
    \/ part = "input" /\ Init /\ MicOff /\ Pad!Init /\ ShareOff
    \/ part = "share" /\ Init /\ MicOff /\ PadOff /\ Share!Init

MCNext ==
    /\ UNCHANGED part
    /\ \/ /\ part = "audio" /\ Next /\ UNCHANGED MicVars /\ UNCHANGED PadVars /\ UNCHANGED ShareVars
       \/ /\ part = "microphone" /\ UNCHANGED vars /\ Mic!Next /\ UNCHANGED PadVars /\ UNCHANGED ShareVars
       \/ /\ part = "input" /\ UNCHANGED vars /\ UNCHANGED MicVars /\ Pad!Next /\ UNCHANGED ShareVars
       \/ /\ part = "share" /\ UNCHANGED vars /\ UNCHANGED MicVars /\ UNCHANGED PadVars /\ Share!Next

MCVars == <<part, vars, MicVars, PadVars, ShareVars>>
MCFairness ==
    /\ WF_vars(part = "audio" /\ DriverSteps)
    /\ WF_vars(part = "audio" /\ WorkerSteps)
    /\ WF_MicVars(part = "microphone" /\ Mic!CaptureStep)
    /\ WF_MicVars(part = "microphone" /\ Mic!CallStep)
    /\ WF_ShareVars(part = "share" /\ Share!ReadStep)
    /\ WF_ShareVars(part = "share" /\ Share!StageStep)
MCSpec == MCInit /\ [][MCNext]_MCVars /\ MCFairness


-----------------------------------------------------------------------------
ASSUME DevicesAssumption == Mic!MicrophoneAssumption /\ Pad!InputAssumption /\ Share!SmbAssumption

\* The rumble a core asked for last is the one felt once the controller answers, no motion
\* of a touch is lost to its cap, and the ports are the users' (input_ps5.cpp).
InputIsKept == part = "input" => Pad!TypeOK /\ Pad!RumbleIsFelt /\ Pad!MotionKept /\ Pad!PortsAreUsers

\* A read gets what a device or a share has to give, in order and once: the microphone's
\* samples as they were captured, none from before the stop or the mute it follows
\* (microphone_ps5.cpp); the bytes a local file would give, whatever the connection does, a
\* staged copy that is whole or not there, and no context leaked (ps5_smb_vfs.c).
MicrophoneKeepsOrder == Mic!TypeOK /\ Mic!InOrder /\ Mic!MutedIsSilent /\ Mic!StopForgets
ShareReadsAsLocal == Share!TypeOK /\ Share!ReadsAsLocal /\ Share!StagedIsWhole /\ Share!NothingLeaks
ReadsKeepOrder ==
    /\ part = "microphone" => MicrophoneKeepsOrder
    /\ part = "share" => ShareReadsAsLocal

\* Every call of the three drivers returns: a blocked write or read is woken, a share that
\* is gone is given up.
DevicesReturn ==
    /\ CallsReturn
    /\ (part = "microphone" /\ micCall.op \in {"stop", "read", "close"})
            ~> (part # "microphone" \/ micCall.op \in {"none", "closed"})
    /\ []<>(part = "share" => Share!Idle)
==============================================================================

----------------------------- MODULE Microphone -----------------------------
(* src/src/microphone_ps5.cpp: the capture thread puts the grains the console's *)
(* port gives into a ring, the frontend's one thread starts, stops, reads and   *)
(* closes.  A section under m->lock that does not wait is one step; a thread    *)
(* that waits on m->changed sleeps until a broadcast.                           *)
EXTENDS Naturals, Sequences, FiniteSets

CONSTANTS
    Grain,       \* samples in a grain
    Capacity,    \* samples in the ring
    Asks,        \* how many samples a read may want
    MaxSamples,  \* bound: the samples the port gives
    MaxStarts,   \* bound: the starts
    MaxMutes     \* bound: how often the user mutes or unmutes

MicrophoneAssumption ==
    /\ {Grain, Capacity, MaxSamples} \subseteq Nat \ {0} /\ {MaxStarts, MaxMutes} \subseteq Nat
    /\ Grain <= Capacity /\ Asks \subseteq Nat \ {0}

VARIABLES
    active, shutdown, failed, inInput,  \* Mic's flags
    queue, head, count,  \* Mic's ring
    silent,      \* silent_state: the mute was on when the last grain was queued
    capture,     \* where the capture thread is, and the grain it holds
    call,        \* the frontend's call, and what it has copied
    asleep,      \* the threads that wait for a broadcast
    nonblock,    \* Driver::nonblock
    muted,       \* the console's mute
    given,       \* samples the port has given
    session,     \* starts so far
    mutes        \* mutes so far

ring  == <<queue, head, count>>
flags == <<active, shutdown, failed, inInput>>
vars  == <<flags, ring, silent, capture, call, asleep, nonblock, muted, given, session, mutes>>

\* A sample: which one, whether it holds speech, in which session it was captured.
NoSample == [n |-> 0, speech |-> FALSE, session |-> 0]
Samples  == [n : 0 .. MaxSamples, speech : BOOLEAN, session : 0 .. MaxStarts]
Cleared  == [i \in 0 .. Capacity - 1 |-> NoSample]
At(i)    == (head + i) % Capacity
Queued   == {queue[At(i)] : i \in 0 .. count - 1}

TypeOK ==
    /\ {active, shutdown, failed, inInput, silent, nonblock, muted} \subseteq BOOLEAN
    /\ queue \in [0 .. Capacity - 1 -> Samples] /\ head \in 0 .. Capacity - 1 /\ count \in 0 .. Capacity
    /\ capture.pc \in {"begin", "input", "state", "store", "ended"}
    /\ call.op \in {"none", "stop", "read", "close", "closed"} /\ asleep \subseteq {"capture", "frontend"}

NoCall == [op |-> "none", wanted |-> 0, out |-> <<>>]

\* open_mic: the port is open, the thread runs, nothing is captured yet.
Init ==
    /\ active = FALSE /\ shutdown = FALSE /\ failed = FALSE /\ inInput = FALSE
    /\ queue = Cleared /\ head = 0 /\ count = 0 /\ silent = FALSE
    /\ capture = [pc |-> "begin", pcm |-> <<>>, silent |-> FALSE, result |-> TRUE]
    /\ call = NoCall /\ asleep = {} /\ nonblock = FALSE /\ muted = FALSE
    /\ given = 0 /\ session = 0 /\ mutes = 0

BroadcastNot == UNCHANGED asleep  \* mutant
Broadcast == asleep' = {}
Sleep(t)  == asleep' = asleep \cup {t}
Forget    == queue' = Cleared /\ head' = 0 /\ count' = 0

-------------------------------------------------------------------------------
(* The capture thread. *)

\* The loop's head, under the lock: it ends, sleeps until it is started, or asks for a grain.
CaptureBegin ==
    /\ capture.pc = "begin" /\ "capture" \notin asleep
    /\ \/ /\ shutdown \/ failed
          /\ capture' = [capture EXCEPT !.pc = "ended"] /\ Broadcast /\ UNCHANGED inInput
       \/ /\ ~shutdown /\ ~failed /\ ~active /\ Sleep("capture") /\ UNCHANGED <<capture, inInput>>
       \/ /\ ~shutdown /\ ~failed /\ active /\ inInput' = TRUE
          /\ capture' = [capture EXCEPT !.pc = "input"] /\ UNCHANGED asleep
    /\ UNCHANGED <<active, shutdown, failed, ring, silent, call, nonblock, muted, given, session, mutes>>

\* sceAudioInInput, without the lock: a grain of what is said, silence under the mute; or an error.
Input ==
    /\ capture.pc = "input"
    /\ \/ /\ given + Grain <= MaxSamples /\ given' = given + Grain
          /\ \E speech \in BOOLEAN : capture' = [pc |-> "state", silent |-> FALSE, result |-> TRUE,
                pcm |-> [i \in 1 .. Grain |->
                            [n |-> given + i, speech |-> speech /\ ~muted, session |-> session]]]
       \/ capture' = [capture EXCEPT !.pc = "store", !.result = FALSE] /\ UNCHANGED given
    /\ UNCHANGED <<flags, ring, silent, call, asleep, nonblock, muted, session, mutes>>

\* sceAudioInGetSilentState: the mute as it is now.
SilentState ==
    /\ capture.pc = "state" /\ capture' = [capture EXCEPT !.pc = "store", !.silent = muted]
    /\ UNCHANGED <<flags, ring, silent, call, asleep, nonblock, muted, given, session, mutes>>

\* A grain of silence when it is muted, and nothing said before when that is news.
Muted   == [i \in DOMAIN capture.pcm |-> [capture.pcm[i] EXCEPT !.speech = FALSE]]
Pcm     == IF capture.silent THEN Muted ELSE capture.pcm
ClearsNot == FALSE  \* mutant
Clears  == capture.silent /\ capture.silent # silent
\* What the ring is before the grain: emptied, or with its oldest samples dropped.
Held    == IF Clears THEN 0 ELSE count
Discard == IF Grain > Capacity - Held THEN Grain - (Capacity - Held) ELSE 0
FirstKept == IF Clears THEN 0 ELSE head  \* mutant
First   == IF Clears THEN 0 ELSE (head + Discard) % Capacity

Stores == active /\ ~shutdown

Store ==
    /\ capture.pc = "store" /\ inInput' = FALSE /\ Broadcast
    /\ capture' = [pc |-> "begin", pcm |-> <<>>, silent |-> FALSE, result |-> TRUE]
    /\ failed' = (failed \/ ~capture.result)
    /\ IF capture.result /\ Stores
       THEN /\ silent' = capture.silent /\ head' = First /\ count' = Held - Discard + Grain
            /\ LET tail == (First + Held - Discard) % Capacity IN
               queue' = [i \in 0 .. Capacity - 1 |->
                            LET k == (i + Capacity - tail) % Capacity IN
                            IF k < Grain THEN Pcm[k + 1] ELSE IF Clears THEN NoSample ELSE queue[i]]
       ELSE UNCHANGED <<ring, silent>>
    /\ UNCHANGED <<active, shutdown, call, nonblock, muted, given, session, mutes>>

-------------------------------------------------------------------------------
(* The frontend's thread: set_active, read, close_mic and set_nonblock. *)

WaitsNot == FALSE  \* mutant
Waits == inInput

Idle == call.op = "none"

Start ==
    /\ Idle /\ session < MaxStarts
    /\ ~failed /\ ~active /\ active' = TRUE /\ session' = session + 1 /\ Forget /\ Broadcast
    /\ UNCHANGED <<shutdown, failed, inInput, silent, capture, call, nonblock, muted, given, mutes>>

\* set_active(false) empties the ring, then waits for the grain on its way, if any.
Stop ==
    /\ Idle /\ ~failed /\ active /\ active' = FALSE /\ Forget
    /\ asleep' = IF Waits THEN {"frontend"} ELSE {}
    /\ call' = [NoCall EXCEPT !.op = IF Waits THEN "stop" ELSE "none"]
    /\ UNCHANGED <<shutdown, failed, inInput, silent, capture, nonblock, muted, given, session, mutes>>

StopWaits ==
    /\ call.op = "stop" /\ "frontend" \notin asleep
    /\ IF Waits THEN Sleep("frontend") /\ UNCHANGED call ELSE call' = NoCall /\ UNCHANGED asleep
    /\ UNCHANGED <<flags, ring, silent, capture, nonblock, muted, given, session, mutes>>

AskRead(n) ==
    /\ Idle /\ session > 0 /\ call' = [op |-> "read", wanted |-> n, out |-> <<>>]
    /\ UNCHANGED <<flags, ring, silent, capture, asleep, nonblock, muted, given, session, mutes>>

\* One turn of read's loop: it gives up, sleeps for a grain, or copies what there is.
Room  == call.wanted - Len(call.out)
Taken == IF Room < count THEN Room ELSE count

Read ==
    /\ call.op = "read" /\ "frontend" \notin asleep
    /\ \/ /\ Room = 0 \/ failed \/ ~active \/ (count = 0 /\ nonblock)
          /\ call' = NoCall /\ UNCHANGED <<asleep, ring>>
       \/ /\ Room > 0 /\ ~failed /\ active /\ count = 0 /\ ~nonblock
          /\ Sleep("frontend") /\ UNCHANGED <<call, ring>>
       \/ /\ Room > 0 /\ ~failed /\ active /\ count > 0
          /\ call' = [call EXCEPT !.out = @ \o [i \in 1 .. Taken |-> queue[At(i - 1)]]]
          /\ head' = At(Taken) /\ count' = count - Taken /\ UNCHANGED <<queue, asleep>>
    /\ UNCHANGED <<flags, silent, capture, nonblock, muted, given, session, mutes>>

\* close_mic: it asks the thread to end, joins it, then closes the port and forgets the ring.
Close ==
    /\ Idle /\ call' = [NoCall EXCEPT !.op = "close"]
    /\ shutdown' = TRUE /\ active' = FALSE /\ Broadcast
    /\ UNCHANGED <<failed, inInput, ring, silent, capture, nonblock, muted, given, session, mutes>>

Joined ==
    /\ call.op = "close" /\ capture.pc = "ended" /\ call' = [call EXCEPT !.op = "closed"] /\ Forget
    /\ UNCHANGED <<flags, silent, capture, asleep, nonblock, muted, given, session, mutes>>

SetNonblock ==
    /\ Idle /\ nonblock' = ~nonblock
    /\ UNCHANGED <<flags, ring, silent, capture, call, asleep, muted, given, session, mutes>>

\* The user's mute button.
Mute ==
    /\ mutes < MaxMutes /\ mutes' = mutes + 1 /\ muted' = ~muted
    /\ UNCHANGED <<flags, ring, silent, capture, call, asleep, nonblock, given, session>>

CaptureStep == CaptureBegin \/ Input \/ SilentState \/ Store
CallStep    == StopWaits \/ Read \/ Joined

Next ==
    \/ CaptureStep \/ CallStep \/ Start \/ Stop \/ Close \/ SetNonblock \/ Mute
    \/ \E n \in Asks : AskRead(n)

\* The thread runs, the port answers (with a grain or an error), a woken caller goes on.
Fairness == WF_vars(CaptureStep) /\ WF_vars(CallStep)
Spec == Init /\ [][Next]_vars /\ Fairness

-------------------------------------------------------------------------------
(* Properties *)

\* Once the capture thread has met the mute, nothing said before it is left to read: mute
\* "must never leak queued speech" (src/src/microphone_ps5.cpp:77).
MutedIsSilent == silent => \A s \in Queued : ~s.speech

\* What is read was captured since the last start: a grain on its way when the microphone
\* is stopped is not heard when it is started again (src/src/microphone_ps5.cpp:247).
StopForgets == \A s \in Queued : s.session = session

\* The ring gives the newest samples once each and in order, wherever it wraps and however a
\* read's length and a grain's differ; only the oldest are dropped.
InOrder ==
    LET s == call.out \o [i \in 1 .. count |-> queue[At(i - 1)]] IN
    /\ \A i, j \in DOMAIN s : i < j => s[i].n < s[j].n
    /\ \A i \in 2 .. count : queue[At(i - 1)].n = queue[At(i - 2)].n + 1

\* A stop, a read and a close end: no one sleeps through the broadcast it needs.
MicCallsReturn == call.op \in {"stop", "read", "close"} ~> call.op \in {"none", "closed"}
=============================================================================

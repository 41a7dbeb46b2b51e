-------------------------------- MODULE Audio --------------------------------
(***************************************************************************)
(* The audio driver (src/audio_ps5.cpp): RetroArch's thread writes frames  *)
(* into a ring, and a worker gives them to AudioOut a grain at a time.     *)
(* One mutex and one condition variable, always broadcast, join the two;   *)
(* a critical section is one step here, AudioOut's calls are outside it.   *)
(***************************************************************************)
EXTENDS Integers, Sequences, FiniteSets

CONSTANTS
    Grain, Capacity,  \* frames in one output, and in the ring
    MaxWrite,         \* bound: the frames of one write
    MaxFrames         \* bound: the frames accepted between init and free

ASSUME AudioAssumption ==
    /\ Grain \in Nat \ {0} /\ Capacity \in Nat /\ Capacity >= 2 * Grain
    /\ MaxWrite \in Nat /\ MaxFrames \in Nat

VARIABLES
    ring, head, count,          \* the ring: frame numbers, in slots 0..Capacity-1
    active, shutdown, failed, nonblock, in_output,
    accepted, played, discarded,
    output, frames,             \* the worker's block, and the frames in it
    waiting,                    \* the threads in pthread_cond_wait
    driver, want,               \* RetroArch's thread; the frames its write has left
    worker

queue == <<ring, head, count>>
flags == <<active, shutdown, failed, nonblock, in_output>>
vars  == <<queue, flags, accepted, played, discarded, output, frames, waiting,
           driver, want, worker>>

Slots == 0..(Capacity - 1)

TypeOK ==
    /\ ring \in [Slots -> 0..MaxFrames]
    /\ head \in Slots /\ count \in 0..Capacity
    /\ active \in BOOLEAN /\ shutdown \in BOOLEAN /\ failed \in BOOLEAN
    /\ nonblock \in BOOLEAN /\ in_output \in BOOLEAN
    /\ accepted \in 0..MaxFrames /\ played \in 0..MaxFrames /\ discarded \in 0..MaxFrames
    /\ output \in Seq(0..MaxFrames) /\ frames \in 0..Grain
    /\ waiting \in SUBSET {"driver", "worker"}
    /\ driver \in {"idle", "write", "stop", "drain", "join", "close", "closed"}
    /\ want \in 0..MaxWrite
    /\ worker \in {"loop", "paused", "output", "exit"}

\* audio_init() gives the driver this state, each time RetroArch opens it.
Opened ==
    [ring |-> [s \in Slots |-> 0], head |-> 0, count |-> 0, active |-> TRUE,
     shutdown |-> FALSE, failed |-> FALSE, nonblock |-> FALSE, in_output |-> FALSE,
     accepted |-> 0, played |-> 0, discarded |-> 0, output |-> <<>>, frames |-> 0,
     waiting |-> {}, driver |-> "idle", want |-> 0, worker |-> "loop"]

Init ==
    /\ ring = Opened.ring /\ head = 0 /\ count = 0
    /\ active = TRUE /\ shutdown = FALSE /\ failed = FALSE /\ nonblock = FALSE
    /\ in_output = FALSE /\ accepted = 0 /\ played = 0 /\ discarded = 0
    /\ output = <<>> /\ frames = 0 /\ waiting = {}
    /\ driver = "idle" /\ want = 0 /\ worker = "loop"

Broadcast == waiting' = {}
Runs(t)   == t \notin waiting
Minimum(a, b) == IF a < b THEN a ELSE b

-----------------------------------------------------------------------------
(* RetroArch's thread.                                                     *)

SlotOffByOne(i) == (head + i) % (Capacity - 1)  \* mutant
Slot(i) == (head + i) % Capacity
FreeOneMore == Capacity - count + 1             \* mutant
Free == Capacity - count

\* The first k frames of the write go behind the ring's.
Put(k) ==
    /\ ring' = [s \in Slots |->
                  IF \E i \in 0..(k - 1) : s = Slot(count + i)
                  THEN accepted + (CHOOSE i \in 0..(k - 1) : s = Slot(count + i))
                  ELSE ring[s]]
    /\ count' = count + k /\ accepted' = accepted + k
    /\ UNCHANGED head

BeginWrite(n) ==
    /\ driver = "idle" /\ accepted + n <= MaxFrames
    /\ want' = n /\ driver' = "write"
    /\ UNCHANGED <<queue, flags, accepted, played, discarded, output, frames,
                   waiting, worker>>

\* audio_write()'s loop, up to where it waits or returns.
Write ==
    /\ driver = "write" /\ Runs("driver")
    /\ \/ /\ failed \/ shutdown \/ ~active
          /\ driver' = "idle" /\ want' = 0
          /\ UNCHANGED <<queue, accepted, waiting>>
       \/ /\ ~failed /\ ~shutdown /\ active
          /\ LET k == Minimum(want, Free) IN
              /\ Put(k)
              /\ IF k = want \/ nonblock
                 THEN driver' = "idle" /\ want' = 0
                 ELSE UNCHANGED driver /\ want' = want - k
              /\ waiting' = (IF k > 0 THEN {} ELSE waiting)
                            \cup (IF k = want \/ nonblock THEN {} ELSE {"driver"})
    /\ UNCHANGED <<flags, played, discarded, output, frames, worker>>

OutputIgnored == TRUE                           \* mutant
OutputOver == ~in_output
DroppedUncounted == discarded                   \* mutant
Dropped == discarded + count

\* audio_stop(): what is queued is dropped, and the worker's block awaited.
Stop ==
    /\ driver = "idle"
    /\ active' = FALSE
    /\ discarded' = Dropped /\ count' = 0 /\ head' = 0
    /\ IF OutputOver THEN driver' = "drain" /\ Broadcast
                     ELSE driver' = "stop" /\ waiting' = {"driver"}
    /\ UNCHANGED <<ring, shutdown, failed, nonblock, in_output, accepted, played,
                   output, frames, want, worker>>

StopWait ==
    /\ driver = "stop" /\ Runs("driver")
    /\ IF OutputOver THEN driver' = "drain" /\ UNCHANGED waiting
                     ELSE waiting' = waiting \cup {"driver"} /\ UNCHANGED driver
    /\ UNCHANGED <<queue, flags, accepted, played, discarded, output, frames,
                   want, worker>>

\* AudioOut drains, outside the mutex; a failure is kept, but not broadcast.
Drain ==
    /\ driver = "drain"
    /\ driver' = "idle"
    /\ failed' \in {failed, TRUE}
    /\ UNCHANGED <<queue, active, shutdown, nonblock, in_output, accepted, played,
                   discarded, output, frames, waiting, want, worker>>

\* audio_start()
Start ==
    /\ driver = "idle"
    /\ active' = (active \/ (~shutdown /\ ~failed))
    /\ Broadcast
    /\ UNCHANGED <<queue, shutdown, failed, nonblock, in_output, accepted, played,
                   discarded, output, frames, driver, want, worker>>

SetNonblock(enabled) ==
    /\ driver = "idle"
    /\ nonblock' = enabled
    /\ Broadcast
    /\ UNCHANGED <<queue, active, shutdown, failed, in_output, accepted, played,
                   discarded, output, frames, driver, want, worker>>

\* destroy(): the worker is told and joined, then AudioOut drained and closed.
Destroy ==
    /\ driver = "idle"
    /\ shutdown' = TRUE
    /\ discarded' = Dropped /\ count' = 0
    /\ driver' = "join"
    /\ Broadcast
    /\ UNCHANGED <<ring, head, active, failed, nonblock, in_output, accepted,
                   played, output, frames, want, worker>>

Join ==
    /\ driver = "join" /\ worker = "exit"
    /\ driver' = "close"
    /\ UNCHANGED <<queue, flags, accepted, played, discarded, output, frames,
                   waiting, want, worker>>

Close ==
    /\ driver = "close"
    /\ driver' = "closed"
    /\ UNCHANGED <<queue, flags, accepted, played, discarded, output, frames,
                   waiting, want, worker>>

\* RetroArch opens its audio driver again.
Reopen ==
    /\ driver = "closed"
    /\ ring' = Opened.ring /\ head' = 0 /\ count' = 0
    /\ active' = TRUE /\ shutdown' = FALSE /\ failed' = FALSE /\ nonblock' = FALSE
    /\ in_output' = FALSE /\ accepted' = 0 /\ played' = 0 /\ discarded' = 0
    /\ output' = <<>> /\ frames' = 0 /\ waiting' = {}
    /\ driver' = "idle" /\ want' = 0 /\ worker' = "loop"

-----------------------------------------------------------------------------
(* worker()                                                                *)

\* The next grain leaves the ring; its end is filled with silence.
Take ==
    LET k == Minimum(count, Grain) IN
    /\ output' = [i \in 1..k |-> ring[Slot(i - 1)]]
    /\ frames' = k
    /\ head' = Slot(k) /\ count' = count - k
    /\ in_output' = TRUE /\ worker' = "output"
    /\ Broadcast
    /\ UNCHANGED ring

Pause == worker' = "paused" /\ waiting' = waiting \cup {"worker"}

LeavesOnFailure == worker = "loop" /\ failed    \* mutant
Leaves == shutdown \/ (worker = "loop" /\ failed)

\* Woken, it looks at active and shutdown again, not at failed.
WorkerLoop ==
    /\ worker \in {"loop", "paused"} /\ Runs("worker")
    /\ \/ /\ Leaves
          /\ worker' = "exit"
          /\ UNCHANGED <<head, count, output, frames, in_output, waiting>>
       \/ /\ ~Leaves /\ ~active /\ ~shutdown
          /\ Pause
          /\ UNCHANGED <<head, count, output, frames, in_output>>
       \/ /\ ~Leaves /\ (active \/ shutdown)
          /\ Take
    /\ UNCHANGED <<ring, active, shutdown, failed, nonblock, accepted, played,
                   discarded, driver, want>>

\* AudioOut returns: the block was played, or the driver has failed.
OutputDone ==
    /\ worker = "output"
    /\ \/ played' = played + frames /\ UNCHANGED <<discarded, failed>>
       \/ discarded' = discarded + frames /\ failed' = TRUE /\ UNCHANGED played
    /\ in_output' = FALSE /\ frames' = 0
    /\ worker' = "loop"
    /\ Broadcast
    /\ UNCHANGED <<queue, active, shutdown, nonblock, accepted, output, driver, want>>

-----------------------------------------------------------------------------
DriverSteps == Write \/ StopWait \/ Drain \/ Join \/ Close
WorkerSteps == WorkerLoop \/ OutputDone

Next == \/ \E n \in 1..MaxWrite : BeginWrite(n)
        \/ Stop \/ Start \/ Destroy \/ Reopen
        \/ \E enabled \in BOOLEAN : SetNonblock(enabled)
        \/ DriverSteps \/ WorkerSteps

\* A call under way runs on, and so does the worker: AudioOut returns.
Spec == Init /\ [][Next]_vars /\ WF_vars(DriverSteps) /\ WF_vars(WorkerSteps)

-----------------------------------------------------------------------------
Queued == [i \in 1..count |-> ring[Slot(i - 1)]]

FIFO == INSTANCE AudioQueue WITH queue <- Queued, next <- accepted
\* The ring is a bounded queue: whatever the writes' sizes and wherever they
\* wrap, AudioOut is given the frames written, in order.
RingIsAQueue == FIFO!Spec

\* No frame is lost or counted twice: the line destroy() prints adds up.
FramesConserved == accepted = played + discarded + count + frames

\* AudioOut's one port is never called by both threads at once: a drain and a
\* close wait until the worker is out of its output.
OneOutputAtATime == driver \in {"drain", "close"} => worker # "output"

\* Every call returns: a blocked write is woken by the worker or by a failure,
\* a stop by the end of the output, a free by the worker's exit.
CallsReturn == driver \in {"write", "stop", "drain", "join", "close"}
                   ~> driver \in {"idle", "closed"}
=============================================================================

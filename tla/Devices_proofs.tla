---------------------------- MODULE Devices_proofs ----------------------------
(***************************************************************************)
(* Proofs about the devices: the audio driver, the network share, the      *)
(* controllers and the microphone, for rings, grains, files and users of   *)
(* any number.                                                             *)
(***************************************************************************)
EXTENDS MCDevices, SequenceTheorems, TLAPS

\* What a write has left stays within the bound on frames, which keeps the
\* ring's frame numbers in their range.
Bounded == accepted + want <= MaxFrames

\* The worker's block: in_output says when AudioOut has it.
BlockInv == /\ in_output <=> worker = "output"
            /\ worker # "output" => frames = 0

\* A thread that is about to use AudioOut's port has seen the worker off it.
PortInv == /\ driver \in {"stop", "drain"} => ~active
           /\ driver = "drain" => worker # "output"
           /\ driver \in {"close", "closed"} => worker = "exit"

IInv == TypeOK /\ Bounded /\ FramesConserved /\ BlockInv /\ PortInv

-----------------------------------------------------------------------------
(* The ring.                                                               *)

LEMMA Wraps ==
    ASSUME NEW c \in Nat, c > 0, NEW x \in Nat
    PROVE  /\ x < c => x % c = x /\ (x + c) % c = x
           /\ x % c \in 0..(c - 1)
<1>1. x < c => x % c = x
  OBVIOUS
<1>2. x < c => (x + c) % c = x
  OBVIOUS
<1>3. x % c \in 0..(c - 1)
  OBVIOUS
<1>. QED BY <1>1, <1>2, <1>3

\* A slot i frames after slot h: the ring wraps at most once.
LEMMA WrapsOnce ==
    ASSUME NEW h \in Slots, NEW i \in 0..Capacity
    PROVE  /\ (h + i) % Capacity = IF h + i < Capacity THEN h + i ELSE h + i - Capacity
           /\ (h + i) % Capacity \in Slots
<1>1. h \in Nat /\ i \in Nat /\ Capacity \in Nat /\ Capacity > 0
  BY AudioAssumption DEF Slots
<1>2. CASE h + i < Capacity
  BY <1>1, <1>2, Wraps DEF Slots
<1>3. CASE ~(h + i < Capacity)
  <2>. DEFINE x == h + i - Capacity
  <2>1. x \in Nat /\ x < Capacity /\ h + i = x + Capacity
    BY <1>1, <1>3 DEF Slots
  <2>2. (x + Capacity) % Capacity = x
    <3>. HIDE DEF x
    <3>. QED BY <1>1, <2>1, Wraps
  <2>. QED BY <1>1, <1>3, <2>1, <2>2 DEF Slots
<1>. QED BY <1>2, <1>3

LEMMA SlotWraps ==
    ASSUME TypeOK, NEW i \in 0..Capacity
    PROVE  /\ Slot(i) = IF head + i < Capacity THEN head + i ELSE head + i - Capacity
           /\ Slot(i) \in Slots
<1>. QED BY WrapsOnce DEF TypeOK, Slot

\* No two frames of a full ring share a slot.
LEMMA SlotsDiffer ==
    ASSUME TypeOK, NEW i \in 0..(Capacity - 1), NEW j \in 0..(Capacity - 1),
           Slot(i) = Slot(j)
    PROVE  i = j
<1>1. /\ i \in 0..Capacity /\ j \in 0..Capacity /\ head \in 0..(Capacity - 1)
  BY AudioAssumption DEF TypeOK, Slots
<1>. QED BY <1>1, SlotWraps, AudioAssumption

\* k frames on, the slots are those of the frames that follow.
LEMMA SlotsShift ==
    ASSUME TypeOK, NEW k \in 0..Capacity, NEW i \in 0..Capacity, k + i <= Capacity
    PROVE  (Slot(k) + i) % Capacity = Slot(k + i)
<1>1. Slot(k) \in Slots /\ Slot(k) = IF head + k < Capacity THEN head + k
                                     ELSE head + k - Capacity
  BY SlotWraps
<1>2. k + i \in 0..Capacity
  BY AudioAssumption
<1>3. Slot(k + i) = IF head + (k + i) < Capacity THEN head + (k + i)
                    ELSE head + (k + i) - Capacity
  BY <1>2, SlotWraps
<1>4. (Slot(k) + i) % Capacity = IF Slot(k) + i < Capacity THEN Slot(k) + i
                                 ELSE Slot(k) + i - Capacity
  <2>. HIDE DEF Slot
  <2>. QED BY <1>1, WrapsOnce
<1>5. head \in 0..(Capacity - 1)
  BY DEF TypeOK, Slots
<1>. DEFINE t == Slot(k)
<1>. HIDE DEF t, TypeOK
<1>6. t = IF head + k < Capacity THEN head + k ELSE head + k - Capacity
  BY <1>1 DEF t
<1>7. (t + i) % Capacity = IF t + i < Capacity THEN t + i ELSE t + i - Capacity
  BY <1>4 DEF t
<1>8. (t + i) % Capacity = Slot(k + i)
  BY <1>3, <1>5, <1>6, <1>7, AudioAssumption
<1>. QED BY <1>8 DEF t

-----------------------------------------------------------------------------
(* The invariant.                                                          *)

LEMMA InitInv == Init => IInv
  BY AudioAssumption
     DEF Init, IInv, TypeOK, Bounded, FramesConserved, BlockInv, PortInv, Slots, Opened

\* The flags, and their types at each step.
Flagged == /\ active \in BOOLEAN /\ shutdown \in BOOLEAN /\ failed \in BOOLEAN
           /\ nonblock \in BOOLEAN /\ in_output \in BOOLEAN

LEMMA FlagStep == Flagged /\ [Next]_vars => Flagged'
<1>. SUFFICES ASSUME Flagged, [Next]_vars PROVE Flagged'
  OBVIOUS
<1>1. CASE UNCHANGED flags
  BY <1>1 DEF Flagged, flags
<1>2. CASE Stop
  BY <1>2 DEF Flagged, Stop
<1>3. CASE Start
  BY <1>3 DEF Flagged, Start
<1>4. CASE Destroy
  BY <1>4 DEF Flagged, Destroy
<1>5. CASE Reopen
  BY <1>5 DEF Flagged, Reopen
<1>6. ASSUME NEW enabled \in BOOLEAN, SetNonblock(enabled) PROVE Flagged'
  BY <1>6 DEF Flagged, SetNonblock
<1>7. CASE Drain
  BY <1>7 DEF Flagged, Drain
<1>8. CASE WorkerLoop
  BY <1>8 DEF Flagged, WorkerLoop, Pause, Take
<1>9. CASE OutputDone
  BY <1>9 DEF Flagged, OutputDone
<1>10. (\E n \in 1..MaxWrite : BeginWrite(n)) \/ Write \/ StopWait \/ Join \/ Close
       \/ UNCHANGED vars => UNCHANGED flags
  BY DEF BeginWrite, Write, StopWait, Join, Close, vars
<1>. QED
  BY <1>1, <1>2, <1>3, <1>4, <1>5, <1>6, <1>7, <1>8, <1>9, <1>10
     DEF Next, DriverSteps, WorkerSteps

LEMMA InvStep == IInv /\ [Next]_vars => IInv'
<1>. SUFFICES ASSUME IInv, [Next]_vars PROVE IInv'
  OBVIOUS
<1>0. /\ active' \in BOOLEAN /\ shutdown' \in BOOLEAN /\ failed' \in BOOLEAN
      /\ nonblock' \in BOOLEAN /\ in_output' \in BOOLEAN
  BY FlagStep DEF IInv, TypeOK, Flagged
<1>. USE AudioAssumption
     DEF IInv, TypeOK, Bounded, FramesConserved, BlockInv, PortInv, Slots,
         queue, flags, Broadcast, Runs, Dropped, OutputOver
<1>1. ASSUME NEW n \in 1..MaxWrite, BeginWrite(n) PROVE IInv'
  BY <1>1 DEF BeginWrite
<1>2. CASE Write
  <2>1. CASE failed \/ shutdown \/ ~active
    <3>1. /\ driver' = "idle" /\ want' = 0
          /\ UNCHANGED <<queue, accepted, waiting>>
          /\ UNCHANGED <<flags, played, discarded, output, frames, worker>>
      BY <1>2, <2>1 DEF Write
    <3>. QED BY <3>1
  <2>2. CASE ~failed /\ ~shutdown /\ active
    <3>. DEFINE k == Minimum(want, Free)
    <3>1. k \in 0..want /\ count + k <= Capacity
      BY DEF Minimum, Free
    <3>2. Put(k) /\ UNCHANGED <<flags, played, discarded, output, frames, worker>>
      BY <1>2, <2>2 DEF Write
    <3>3. /\ \/ driver' = "idle" /\ want' = 0
             \/ driver' = "write" /\ want' = want - k
          /\ waiting' \in SUBSET {"driver", "worker"}
      <4>. HIDE DEF k, IInv, TypeOK, Bounded, FramesConserved, BlockInv, PortInv
      <4>1. waiting \in SUBSET {"driver", "worker"}
        BY DEF IInv, TypeOK
      <4>2. /\ IF k = want \/ nonblock
                THEN driver' = "idle" /\ want' = 0
                ELSE UNCHANGED driver /\ want' = want - k
            /\ waiting' = (IF k > 0 THEN {} ELSE waiting)
                            \cup (IF k = want \/ nonblock THEN {} ELSE {"driver"})
            /\ driver = "write"
        BY <1>2, <2>2 DEF Write, k
      <4>. QED BY <4>1, <4>2
    <3>4. ring' \in [Slots -> 0..MaxFrames]
      <4>1. ring' = [t \in Slots |->
                       IF \E i \in 0..(k - 1) : t = Slot(count + i)
                       THEN accepted + (CHOOSE i \in 0..(k - 1) : t = Slot(count + i))
                       ELSE ring[t]]
        BY <3>2 DEF Put
      <4>2. ASSUME NEW i \in 0..(k - 1) PROVE accepted + i \in 0..MaxFrames
        <5>. HIDE DEF k
        <5>. QED BY <3>1, <4>2
      <4>3. ASSUME NEW t \in Slots, \E i \in 0..(k - 1) : t = Slot(count + i)
            PROVE  (CHOOSE i \in 0..(k - 1) : t = Slot(count + i)) \in 0..(k - 1)
        BY <4>3
      <4>. HIDE DEF k
      <4>. QED BY <4>1, <4>2, <4>3
    <3>5. /\ head' = head /\ count' = count + k /\ accepted' = accepted + k
      BY <3>2 DEF Put
    <3>. HIDE DEF k
    <3>6. /\ count' \in 0..Capacity /\ accepted' \in 0..MaxFrames
          /\ want' \in 0..MaxWrite /\ driver' \in {"idle", "write"}
          /\ accepted' + want' <= MaxFrames
      BY <3>1, <3>3, <3>5
    <3>7. TypeOK'
      BY <1>0, <3>2, <3>3, <3>4, <3>5, <3>6
    <3>8. FramesConserved' /\ Bounded'
      <4>1. accepted \in Nat /\ count \in Nat /\ k \in Nat
        BY <3>1
      <4>2. FramesConserved'
        BY <3>2, <3>5, <4>1
      <4>. QED BY <3>6, <4>2
    <3>9. driver = "write"
      BY <1>2 DEF Write
    <3>. QED BY <3>2, <3>6, <3>7, <3>8, <3>9
  <2>. QED BY <2>1, <2>2
<1>3. CASE Stop
  <2>1. discarded' = discarded + count /\ count' = 0 /\ head' = 0
    BY <1>3 DEF Stop
  <2>2. /\ driver' \in {"stop", "drain"} /\ waiting' \in SUBSET {"driver", "worker"}
        /\ active' = FALSE /\ driver' = "drain" => ~in_output
    BY <1>3 DEF Stop
  <2>3. UNCHANGED <<ring, shutdown, failed, nonblock, in_output, accepted, played,
                    output, frames, want, worker>>
    BY <1>3 DEF Stop
  <2>4. discarded' \in 0..MaxFrames
    BY <2>1
  <2>5. TypeOK'
    <3>1. ring' \in [Slots -> 0..MaxFrames] /\ head' \in Slots /\ count' \in 0..Capacity
      BY <2>1, <2>3
    <3>3. /\ accepted' \in 0..MaxFrames /\ played' \in 0..MaxFrames
          /\ discarded' \in 0..MaxFrames
          /\ output' \in Seq(0..MaxFrames) /\ frames' \in 0..Grain
      BY <2>3, <2>4
    <3>4. /\ waiting' \in SUBSET {"driver", "worker"}
          /\ driver' \in {"idle", "write", "stop", "drain", "join", "close", "closed"}
          /\ want' \in 0..MaxWrite /\ worker' \in {"loop", "paused", "output", "exit"}
      BY <2>2, <2>3
    <3>. QED BY <1>0, <3>1, <3>3, <3>4
  <2>. QED BY <1>3, <2>1, <2>2, <2>3, <2>5 DEF Stop
<1>4. CASE Start
  BY <1>4 DEF Start
<1>5. CASE Destroy
  BY <1>5 DEF Destroy
<1>6. CASE Reopen
  <2>1. ring' = [s \in Slots |-> 0]
    BY <1>6 DEF Reopen, Opened
  <2>2. ring' \in [Slots -> 0..MaxFrames]
    BY <2>1
  <2>3. output' \in Seq(0..MaxFrames)
    BY <1>6 DEF Reopen
  <2>4. TypeOK'
    BY <1>0, <1>6, <2>2, <2>3 DEF Reopen
  <2>. QED BY <1>6, <2>4 DEF Reopen
<1>7. ASSUME NEW enabled \in BOOLEAN, SetNonblock(enabled) PROVE IInv'
  BY <1>7 DEF SetNonblock
<1>8. CASE StopWait
  BY <1>8 DEF StopWait
<1>9. CASE Drain
  BY <1>9 DEF Drain
<1>10. CASE Join
  BY <1>10 DEF Join
<1>11. CASE Close
  BY <1>11 DEF Close
<1>12. CASE WorkerLoop
  <2>1. UNCHANGED <<ring, active, shutdown, failed, nonblock, accepted, played,
                    discarded, driver, want>> /\ worker \in {"loop", "paused"}
    BY <1>12 DEF WorkerLoop
  <2>2. CASE /\ worker' = "exit"
             /\ UNCHANGED <<head, count, output, frames, in_output, waiting>>
    BY <2>1, <2>2
  <2>3. CASE Pause /\ UNCHANGED <<head, count, output, frames, in_output>>
    BY <2>1, <2>3 DEF Pause
  <2>4. CASE active /\ Take
    <3>. DEFINE k == Minimum(count, Grain)
    <3>1. k \in 0..count /\ k \in 0..Grain
      BY DEF Minimum
    <3>2. /\ output' = [i \in 1..k |-> ring[Slot(i - 1)]] /\ frames' = k
          /\ head' = Slot(k) /\ count' = count - k
          /\ in_output' = TRUE /\ worker' = "output" /\ waiting' = {}
      BY <2>4 DEF Take
    <3>. HIDE DEF k
    <3>3. \A i \in 1..k : Slot(i - 1) \in Slots
      <4>1. ASSUME NEW i \in 1..k PROVE i - 1 \in 0..Capacity
        BY <3>1, <4>1
      <4>. QED BY <4>1, SlotWraps
    <3>4. output' \in Seq(0..MaxFrames)
      BY <3>1, <3>2, <3>3
    <3>5. head' \in Slots
      <4>1. k \in 0..Capacity
        BY <3>1
      <4>. QED BY <3>2, <4>1, SlotWraps
    <3>. QED BY <2>1, <2>4, <3>1, <3>2, <3>4, <3>5
  <2>. QED BY <1>12, <2>2, <2>3, <2>4 DEF WorkerLoop, Leaves
<1>13. CASE OutputDone
  <2>1. UNCHANGED <<queue, active, shutdown, nonblock, accepted, output, driver, want>>
        /\ in_output' = FALSE /\ frames' = 0 /\ worker' = "loop" /\ waiting' = {}
        /\ worker = "output"
    BY <1>13 DEF OutputDone
  <2>2. CASE played' = played + frames /\ UNCHANGED <<discarded, failed>>
    <3>1. played' \in 0..MaxFrames
      BY <2>2
    <3>2. TypeOK'
      BY <1>0, <2>1, <2>2, <3>1
    <3>3. FramesConserved'
      BY <2>1, <2>2
    <3>. QED BY <2>1, <2>2, <3>2, <3>3
  <2>3. CASE discarded' = discarded + frames /\ failed' = TRUE /\ UNCHANGED played
    <3>1. discarded' \in 0..MaxFrames
      BY <2>3
    <3>. QED BY <2>1, <2>3, <3>1
  <2>. QED BY <1>13, <2>2, <2>3 DEF OutputDone
<1>14. CASE UNCHANGED vars
  BY <1>14 DEF vars
<1>. QED
  BY <1>1, <1>2, <1>3, <1>4, <1>5, <1>6, <1>7, <1>8, <1>9, <1>10, <1>11, <1>12,
     <1>13, <1>14 DEF Next, DriverSteps, WorkerSteps

LEMMA Invariant == Spec => []IInv
<1>. QED BY InitInv, InvStep, PTL DEF Spec

\* The driver's state has its types; the ring's indices stay inside the ring.
THEOREM TypeCorrect == Spec => []TypeOK
<1>1. IInv => TypeOK
  BY DEF IInv
<1>. QED BY <1>1, Invariant, PTL

\* destroy()'s account adds up: no frame is lost or counted twice.
THEOREM Conserved == Spec => []FramesConserved
<1>1. IInv => FramesConserved
  BY DEF IInv
<1>. QED BY <1>1, Invariant, PTL

\* A drain or a close never overlaps the worker's output.
THEOREM OnePort == Spec => []OneOutputAtATime
<1>1. IInv => OneOutputAtATime
  BY DEF IInv, PortInv, OneOutputAtATime
<1>. QED BY <1>1, Invariant, PTL

-----------------------------------------------------------------------------
(* The ring is a queue.                                                    *)

LEMMA PutQueues ==
    ASSUME IInv, NEW k \in 1..Capacity, count + k <= Capacity, Put(k),
           UNCHANGED output
    PROVE  FIFO!Accept(k)
<1>. USE AudioAssumption
<1>1. /\ count' = count + k /\ accepted' = accepted + k /\ head' = head
      /\ count \in Nat /\ accepted \in Nat
  BY DEF IInv, TypeOK, Put
<1>2. \A i \in 0..(Capacity - 1) : Slot(i) \in Slots
  BY SlotWraps DEF IInv
<1>3. ASSUME NEW i \in 1..count PROVE ring'[Slot(i - 1)] = ring[Slot(i - 1)]
  <2>1. i - 1 \in 0..(Capacity - 1)
    BY <1>1
  <2>2. ASSUME NEW j \in 0..(k - 1) PROVE Slot(i - 1) # Slot(count + j)
    <3>1. count + j \in 0..(Capacity - 1) /\ i - 1 # count + j
      BY <1>1
    <3>. QED BY <2>1, <3>1, SlotsDiffer DEF IInv
  <2>. QED BY <1>2, <2>1, <2>2 DEF Put
<1>4. ASSUME NEW j \in 0..(k - 1) PROVE ring'[Slot(count + j)] = accepted + j
  <2>1. count + j \in 0..(Capacity - 1)
    BY <1>1
  <2>2. \A i \in 0..(k - 1) : Slot(count + j) = Slot(count + i) => i = j
    <3>1. ASSUME NEW i \in 0..(k - 1), Slot(count + j) = Slot(count + i) PROVE i = j
      <4>1. count + i \in 0..(Capacity - 1)
        BY <1>1
      <4>2. count + j = count + i
        BY <2>1, <3>1, <4>1, SlotsDiffer DEF IInv
      <4>. QED BY <1>1, <4>2
    <3>. QED BY <3>1
  <2>3. (CHOOSE i \in 0..(k - 1) : Slot(count + j) = Slot(count + i)) = j
    BY <2>2
  <2>. QED BY <1>2, <2>1, <2>3 DEF Put
<1>5. Queued' = [i \in 1..(count + k) |-> ring'[Slot(i - 1)]]
  BY <1>1 DEF Queued, Slot
<1>6. Queued' = Queued \o [i \in 1..k |-> accepted + i - 1]
  <2>. DEFINE tail == [i \in 1..k |-> accepted + i - 1]
  <2>1. Len(Queued) = count /\ Len(tail) = k
    BY <1>1 DEF Queued
  <2>2. ASSUME NEW i \in 1..(count + k)
        PROVE  ring'[Slot(i - 1)] = IF i <= count THEN Queued[i] ELSE tail[i - count]
    <3>1. CASE i <= count
      <4>1. i \in 1..count
        BY <1>1, <3>1
      <4>. QED BY <1>3, <3>1, <4>1 DEF Queued
    <3>2. CASE ~(i <= count)
      <4>. DEFINE j == i - count - 1
      <4>1. j \in 0..(k - 1) /\ i - 1 = count + j /\ i - count \in 1..k
        BY <1>1, <3>2
      <4>2. tail[i - count] = accepted + j
        BY <1>1, <4>1
      <4>. HIDE DEF j
      <4>. QED BY <1>4, <3>2, <4>1, <4>2
    <3>. QED BY <3>1, <3>2
  <2>3. Queued \o tail = [i \in 1..(count + k) |->
                            IF i <= count THEN Queued[i] ELSE tail[i - count]]
    <3>1. Queued \in Seq(Int)
      <4>1. \A i \in 1..count : i - 1 \in 0..(Capacity - 1)
        BY DEF IInv, TypeOK
      <4>. QED BY <1>1, <1>2, <4>1 DEF Queued, IInv, TypeOK
    <3>2. tail \in Seq(Int)
      BY <1>1
    <3>. HIDE DEF tail
    <3>3. /\ Queued \o tail \in Seq(Int) /\ Len(Queued \o tail) = count + k
          /\ \A i \in 1..(count + k) : (Queued \o tail)[i] =
                 IF i <= count THEN Queued[i] ELSE tail[i - count]
      BY <2>1, <3>1, <3>2, ConcatProperties
    <3>4. Queued \o tail = [i \in 1..(count + k) |-> (Queued \o tail)[i]]
      <4>. DEFINE both == Queued \o tail
      <4>1. both \in Seq(Int) /\ Len(both) = count + k
        BY <3>3
      <4>. HIDE DEF both
      <4>2. both \in [1..(count + k) -> Int]
        BY <4>1, LenProperties
      <4>3. both = [i \in 1..(count + k) |-> both[i]]
        BY <4>2
      <4>. QED BY <4>3 DEF both
    <3>. QED BY <3>3, <3>4
  <2>. HIDE DEF tail
  <2>. QED BY <1>5, <2>2, <2>3 DEF tail
<1>7. Len(Queued) = count
  BY <1>1 DEF Queued
<1>. QED BY <1>1, <1>6, <1>7 DEF FIFO!Accept

LEMMA TakePlays ==
    ASSUME IInv, Take, UNCHANGED accepted
    PROVE  FIFO!Play
<1>. USE AudioAssumption
<1>. DEFINE k == Minimum(count, Grain)
<1>1. /\ count \in 0..Capacity /\ k \in 0..count /\ Len(Queued) = count
      /\ k = IF count < Grain THEN count ELSE Grain
  BY DEF IInv, TypeOK, Minimum, Queued
<1>2. /\ output' = [i \in 1..k |-> ring[Slot(i - 1)]]
      /\ head' = Slot(k) /\ count' = count - k /\ ring' = ring
  BY DEF Take
<1>. HIDE DEF k
<1>3. ASSUME NEW i \in 1..count
      PROVE  Queued[i] = ring[Slot(i - 1)] /\ Queued[i] \in Int
  <2>1. i - 1 \in 0..Capacity
    BY <1>1
  <2>2. Slot(i - 1) \in Slots
    BY <2>1, SlotWraps DEF IInv
  <2>. QED BY <2>2 DEF Queued, IInv, TypeOK
<1>4. output' = SubSeq(Queued, 1, k)
  <2>1. SubSeq(Queued, 1, k) = [i \in 1..k |-> Queued[i]]
    BY <1>1
  <2>. QED BY <1>1, <1>2, <1>3, <2>1
<1>5. Queued' = SubSeq(Queued, k + 1, count)
  <2>1. SubSeq(Queued, k + 1, count) = [i \in 1..(count - k) |-> Queued[k + i]]
    BY <1>1
  <2>2. Queued' = [i \in 1..(count - k) |-> ring[(Slot(k) + (i - 1)) % Capacity]]
    BY <1>2 DEF Queued, Slot
  <2>3. ASSUME NEW i \in 1..(count - k)
        PROVE  ring[(Slot(k) + (i - 1)) % Capacity] = Queued[k + i]
    <3>1. k \in 0..Capacity /\ i - 1 \in 0..Capacity /\ k + (i - 1) <= Capacity
      BY <1>1
    <3>2. (Slot(k) + (i - 1)) % Capacity = Slot(k + (i - 1))
      BY <3>1, SlotsShift DEF IInv
    <3>3. k + i \in 1..count /\ k + (i - 1) = (k + i) - 1
      BY <1>1
    <3>. QED BY <1>3, <3>2, <3>3
  <2>. QED BY <2>1, <2>2, <2>3
<1>. QED BY <1>1, <1>4, <1>5 DEF FIFO!Play

LEMMA QueueStep == IInv /\ [Next]_vars => [FIFO!Next]_<<Queued, accepted, output>>
<1>. SUFFICES ASSUME IInv, [Next]_vars
              PROVE  FIFO!Next \/ UNCHANGED <<Queued, accepted, output>>
  OBVIOUS
<1>1. CASE UNCHANGED <<queue, accepted, output>>
  BY <1>1 DEF queue, Queued, Slot
<1>2. CASE Write
  <2>1. CASE UNCHANGED <<queue, accepted, waiting>>
    BY <1>1, <1>2, <2>1 DEF Write
  <2>2. CASE Put(Minimum(want, Free))
    <3>. DEFINE k == Minimum(want, Free)
    <3>1. k \in 0..Capacity /\ count + k <= Capacity
      BY AudioAssumption DEF Minimum, Free, IInv, TypeOK
    <3>2. output' = output
      BY <1>2 DEF Write
    <3>. HIDE DEF k
    <3>3. CASE k = 0
      <4>1. ring' = [s \in Slots |-> ring[s]] /\ UNCHANGED <<head, count, accepted>>
        BY <2>2, <3>3 DEF Put, k, IInv, TypeOK
      <4>2. ring' = ring
        BY <4>1 DEF IInv, TypeOK
      <4>. QED BY <1>1, <3>2, <4>1, <4>2 DEF queue
    <3>4. CASE k \in 1..Capacity
      <4>1. FIFO!Accept(k)
        BY <2>2, <3>1, <3>2, <3>4, PutQueues DEF k
      <4>. QED BY <3>4, <4>1 DEF FIFO!Next
    <3>. QED BY <3>1, <3>3, <3>4
  <2>. QED BY <1>2, <2>1, <2>2 DEF Write
<1>3. CASE Stop \/ Destroy
  <2>1. count' = 0 /\ UNCHANGED <<accepted, output>>
    BY <1>3 DEF Stop, Destroy
  <2>2. Queued' = <<>>
    BY <2>1 DEF Queued
  <2>. QED BY <2>1, <2>2 DEF FIFO!Next, FIFO!Drop
<1>4. CASE Reopen
  <2>1. count' = 0 /\ accepted' = 0 /\ output' = <<>>
    BY <1>4 DEF Reopen
  <2>2. Queued' = <<>>
    BY <2>1 DEF Queued
  <2>. QED BY <2>1, <2>2 DEF FIFO!Next, FIFO!Reopen
<1>5. CASE WorkerLoop
  <2>1. CASE Take
    BY <1>5, <2>1, TakePlays DEF WorkerLoop, FIFO!Next
  <2>2. CASE UNCHANGED <<head, count, output>>
    BY <1>1, <1>5, <2>2 DEF WorkerLoop, queue
  <2>. QED BY <1>5, <2>1, <2>2 DEF WorkerLoop
<1>6. (\E n \in 1..MaxWrite : BeginWrite(n)) \/ Start
      \/ (\E enabled \in BOOLEAN : SetNonblock(enabled))
      \/ StopWait \/ Drain \/ Join \/ Close \/ OutputDone \/ UNCHANGED vars
          => UNCHANGED <<queue, accepted, output>>
  BY DEF BeginWrite, Start, SetNonblock, StopWait, Drain, Join, Close, OutputDone, vars
<1>. QED
  BY <1>1, <1>2, <1>3, <1>4, <1>5, <1>6 DEF Next, DriverSteps, WorkerSteps

\* RingIsAQueue: for every size of ring, grain and write, AudioOut is given the
\* frames that were written, in order: the ring implements AudioQueue.
THEOREM RingRefines == Spec => RingIsAQueue
<1>1. Init => FIFO!Init
  <2>. SUFFICES ASSUME Init PROVE FIFO!Init
    OBVIOUS
  <2>1. Queued = <<>>
    BY DEF Init, Queued
  <2>. QED BY <2>1 DEF Init, FIFO!Init
<1>2. IInv /\ [Next]_vars => [FIFO!Next]_(FIFO!vars)
  BY QueueStep DEF FIFO!vars
<1>. QED BY <1>1, <1>2, Invariant, PTL DEF Spec, RingIsAQueue, FIFO!Spec

-----------------------------------------------------------------------------
(* The share: reads at a cursor, the connection lost and mended under      *)
(* them, and the staged copy.                                              *)

LEMMA ShareBounds ==
    /\ ShareLength \in Nat /\ ShareLength > 0 /\ ShareBlock \in Nat /\ ShareBlock > 0
    /\ ShareMaxRead \in Nat /\ ShareAsks \subseteq Nat \ {0}
  BY DevicesAssumption DEF Share!SmbAssumption

\* A part of the file: the bytes from one offset on.
IsPart(s, from) ==
    /\ s \in Seq(Nat) /\ \A i \in 1 .. Len(s) : s[i] = from + i
    /\ Len(s) > 0 => from + Len(s) <= ShareLength

ShareTypes ==
    /\ shareUp \in BOOLEAN /\ shareOpened \in BOOLEAN /\ shareDir \in BOOLEAN
    /\ shareContext \in {"none", "up", "lost"} /\ shareContexts \in Nat
    /\ shareHandle \in {-1} \cup Nat /\ sharePosition \in Nat /\ shareCursor \in Nat
    /\ shareAnswer \in -1 .. ShareLength
    /\ shareCall \in [who : {"none", "core", "stage"}, want : Nat, out : Seq(Nat), mended : BOOLEAN]
    /\ shareStage \in [pc : {"none", "copy", "close", "whole", "failed"}, to : BOOLEAN,
                       copied : Nat, got : -1 .. ShareLength]

\* A file that is not open has no context; a handle is where the reader is.
FileInv ==
    /\ Share!NothingLeaks
    /\ ~shareOpened => shareContext = "none"
    /\ shareOpened /\ shareHandle # -1 => shareHandle = sharePosition

\* A read has what a local file has from the cursor on, and is as far.
ReadInv ==
    /\ shareCall.who = "none" => shareCall = Share!NoRead
    /\ shareCall.who # "none" => shareOpened /\ Len(shareCall.out) < shareCall.want
    /\ IsPart(shareCall.out, shareCursor)
    /\ shareOpened => sharePosition = shareCursor + Len(shareCall.out)

\* A copy under way is the file up to where its reader is.
CopyInv ==
    /\ shareCall.who = "stage" => shareStage.pc = "copy"
    /\ shareCall.who = "core" => shareStage.pc = "none"
    /\ shareStage.pc = "copy" =>
        /\ shareOpened /\ shareStage.to /\ IsPart(shareLocal, 0) /\ Len(shareLocal) = shareCursor
        /\ shareCall.who = "none" => shareStage.got >= 0 /\ shareCursor = shareStage.copied + shareStage.got
        /\ shareCall.who = "stage" => shareCursor = shareStage.copied
    /\ shareStage.pc = "close" =>
        IF shareStage.to THEN Share!Whole => shareLocal = Share!File
                         ELSE shareLocal \in {Share!File, Share!Absent}
    /\ shareStage.pc = "whole" => shareLocal = Share!File
    /\ shareStage.pc \in {"none", "failed"} => shareLocal \in {Share!File, Share!Absent}

ShareInv == ShareTypes /\ FileInv /\ ReadInv /\ CopyInv

LEMMA FileBytes == /\ Share!File \in Seq(Nat) /\ Len(Share!File) = ShareLength
                   /\ \A i \in 1 .. ShareLength : Share!File[i] = i
  <1>1. Share!File \in [1 .. ShareLength -> Nat]
    BY DEF Share!File
  <1> QED
    BY <1>1, ShareBounds DEF Share!File

LEMMA NothingIsPart == ASSUME NEW from \in Nat PROVE IsPart(<<>>, from) /\ Len(<<>>) = 0
  BY EmptySeq DEF IsPart

LEMMA FileSlice ==
    ASSUME NEW a \in Nat, NEW n \in Nat, a + n <= ShareLength
    PROVE  /\ SubSeq(Share!File, a + 1, a + n) \in Seq(Nat) /\ Len(SubSeq(Share!File, a + 1, a + n)) = n
           /\ \A i \in 1 .. n : SubSeq(Share!File, a + 1, a + n)[i] = a + i
  <1> DEFINE F == Share!File
             s == SubSeq(F, a + 1, a + n)
  <1>1. \A i \in (a + 1) .. (a + n) : i \in 1 .. ShareLength /\ F[i] \in Nat
    BY FileBytes, ShareBounds
  <1> HIDE DEF F
  <1>2. a + 1 \in Int /\ a + n \in Int
    OBVIOUS
  <1>3. /\ s \in Seq(Nat) /\ Len(s) = IF a + 1 <= a + n THEN a + n - (a + 1) + 1 ELSE 0
        /\ \A i \in 1 .. (a + n) - (a + 1) + 1 : s[i] = F[a + 1 + i - 1]
    BY <1>1, <1>2, SubSeqProperties
  <1> HIDE DEF s
  <1>4. ASSUME NEW i \in 1 .. n PROVE s[i] = a + i
    <2>1. i \in 1 .. (a + n) - (a + 1) + 1 /\ a + 1 + i - 1 = a + i /\ a + i \in 1 .. ShareLength
      BY ShareBounds
    <2>2. s[i] = F[a + i]
      BY <1>3, <2>1
    <2> QED
      BY <2>1, <2>2, FileBytes DEF F
  <1>5. Len(s) = n
    BY <1>3
  <1> QED
    BY <1>3, <1>4, <1>5 DEF s, F

LEMMA PartIsSlice ==
    ASSUME NEW from \in Nat, NEW s, IsPart(s, from)
    PROVE  s = SubSeq(Share!File, from + 1, from + Len(s))
  <1>1. Len(s) \in Nat /\ s \in Seq(Nat)
    BY DEF IsPart
  <1>2. CASE Len(s) = 0
    <2>1. SubSeq(Share!File, from + 1, from + Len(s)) = <<>>
      BY <1>2, SubSeqEmpty
    <2> QED
      BY <1>1, <1>2, <2>1, EmptySeq
  <1>3. CASE Len(s) > 0
    <2> DEFINE t == SubSeq(Share!File, from + 1, from + Len(s))
    <2>1. from + Len(s) <= ShareLength
      BY <1>3 DEF IsPart
    <2>2. t \in Seq(Nat) /\ Len(t) = Len(s) /\ \A i \in 1 .. Len(s) : t[i] = from + i
      BY <1>1, <2>1, FileSlice
    <2> HIDE DEF t
    <2>3. \A i \in 1 .. Len(s) : s[i] = t[i]
      BY <2>2 DEF IsPart
    <2>4. s = t
      BY <1>1, <2>2, <2>3, SeqEqual
    <2> QED
      BY <2>4 DEF t
  <1> QED
    BY <1>1, <1>2, <1>3

LEMMA WholePart == ASSUME NEW s, IsPart(s, 0), Len(s) = ShareLength PROVE s = Share!File
  <1>1. Len(s) = Len(Share!File) /\ s \in Seq(Nat) /\ \A i \in 1 .. Len(s) : s[i] = Share!File[i]
    BY FileBytes DEF IsPart
  <1> QED
    BY <1>1, FileBytes, SeqEqual

LEMMA PartsJoin ==
    ASSUME NEW from \in Nat, NEW s, NEW t, IsPart(s, from), NEW to \in Nat, IsPart(t, to), to = from + Len(s)
    PROVE  IsPart(s \o t, from) /\ Len(s \o t) = Len(s) + Len(t)
  <1>1. s \in Seq(Nat) /\ t \in Seq(Nat) /\ Len(s) \in Nat /\ Len(t) \in Nat
    BY DEF IsPart
  <1>2. /\ s \o t \in Seq(Nat) /\ Len(s \o t) = Len(s) + Len(t)
        /\ \A i \in 1 .. Len(s) + Len(t) : (s \o t)[i] = IF i <= Len(s) THEN s[i] ELSE t[i - Len(s)]
    BY <1>1, ConcatProperties
  <1> DEFINE u == s \o t
  <1> HIDE DEF u
  <1>3. ASSUME NEW i \in 1 .. Len(s) + Len(t) PROVE u[i] = from + i
    <2>1. CASE i <= Len(s)
      <3>1. i \in 1 .. Len(s)
        BY <1>1, <2>1
      <3> QED
        BY <1>2, <2>1, <3>1 DEF IsPart, u
    <2>2. CASE ~(i <= Len(s))
      <3>1. i - Len(s) \in 1 .. Len(t)
        BY <1>1, <2>2
      <3>2. t[i - Len(s)] = from + Len(s) + (i - Len(s))
        BY <3>1 DEF IsPart
      <3>3. u[i] = t[i - Len(s)]
        BY <1>2, <2>2 DEF u
      <3> QED
        BY <1>1, <3>2, <3>3
    <2> QED
      BY <2>1, <2>2
  <1>4. Len(u) > 0 => from + Len(u) <= ShareLength
    <2>1. u \in Seq(Nat) /\ Len(u) = Len(s) + Len(t)
      BY <1>2 DEF u
    <2>2. Len(t) > 0 => from + Len(s) + Len(t) <= ShareLength
      BY DEF IsPart
    <2>3. Len(s) > 0 => from + Len(s) <= ShareLength
      BY DEF IsPart
    <2>4. CASE Len(t) = 0
      BY <1>1, <2>1, <2>3, <2>4, ShareBounds
    <2>5. CASE Len(t) > 0
      BY <1>1, <2>1, <2>2, <2>5, ShareBounds
    <2> QED
      BY <1>1, <2>4, <2>5
  <1>5. IsPart(u, from)
    BY <1>2, <1>3, <1>4 DEF IsPart, u
  <1> QED
    BY <1>2, <1>5 DEF u

LEMMA SliceIsPart ==
    ASSUME NEW a \in Nat, NEW n \in Nat, a + n <= ShareLength
    PROVE  IsPart(SubSeq(Share!File, a + 1, a + n), a) /\ Len(SubSeq(Share!File, a + 1, a + n)) = n
  BY FileSlice DEF IsPart

-----------------------------------------------------------------------------
LEMMA ShareInitHolds == Share!Init => ShareInv
  <1> SUFFICES ASSUME Share!Init PROVE ShareInv
    OBVIOUS
  <1>1. IsPart(<<>>, 0) /\ Len(<<>>) = 0 /\ <<>> \in Seq(Nat)
    BY NothingIsPart, EmptySeq
  <1>2. ShareTypes
    <2>1. 0 \in -1 .. ShareLength
      BY ShareBounds
    <2>2. Share!NoRead \in [who : {"none", "core", "stage"}, want : Nat, out : Seq(Nat), mended : BOOLEAN]
      BY <1>1 DEF Share!NoRead
    <2>3. Share!NoStage \in [pc : {"none", "copy", "close", "whole", "failed"}, to : BOOLEAN,
                             copied : Nat, got : -1 .. ShareLength]
      BY <2>1 DEF Share!NoStage
    <2> QED
      BY <2>1, <2>2, <2>3 DEF Share!Init, ShareTypes, Share!NoHandle
  <1>3. FileInv
    BY DEF Share!Init, FileInv, Share!NothingLeaks
  <1>4. ReadInv
    BY <1>1 DEF Share!Init, ReadInv, Share!NoRead
  <1>5. CopyInv
    BY DEF Share!Init, CopyInv, Share!NoRead, Share!NoStage
  <1> QED
    BY <1>2, <1>3, <1>4, <1>5 DEF ShareInv

\* A read that ends leaves a reader where a local file would be, and what a copy wrote of it.
LEMMA ReadReturns ==
    ASSUME ShareInv, NEW n, NEW out, Share!Returns(n, out), Share!Written(out), shareCall.who # "none",
           IsPart(out, shareCursor), sharePosition' = shareCursor + Len(out), UNCHANGED shareOpened,
           n = Len(out) \/ (n = -1 /\ Len(out) = 0), n = 0 => sharePosition' >= ShareLength
    PROVE  /\ ReadInv' /\ CopyInv'
           /\ shareAnswer' \in -1 .. ShareLength /\ shareCursor' \in Nat /\ shareCall' = Share!NoRead
           /\ shareStage' \in [pc : {"none", "copy", "close", "whole", "failed"}, to : BOOLEAN,
                               copied : Nat, got : -1 .. ShareLength]
  <1>1. out \in Seq(Nat) /\ Len(out) \in Nat /\ shareCursor \in Nat
    BY DEF IsPart, ShareInv, ShareTypes
  <1>2. shareCall' = Share!NoRead /\ shareCursor' = shareCursor + Len(out) /\ shareAnswer' = n
    BY DEF Share!Returns
  <1>3. shareCursor' \in Nat /\ n \in -1 .. ShareLength /\ (n = 0 => Len(out) = 0)
    BY <1>1, <1>2, ShareBounds DEF IsPart
  <1>4. IsPart(<<>>, shareCursor') /\ Len(<<>>) = 0
    BY <1>3, NothingIsPart
  <1>5. ReadInv'
    <2>1. shareCall'.out = <<>> /\ shareCall'.who = "none"
      BY <1>2 DEF Share!NoRead
    <2>2. IsPart(shareCall.out, shareCursor)'
      BY <1>4, <2>1 DEF IsPart
    <2>3. sharePosition' = shareCursor' + Len(shareCall'.out)
      BY <1>1, <1>2, <1>4, <2>1
    <2> QED
      BY <1>2, <2>1, <2>2, <2>3 DEF ReadInv, Share!NoRead
  <1>6. CASE shareCall.who = "core"
    <2>1. UNCHANGED <<shareStage, shareLocal>> /\ shareStage.pc = "none" /\ shareCall'.who = "none"
      BY <1>2, <1>6 DEF Share!Returns, Share!Written, ShareInv, CopyInv, Share!NoRead
    <2>2. CopyInv'
      BY <2>1 DEF ShareInv, CopyInv, Share!File, Share!Absent
    <2> QED
      BY <1>2, <1>3, <1>5, <2>1, <2>2 DEF ShareInv, ShareTypes
  <1>7. CASE shareCall.who = "stage"
    <2>1. /\ shareLocal' = shareLocal \o out
          /\ shareStage' = [shareStage EXCEPT !.got = n, !.pc = IF n > 0 THEN "copy" ELSE "close"]
      BY <1>7 DEF Share!Returns, Share!Written
    <2>2. /\ shareStage.pc = "copy" /\ shareOpened /\ shareStage.to /\ IsPart(shareLocal, 0)
          /\ Len(shareLocal) = shareCursor /\ shareCursor = shareStage.copied
      BY <1>7 DEF ShareInv, CopyInv
    <2>3. /\ shareStage' \in [pc : {"none", "copy", "close", "whole", "failed"}, to : BOOLEAN,
                              copied : Nat, got : -1 .. ShareLength]
          /\ shareStage'.pc = (IF n > 0 THEN "copy" ELSE "close") /\ shareStage'.to = shareStage.to
          /\ shareStage'.copied = shareStage.copied /\ shareStage'.got = n
      BY <1>3, <2>1 DEF ShareInv, ShareTypes
    <2>4. IsPart(shareLocal', 0) /\ Len(shareLocal') = shareCursor + Len(out)
      <3>1. shareCursor = 0 + Len(shareLocal)
        BY <1>1, <2>2
      <3>2. IsPart(shareLocal \o out, 0) /\ Len(shareLocal \o out) = Len(shareLocal) + Len(out)
        BY <1>1, <2>2, <3>1, PartsJoin
      <3> QED
        BY <2>1, <2>2, <3>2
    <2>5. n > 0 => shareCursor' = shareStage'.copied + shareStage'.got
      BY <1>1, <1>2, <2>2, <2>3
    <2>6. ASSUME n <= 0, Share!Whole' PROVE shareLocal' = Share!File
      <3>1. n = 0 /\ shareStage.copied = ShareLength
        BY <2>3, <2>6 DEF Share!Whole
      <3>2. Len(shareLocal') = ShareLength
        BY <1>1, <1>3, <2>2, <2>4, <3>1
      <3> QED
        BY <2>4, <3>2, WholePart
    <2>7. shareCall'.who = "none"
      BY <1>2 DEF Share!NoRead
    <2>8. CopyInv'
      <3>1. CASE n > 0
        <4>1. shareStage'.pc = "copy" /\ shareStage'.got >= 0
          BY <2>3, <3>1
        <4>2. IsPart(shareLocal, 0)' /\ Len(shareLocal)' = shareCursor'
          BY <1>2, <2>4 DEF IsPart
        <4> QED
          BY <2>2, <2>3, <2>5, <2>7, <4>1, <4>2 DEF CopyInv
      <3>2. CASE n <= 0
        <4>1. shareStage'.pc = "close" /\ shareStage'.to = TRUE
          BY <2>2, <2>3, <3>2 DEF ShareInv, ShareTypes
        <4>2. Share!Whole' => shareLocal' = Share!File'
          BY <2>6, <3>2 DEF Share!File
        <4> QED
          BY <2>7, <4>1, <4>2 DEF CopyInv
      <3> QED
        BY <1>3, <3>1, <3>2
    <2> QED
      BY <1>2, <1>3, <1>5, <2>3, <2>8
  <1> QED
    BY <1>6, <1>7 DEF ShareInv, ShareTypes

CallType  == [who : {"none", "core", "stage"}, want : Nat, out : Seq(Nat), mended : BOOLEAN]
StageType == [pc : {"none", "copy", "close", "whole", "failed"}, to : BOOLEAN,
              copied : Nat, got : -1 .. ShareLength]

\* Nothing under way is nothing read and nothing copied.
LEMMA ShareIdle ==
    ASSUME ShareInv, Share!Idle
    PROVE  /\ shareCall = Share!NoRead /\ shareCall.who = "none" /\ shareStage.pc = "none"
           /\ shareLocal \in {Share!File, Share!Absent}
           /\ shareOpened => sharePosition = shareCursor
  <1>1. shareCall = Share!NoRead /\ shareStage.pc = "none"
    BY DEF Share!Idle
  <1>2. Len(shareCall.out) = 0 /\ shareCall.who = "none"
    BY <1>1, EmptySeq DEF Share!NoRead
  <1>3. shareOpened => sharePosition = shareCursor
    BY <1>2 DEF ShareInv, ReadInv, ShareTypes
  <1> QED
    BY <1>1, <1>2, <1>3 DEF ShareInv, CopyInv

\* What is under way is kept when only the connection changes, and the reader with it.
LEMMA ReaderKept ==
    ASSUME ShareInv, UNCHANGED <<sharePosition, shareOpened, shareCursor, shareCall, shareStage, shareLocal>>
    PROVE  ReadInv' /\ CopyInv'
  BY DEF ShareInv, ReadInv, CopyInv, IsPart, Share!NoRead, Share!File, Share!Absent, Share!Whole

LEMMA ServerKeeps ==
    ASSUME ShareInv, Share!Drop \/ Share!Return \/ Share!OpenDir \/ Share!CloseDir PROVE ShareInv'
  <1>1. ShareTypes' /\ FileInv'
    <2> USE DEF ShareInv, ShareTypes, FileInv, Share!NothingLeaks
    <2>1. CASE Share!Drop
      BY <2>1 DEF Share!Drop, Share!copy
    <2>2. CASE Share!Return
      BY <2>2 DEF Share!Return, Share!copy
    <2>3. CASE Share!OpenDir
      BY <2>3 DEF Share!OpenDir, Share!copy
    <2>4. CASE Share!CloseDir
      <3>1. shareDir /\ shareDir' = FALSE /\ shareContexts' = shareContexts - 1 /\ UNCHANGED shareContext
        BY <2>4 DEF Share!CloseDir
      <3>2. shareContexts = (IF shareContext = "none" THEN 0 ELSE 1) + 1
        BY <3>1
      <3>3. shareContexts' = IF shareContext = "none" THEN 0 ELSE 1
        BY <3>1, <3>2
      <3>4. UNCHANGED <<shareUp, shareContext, shareHandle, sharePosition, shareOpened, shareCall, shareCursor,
                        shareAnswer, shareStage, shareLocal>>
        BY <2>4 DEF Share!CloseDir, Share!copy
      <3>5. shareContexts' \in Nat
        <4>1. CASE shareContext = "none"
          BY <3>3, <4>1
        <4>2. CASE shareContext # "none"
          BY <3>3, <4>2
        <4> QED
          BY <4>1, <4>2
      <3>8. shareDir' \in BOOLEAN
        <4> HIDE DEF ShareTypes, ShareInv, FileInv
        <4> QED
          BY <3>1
      <3>6. ShareTypes'
        BY <3>4, <3>5, <3>8
      <3>7. FileInv'
        BY <3>1, <3>3, <3>4
      <3> QED
        BY <3>6, <3>7
    <2> QED
      BY <2>1, <2>2, <2>3, <2>4
  <1>2. UNCHANGED <<sharePosition, shareOpened, shareCursor, shareCall, shareStage, shareLocal>>
    BY DEF Share!Drop, Share!Return, Share!OpenDir, Share!CloseDir, Share!copy
  <1> QED
    BY <1>1, <1>2, ReaderKept DEF ShareInv

\* An idle reader that opens, closes or moves leaves the copy alone.
LEMMA IdleKeeps ==
    ASSUME ShareInv, Share!Idle, UNCHANGED <<shareCall, shareStage, shareLocal>>, shareCursor' \in Nat,
           shareOpened' => sharePosition' = shareCursor'
    PROVE  ReadInv' /\ CopyInv'
  <1>1. shareCall' = Share!NoRead /\ shareCall'.who = "none" /\ shareStage'.pc = "none"
    BY ShareIdle
  <1>2. shareCall'.out = <<>> /\ IsPart(<<>>, shareCursor') /\ Len(<<>>) = 0
    BY <1>1, NothingIsPart DEF Share!NoRead
  <1>3. IsPart(shareCall.out, shareCursor)'
    BY <1>2 DEF IsPart
  <1>4. shareOpened' => sharePosition' = shareCursor' + Len(shareCall'.out)
    BY <1>2
  <1>5. ReadInv'
    BY <1>1, <1>3, <1>4 DEF ReadInv, Share!NoRead
  <1>6. CopyInv'
    BY <1>1, ShareIdle DEF CopyInv, Share!File, Share!Absent
  <1> QED
    BY <1>5, <1>6

LEMMA OpenKeeps ==
    ASSUME ShareInv, NEW refuses \in BOOLEAN, Share!OpenFile(refuses), UNCHANGED <<shareUp, shareDir>>
    PROVE  /\ FileInv' /\ shareContext' \in {"none", "up", "lost"} /\ shareContexts' \in Nat
           /\ shareHandle' \in {-1} \cup Nat /\ sharePosition' = 0 /\ shareCursor' = 0
           /\ shareOpened' \in BOOLEAN /\ shareOpened' = Share!Mends(refuses)
  <1>1. /\ ~shareOpened /\ shareContext = "none" /\ shareContexts = IF shareDir THEN 1 ELSE 0
    BY DEF Share!OpenFile, ShareInv, FileInv, Share!NothingLeaks
  <1>2. /\ shareOpened' = Share!Mends(refuses) /\ sharePosition' = 0 /\ shareCursor' = 0
        /\ shareContext' = (IF Share!Mends(refuses) THEN "up" ELSE "none")
        /\ shareContexts' = shareContexts + (IF Share!Mends(refuses) THEN 1 ELSE 0)
        /\ shareHandle' = IF Share!Mends(refuses) THEN 0 ELSE -1
    BY DEF Share!OpenFile, Share!NoHandle
  <1>3. Share!Mends(refuses) \in BOOLEAN
    BY DEF Share!Mends
  <1> QED
    BY <1>1, <1>2, <1>3 DEF FileInv, Share!NothingLeaks

LEMMA CloseKeeps ==
    ASSUME ShareInv, Share!CloseFile, UNCHANGED shareDir
    PROVE  /\ FileInv' /\ shareContext' \in {"none", "up", "lost"} /\ shareContexts' \in Nat
           /\ shareHandle' \in {-1} \cup Nat /\ UNCHANGED <<shareUp, sharePosition, shareCursor>> /\ shareOpened' = FALSE
  BY DEF Share!CloseFile, Share!Freed, Share!NoHandle, ShareInv, ShareTypes, FileInv, Share!NothingLeaks

LEMMA CallerKeeps ==
    ASSUME ShareInv, Share!Close \/ \E refuses \in BOOLEAN : Share!Open(refuses)
    PROVE  ShareInv'
  <1>1. CASE Share!Close
    <2>1. /\ Share!Idle /\ Share!CloseFile
          /\ UNCHANGED <<shareDir, shareCall, shareAnswer, shareStage, shareLocal>>
      BY <1>1 DEF Share!Close, Share!copy
    <2>2. FileInv' /\ ShareTypes'
      BY <2>1, CloseKeeps DEF ShareInv, ShareTypes
    <2>3. ReadInv' /\ CopyInv'
      BY <2>1, CloseKeeps, IdleKeeps DEF ShareInv, ShareTypes
    <2> QED
      BY <2>2, <2>3 DEF ShareInv
  <1>2. ASSUME NEW refuses \in BOOLEAN, Share!Open(refuses) PROVE ShareInv'
    <2>1. /\ Share!Idle /\ Share!OpenFile(refuses)
          /\ UNCHANGED <<shareUp, shareDir, shareCall, shareAnswer, shareStage, shareLocal>>
      BY <1>2 DEF Share!Open, Share!copy
    <2>2. FileInv' /\ ShareTypes'
      BY <2>1, OpenKeeps DEF ShareInv, ShareTypes
    <2>3. ReadInv' /\ CopyInv'
      BY <2>1, OpenKeeps, IdleKeeps
    <2> QED
      BY <2>2, <2>3 DEF ShareInv
  <1> QED
    BY <1>1, <1>2

LEMMA BeginsRead ==
    ASSUME ShareInv, NEW who \in {"core", "stage"}, NEW n \in Nat, n > 0, shareCall.who = "none", shareOpened,
           Share!Begin(who, n), UNCHANGED <<sharePosition, shareCursor, shareOpened>>
    PROVE  ReadInv' /\ shareCall' \in CallType /\ shareCall'.who = who
  <1>1. shareCall' = [who |-> who, want |-> n, out |-> <<>>, mended |-> FALSE]
    BY DEF Share!Begin, Share!NoRead
  <1>2. IsPart(<<>>, shareCursor) /\ Len(<<>>) = 0 /\ <<>> \in Seq(Nat)
    BY NothingIsPart, EmptySeq DEF ShareInv, ShareTypes
  <1>3. IsPart(shareCall.out, shareCursor)'
    BY <1>1, <1>2 DEF IsPart
  <1>4. shareCall = Share!NoRead
    BY DEF ShareInv, ReadInv
  <1>5. sharePosition = shareCursor
    BY <1>2, <1>4 DEF ShareInv, ReadInv, Share!NoRead, ShareTypes
  <1>6. shareOpened' => sharePosition' = shareCursor' + Len(shareCall'.out)
    BY <1>1, <1>2, <1>5 DEF ShareInv, ShareTypes
  <1>7. shareCall'.who = who /\ shareCall'.want = n /\ Len(shareCall'.out) = 0 /\ shareCall' \in CallType
    BY <1>1, <1>2 DEF CallType
  <1> QED
    BY <1>3, <1>6, <1>7 DEF ReadInv

LEMMA ReadBegins == ASSUME ShareInv, NEW n \in ShareAsks, Share!Read(n) PROVE ShareInv'
  <1>1. /\ Share!Idle /\ shareOpened /\ Share!Begin("core", n)
        /\ UNCHANGED <<shareUp, shareContext, shareContexts, shareHandle, sharePosition, shareOpened,
                       shareDir, shareCursor, shareAnswer, shareStage, shareLocal>>
    BY DEF Share!Read, Share!copy, Share!link
  <1>2. n \in Nat /\ n > 0 /\ shareCall.who = "none" /\ shareStage.pc = "none"
    BY <1>1, ShareBounds, ShareIdle
  <1>3. ReadInv' /\ shareCall' \in CallType /\ shareCall'.who = "core"
    BY <1>1, <1>2, BeginsRead
  <1>4. ShareTypes' /\ FileInv'
    BY <1>1, <1>3 DEF ShareInv, ShareTypes, FileInv, Share!NothingLeaks, CallType
  <1>5. CopyInv'
    BY <1>1, <1>2, <1>3 DEF ShareInv, CopyInv, Share!File, Share!Absent
  <1> QED
    BY <1>3, <1>4, <1>5 DEF ShareInv

\* A mending of the file: one context at most, and a handle at the reader's position.
LEMMA MendKeeps ==
    ASSUME ShareInv, NEW refuses \in BOOLEAN, Share!Connects(Share!Freed, refuses), UNCHANGED shareDir, shareOpened
    PROVE  /\ shareContext' \in {"none", "up", "lost"} /\ shareContexts' \in Nat /\ Share!NothingLeaks'
  BY DEF Share!Connects, Share!Freed, ShareInv, ShareTypes, FileInv, Share!NothingLeaks

LEMMA SeekKeeps ==
    ASSUME ShareInv, Share!Idle, shareOpened, NEW offset \in -1 .. 1, NEW whence \in {"set", "cur", "end"},
           NEW at, at = sharePosition, Share!Sets(at, offset, whence)
    PROVE  /\ shareHandle' = sharePosition' /\ shareCursor' = sharePosition' /\ sharePosition' \in Nat
  <1>1. sharePosition \in Nat /\ shareCursor = sharePosition
    BY ShareIdle DEF ShareInv, ShareTypes
  <1>2. Share!From(whence, at) \in Nat /\ Share!From(whence, shareCursor) = Share!From(whence, at)
    BY <1>1, ShareBounds DEF Share!From
  <1>3. CASE Share!From(whence, at) + offset < 0
    BY <1>1, <1>3 DEF Share!Sets
  <1>4. CASE ~(Share!From(whence, at) + offset < 0)
    BY <1>1, <1>2, <1>4 DEF Share!Sets
  <1> QED
    BY <1>3, <1>4

LEMMA SeeksKeep ==
    ASSUME ShareInv, NEW offset \in -1 .. 1, NEW whence \in {"set", "cur", "end"},
           Share!Seek(offset, whence) \/ \E refuses \in BOOLEAN : Share!SeekMend(refuses, offset, whence)
    PROVE  ShareInv'
  <1>1. CASE Share!Seek(offset, whence)
    <2>1. /\ Share!Idle /\ shareOpened /\ shareHandle # -1 /\ Share!Sets(shareHandle, offset, whence)
          /\ UNCHANGED <<shareUp, shareContext, shareContexts, shareOpened, shareDir, shareCall, shareAnswer,
                         shareStage, shareLocal>>
      BY <1>1 DEF Share!Seek, Share!copy, Share!NoHandle
    <2>2. shareHandle = sharePosition
      BY <2>1 DEF ShareInv, FileInv
    <2>3. shareHandle' = sharePosition' /\ shareCursor' = sharePosition' /\ sharePosition' \in Nat
      BY <2>1, <2>2, SeekKeeps
    <2>4. ShareTypes' /\ FileInv'
      BY <2>1, <2>3 DEF ShareInv, ShareTypes, FileInv, Share!NothingLeaks
    <2>5. ReadInv' /\ CopyInv'
      BY <2>1, <2>3, IdleKeeps
    <2> QED
      BY <2>4, <2>5 DEF ShareInv
  <1>2. ASSUME NEW refuses \in BOOLEAN, Share!SeekMend(refuses, offset, whence) PROVE ShareInv'
    <2>1. /\ Share!Idle /\ shareOpened /\ Share!Connects(Share!Freed, refuses)
          /\ IF Share!Mends(refuses) THEN Share!Sets(sharePosition, offset, whence)
             ELSE shareHandle' = -1 /\ UNCHANGED <<sharePosition, shareCursor>>
          /\ UNCHANGED <<shareUp, shareOpened, shareDir, shareCall, shareAnswer, shareStage, shareLocal>>
      BY <1>2 DEF Share!SeekMend, Share!copy, Share!NoHandle, Share!Sought
    <2>2. /\ shareHandle' \in {-1, sharePosition'} /\ shareCursor' = sharePosition' /\ sharePosition' \in Nat
      <3>1. CASE Share!Mends(refuses)
        BY <2>1, <3>1, SeekKeeps
      <3>2. CASE ~Share!Mends(refuses)
        BY <2>1, <3>2, ShareIdle DEF ShareInv, ShareTypes
      <3> QED
        BY <3>1, <3>2
    <2>3. shareContext' \in {"none", "up", "lost"} /\ shareContexts' \in Nat /\ Share!NothingLeaks'
      BY <2>1, MendKeeps
    <2>4. ShareTypes' /\ FileInv'
      BY <2>1, <2>2, <2>3 DEF ShareInv, ShareTypes, FileInv
    <2>5. ReadInv' /\ CopyInv'
      BY <2>1, <2>2, IdleKeeps
    <2> QED
      BY <2>4, <2>5 DEF ShareInv
  <1> QED
    BY <1>1, <1>2

\* A read that ends, whatever ended it, keeps the invariant.
LEMMA EndsKeep ==
    ASSUME ShareInv, NEW n, NEW out, Share!Returns(n, out), Share!Written(out), shareCall.who # "none",
           IsPart(out, shareCursor), sharePosition' = shareCursor + Len(out),
           n = Len(out) \/ (n = -1 /\ Len(out) = 0), n = 0 => sharePosition' >= ShareLength,
           FileInv', UNCHANGED <<shareUp, shareOpened, shareDir>>,
           shareContext' \in {"none", "up", "lost"}, shareContexts' \in Nat, shareHandle' \in {-1} \cup Nat
    PROVE  ShareInv'
  <1>1. sharePosition' \in Nat
    BY DEF IsPart, ShareInv, ShareTypes
  <1>2. /\ ReadInv' /\ CopyInv'
        /\ shareAnswer' \in -1 .. ShareLength /\ shareCursor' \in Nat /\ shareCall' = Share!NoRead
        /\ shareStage' \in StageType
    BY ReadReturns DEF StageType
  <1>3. Share!NoRead \in CallType
    BY EmptySeq DEF CallType, Share!NoRead
  <1>4. ShareTypes'
    BY <1>1, <1>2, <1>3 DEF ShareInv, ShareTypes, CallType, StageType
  <1> QED
    BY <1>2, <1>4 DEF ShareInv

\* Where a read stands: the file is open, and a reader is as far as its cursor and what it has.
LEMMA ReadStands ==
    ASSUME ShareInv, shareCall # Share!NoRead
    PROVE  /\ shareCall.who # "none" /\ shareOpened /\ Len(shareCall.out) \in Nat
           /\ IsPart(shareCall.out, shareCursor) /\ sharePosition = shareCursor + Len(shareCall.out)
           /\ Len(shareCall.out) < shareCall.want /\ shareCall.want \in Nat /\ shareCursor \in Nat
  BY DEF ShareInv, ReadInv, ShareTypes, IsPart

LEMMA ReadsSome == ASSUME ShareInv, NEW n \in 1 .. ShareMaxRead, Share!ReadSome(n) PROVE ShareInv'
  <1> DEFINE out == shareCall.out \o SubSeq(Share!File, shareHandle + 1, shareHandle + n)
  <1>1. /\ shareCall # Share!NoRead /\ ~Share!Dead
        /\ n \in 1 .. Share!Smaller(Share!Smaller(shareCall.want - Share!Done, ShareMaxRead), Share!Left)
        /\ shareHandle' = shareHandle + n /\ sharePosition' = sharePosition + n
        /\ UNCHANGED <<shareUp, shareContext, shareContexts, shareOpened, shareDir>>
    BY DEF Share!ReadSome
  <1>2. /\ IF Len(out) = shareCall.want
             THEN Share!Returns(Len(out), out) /\ Share!Written(out)
             ELSE /\ shareCall' = [shareCall EXCEPT !.out = out]
                  /\ UNCHANGED <<shareCursor, shareAnswer, shareStage, shareLocal>>
    BY DEF Share!ReadSome
  <1>3. /\ shareCall.who # "none" /\ shareOpened /\ Len(shareCall.out) \in Nat
        /\ IsPart(shareCall.out, shareCursor) /\ sharePosition = shareCursor + Len(shareCall.out)
        /\ Len(shareCall.out) < shareCall.want /\ shareCall.want \in Nat /\ shareCursor \in Nat
    BY <1>1, ReadStands
  <1>4. shareHandle = sharePosition /\ sharePosition \in Nat
    BY <1>1, <1>3 DEF Share!Dead, Share!NoHandle, ShareInv, FileInv, ShareTypes
  <1>5. /\ shareHandle + n <= ShareLength /\ n <= shareCall.want - Len(shareCall.out) /\ n > 0 /\ n \in Nat
    <2> DEFINE room == shareCall.want - Len(shareCall.out)
               left == IF shareHandle < ShareLength THEN ShareLength - shareHandle ELSE 0
               some == IF room < ShareMaxRead THEN room ELSE ShareMaxRead
    <2>1. n \in 1 .. (IF some < left THEN some ELSE left)
      BY <1>1 DEF Share!Smaller, Share!Left, Share!Done
    <2>2. room \in Nat /\ left \in Nat /\ shareHandle \in Nat
      BY <1>3, <1>4, ShareBounds
    <2>3. some \in Nat /\ some <= room
      BY <2>2, ShareBounds
    <2>4. n > 0 /\ n <= left /\ n <= some
      <3> HIDE DEF some, left, room
      <3> QED
        BY <2>1, <2>2, <2>3
    <2>5. n <= room
      <3> HIDE DEF some, left, room
      <3> QED
        BY <2>2, <2>3, <2>4
    <2> QED
      BY <2>2, <2>4, <2>5, ShareBounds
  <1>6. /\ IsPart(SubSeq(Share!File, shareHandle + 1, shareHandle + n), shareHandle)
        /\ Len(SubSeq(Share!File, shareHandle + 1, shareHandle + n)) = n
    BY <1>4, <1>5, SliceIsPart
  <1>7. IsPart(out, shareCursor) /\ Len(out) = Len(shareCall.out) + n
    BY <1>3, <1>4, <1>6, PartsJoin
  <1> HIDE DEF out
  <1>8. sharePosition' = shareCursor + Len(out)
    BY <1>1, <1>3, <1>4, <1>5, <1>7
  <1>9. FileInv' /\ shareHandle' \in Nat /\ sharePosition' \in Nat
    BY <1>1, <1>4, <1>5 DEF ShareInv, FileInv, Share!NothingLeaks
  <1>10. CASE Len(out) = shareCall.want
    <2>1. Share!Returns(Len(out), out) /\ Share!Written(out) /\ Len(out) # 0
      BY <1>2, <1>3, <1>5, <1>7, <1>10
    <2> QED
      BY <1>1, <1>3, <1>7, <1>8, <1>9, <2>1, EndsKeep DEF ShareInv, ShareTypes
  <1>11. CASE Len(out) # shareCall.want
    <2>1. /\ shareCall' = [shareCall EXCEPT !.out = out]
          /\ UNCHANGED <<shareCursor, shareAnswer, shareStage, shareLocal>>
      BY <1>2, <1>11
    <2>2. shareCall \in CallType /\ out \in Seq(Nat)
      BY <1>7 DEF ShareInv, ShareTypes, CallType, IsPart
    <2>3. /\ shareCall' \in CallType /\ shareCall'.who = shareCall.who /\ shareCall'.want = shareCall.want
          /\ shareCall'.out = out
      BY <2>1, <2>2 DEF CallType
    <2>4. Len(out) < shareCall.want
      BY <1>3, <1>5, <1>7, <1>11
    <2>5. IsPart(shareCall.out, shareCursor)'
      BY <1>7, <2>1, <2>3 DEF IsPart
    <2>6. ReadInv'
      BY <1>1, <1>3, <1>8, <2>1, <2>3, <2>4, <2>5 DEF ReadInv
    <2>7. CopyInv'
      BY <1>1, <2>1, <2>3 DEF ShareInv, CopyInv, IsPart, Share!File, Share!Absent, Share!Whole
    <2>8. ShareTypes'
      BY <1>1, <1>9, <2>1, <2>3 DEF ShareInv, ShareTypes, CallType
    <2> QED
      BY <1>9, <2>6, <2>7, <2>8 DEF ShareInv
  <1> QED
    BY <1>10, <1>11

LEMMA ReadsEnd == ASSUME ShareInv, Share!ReadEnd \/ Share!ReadFails PROVE ShareInv'
  <1>1. /\ shareCall # Share!NoRead
        /\ UNCHANGED <<shareUp, shareContext, shareContexts, shareHandle, sharePosition, shareOpened, shareDir>>
    BY DEF Share!ReadEnd, Share!ReadFails, Share!link
  <1>2. /\ shareCall.who # "none" /\ shareOpened /\ Len(shareCall.out) \in Nat
        /\ IsPart(shareCall.out, shareCursor) /\ sharePosition = shareCursor + Len(shareCall.out)
    BY <1>1, ReadStands
  <1>3. sharePosition' = shareCursor + Len(shareCall.out)
    BY <1>1, <1>2
  <1>4. FileInv' /\ shareContext' \in {"none", "up", "lost"} /\ shareContexts' \in Nat /\ shareHandle' \in {-1} \cup Nat
    BY <1>1 DEF ShareInv, FileInv, ShareTypes, Share!NothingLeaks
  <1>5. CASE Share!ReadEnd
    <2>1. Share!Returns(Len(shareCall.out), shareCall.out) /\ Share!Written(shareCall.out) /\ ~Share!Dead /\ Share!Left = 0
      BY <1>5 DEF Share!ReadEnd, Share!Done
    <2>2. shareHandle = sharePosition
      BY <1>2, <2>1 DEF Share!Dead, Share!NoHandle, ShareInv, FileInv
    <2>3. sharePosition' >= ShareLength
      BY <1>1, <2>1, <2>2, ShareBounds DEF Share!Left, ShareInv, ShareTypes
    <2> QED
      BY <1>1, <1>2, <1>3, <1>4, <2>1, <2>3, EndsKeep
  <1>6. CASE Share!ReadFails
    <2>1. Share!Returns(Share!Returned, shareCall.out) /\ Share!Written(shareCall.out)
      BY <1>6 DEF Share!ReadFails
    <2>2. \/ Share!Returned = Len(shareCall.out) /\ Share!Returned # 0
          \/ Share!Returned = -1 /\ Len(shareCall.out) = 0
      BY <1>2 DEF Share!Returned, Share!Done
    <2> QED
      BY <1>1, <1>2, <1>3, <1>4, <2>1, <2>2, EndsKeep
  <1> QED
    BY <1>5, <1>6

LEMMA ReadMends == ASSUME ShareInv, NEW refuses \in BOOLEAN, Share!ReadMend(refuses) PROVE ShareInv'
  <1>1. /\ shareCall # Share!NoRead /\ Share!Mend(refuses)
        /\ UNCHANGED <<shareUp, sharePosition, shareOpened, shareDir>>
    BY DEF Share!ReadMend
  <1>2. /\ shareCall.who # "none" /\ shareOpened /\ Len(shareCall.out) \in Nat
        /\ IsPart(shareCall.out, shareCursor) /\ sharePosition = shareCursor + Len(shareCall.out)
    BY <1>1, ReadStands
  <1>3. /\ Share!Connects(Share!Freed, refuses) /\ shareHandle' \in {-1, sharePosition}
    BY <1>1 DEF Share!Mend, Share!Sought, Share!NoHandle
  <1>4. shareContext' \in {"none", "up", "lost"} /\ shareContexts' \in Nat /\ Share!NothingLeaks'
    BY <1>1, <1>2, <1>3, MendKeeps
  <1>5. FileInv' /\ shareHandle' \in {-1} \cup Nat /\ sharePosition' = shareCursor + Len(shareCall.out)
    BY <1>1, <1>2, <1>3, <1>4 DEF FileInv, ShareInv, ShareTypes
  <1>6. CASE Share!AfterMend(refuses).goesOn
    <2>1. /\ shareCall' = [shareCall EXCEPT !.mended = TRUE]
          /\ UNCHANGED <<shareCursor, shareAnswer, shareStage, shareLocal>>
      BY <1>6 DEF Share!ReadMend, Share!AfterMend, Share!copy
    <2>2. shareCall \in CallType
      BY DEF ShareInv, ShareTypes, CallType
    <2>3. /\ shareCall' \in CallType /\ shareCall'.who = shareCall.who /\ shareCall'.want = shareCall.want
          /\ shareCall'.out = shareCall.out
      BY <2>1, <2>2 DEF CallType
    <2>4. ReadInv'
      BY <1>1, <1>2, <1>5, <2>1, <2>3 DEF ShareInv, ReadInv, IsPart
    <2>5. CopyInv'
      BY <1>1, <2>1, <2>3 DEF ShareInv, CopyInv, IsPart, Share!File, Share!Absent, Share!Whole
    <2>6. ShareTypes'
      BY <1>1, <1>4, <1>5, <2>1, <2>3 DEF ShareInv, ShareTypes, CallType
    <2> QED
      BY <1>5, <2>4, <2>5, <2>6 DEF ShareInv
  <1>7. CASE ~Share!AfterMend(refuses).goesOn
    <2>1. Share!Returns(Share!Returned, shareCall.out) /\ Share!Written(shareCall.out)
      BY <1>7 DEF Share!ReadMend
    <2>2. \/ Share!Returned = Len(shareCall.out) /\ Share!Returned # 0
          \/ Share!Returned = -1 /\ Len(shareCall.out) = 0
      BY <1>2 DEF Share!Returned, Share!Done
    <2> QED
      BY <1>1, <1>2, <1>4, <1>5, <2>1, <2>2, EndsKeep
  <1> QED
    BY <1>6, <1>7

-----------------------------------------------------------------------------
(* ps5_smb_stage *)

LEMMA StageBegins ==
    ASSUME ShareInv, NEW refuses \in BOOLEAN, NEW creates \in BOOLEAN, Share!Stage(refuses, creates)
    PROVE  ShareInv'
  <1>1. /\ Share!Idle /\ Share!OpenFile(refuses) /\ UNCHANGED <<shareUp, shareDir, shareCall, shareAnswer>>
    BY DEF Share!Stage
  <1>2. /\ FileInv' /\ shareContext' \in {"none", "up", "lost"} /\ shareContexts' \in Nat
        /\ shareHandle' \in {-1} \cup Nat /\ sharePosition' = 0 /\ shareCursor' = 0
        /\ shareOpened' \in BOOLEAN /\ shareOpened' = Share!Mends(refuses)
    BY <1>1, OpenKeeps
  <1>3. CASE ~Share!Mends(refuses)
    <2>1. UNCHANGED <<shareStage, shareLocal>>
      BY <1>3 DEF Share!Stage, Share!copy
    <2>2. ReadInv' /\ CopyInv'
      BY <1>1, <1>2, <2>1, IdleKeeps
    <2>3. ShareTypes'
      BY <1>1, <1>2, <2>1 DEF ShareInv, ShareTypes
    <2> QED
      BY <1>2, <2>2, <2>3 DEF ShareInv
  <1>4. CASE Share!Mends(refuses)
    <2>1. /\ shareCall' = Share!NoRead /\ shareCall'.who = "none" /\ shareCall'.out = <<>>
          /\ shareLocal \in {Share!File, Share!Absent}
      BY <1>1, ShareIdle DEF Share!NoRead
    <2>2. IsPart(<<>>, 0) /\ Len(<<>>) = 0
      BY NothingIsPart
    <2>3. ReadInv'
      <3>1. IsPart(shareCall.out, shareCursor)' /\ Len(shareCall'.out) = 0
        BY <1>2, <2>1, <2>2 DEF IsPart
      <3> QED
        BY <1>2, <2>1, <3>1 DEF ReadInv, Share!NoRead
    <2>4. shareOpened' = TRUE
      BY <1>2, <1>4
    <2>5. 0 \in -1 .. ShareLength
      BY ShareBounds
    <2>6. CASE creates
      <3>1. shareStage' = [pc |-> "copy", to |-> TRUE, copied |-> 0, got |-> 0] /\ shareLocal' = <<>>
        BY <1>4, <2>6 DEF Share!Stage, Share!NoStage
      <3>2. shareStage' \in StageType /\ IsPart(shareLocal, 0)'
        BY <2>2, <2>5, <3>1 DEF StageType, IsPart
      <3>3. CopyInv'
        BY <1>2, <2>1, <2>2, <2>4, <3>1, <3>2 DEF CopyInv
      <3>4. ShareTypes'
        BY <1>1, <1>2, <3>2 DEF ShareInv, ShareTypes, StageType
      <3> QED
        BY <1>2, <2>3, <3>3, <3>4 DEF ShareInv
    <2>7. CASE ~creates
      <3>1. shareStage' = [pc |-> "close", to |-> FALSE, copied |-> 0, got |-> 0] /\ shareLocal' = shareLocal
        BY <1>4, <2>7 DEF Share!Stage, Share!NoStage
      <3>2. shareStage' \in StageType
        BY <2>5, <3>1 DEF StageType
      <3>3. CopyInv'
        BY <2>1, <3>1 DEF CopyInv, Share!File, Share!Absent
      <3>4. ShareTypes'
        BY <1>1, <1>2, <3>2 DEF ShareInv, ShareTypes, StageType
      <3> QED
        BY <1>2, <2>3, <3>3, <3>4 DEF ShareInv
    <2> QED
      BY <2>6, <2>7
  <1> QED
    BY <1>3, <1>4

LEMMA StageSteps == ASSUME ShareInv, Share!StageStep PROVE ShareInv'
  <1>1. CASE Share!NextBlock
    <2>1. /\ shareStage.pc = "copy" /\ shareCall = Share!NoRead /\ Share!Begin("stage", ShareBlock)
          /\ shareStage' = [shareStage EXCEPT !.copied = @ + shareStage.got]
          /\ UNCHANGED <<shareUp, shareContext, shareContexts, shareHandle, sharePosition, shareOpened,
                         shareDir, shareCursor, shareAnswer, shareLocal>>
      BY <1>1 DEF Share!NextBlock, Share!link
    <2>2. shareCall.who = "none"
      BY <2>1 DEF Share!NoRead
    <2>3. /\ shareOpened /\ shareStage.to /\ IsPart(shareLocal, 0) /\ Len(shareLocal) = shareCursor
          /\ shareStage.got >= 0 /\ shareCursor = shareStage.copied + shareStage.got
      BY <2>1, <2>2 DEF ShareInv, CopyInv
    <2>4. ReadInv' /\ shareCall' \in CallType /\ shareCall'.who = "stage"
      BY <2>1, <2>2, <2>3, ShareBounds, BeginsRead
    <2>5. shareStage \in StageType /\ shareCursor \in Nat
      BY DEF ShareInv, ShareTypes, StageType
    <2>6. /\ shareStage' \in StageType /\ shareStage'.pc = "copy" /\ shareStage'.to = shareStage.to
          /\ shareStage'.copied = shareCursor
      BY <2>1, <2>3, <2>5 DEF StageType
    <2>7. ShareTypes' /\ FileInv'
      BY <2>1, <2>4, <2>6 DEF ShareInv, ShareTypes, FileInv, Share!NothingLeaks, CallType, StageType
    <2>8. IsPart(shareLocal, 0)'
      BY <2>1, <2>3 DEF IsPart
    <2>9. CopyInv'
      BY <2>1, <2>3, <2>4, <2>6, <2>8 DEF CopyInv
    <2> QED
      BY <2>4, <2>7, <2>9 DEF ShareInv
  <1>2. CASE Share!WriteFails
    <2>1. /\ shareStage.pc = "copy" /\ shareCall = Share!NoRead /\ shareStage.got > 0
          /\ shareStage' = [shareStage EXCEPT !.pc = "close"]
          /\ UNCHANGED <<shareUp, shareContext, shareContexts, shareHandle, sharePosition, shareOpened,
                         shareDir, shareCall, shareCursor, shareAnswer>>
      BY <1>2 DEF Share!WriteFails, Share!link
    <2>2. shareStage \in StageType
      BY DEF ShareInv, ShareTypes, StageType
    <2>3. /\ shareStage' \in StageType /\ shareStage'.pc = "close" /\ shareStage'.to = shareStage.to
          /\ shareStage'.got = shareStage.got
      BY <2>1, <2>2 DEF StageType
    <2>4. shareStage.to = TRUE /\ shareCall'.who = "none"
      BY <2>1, <2>2 DEF ShareInv, CopyInv, Share!NoRead, StageType
    <2>5. ~Share!Whole'
      BY <2>1, <2>2, <2>3 DEF Share!Whole, StageType
    <2>6. CopyInv'
      BY <2>3, <2>4, <2>5 DEF CopyInv
    <2>7. ShareTypes' /\ FileInv' /\ ReadInv'
      BY <2>1, <2>3 DEF ShareInv, ShareTypes, FileInv, ReadInv, IsPart, Share!NothingLeaks, Share!NoRead, StageType
    <2> QED
      BY <2>6, <2>7 DEF ShareInv
  <1>3. CASE Share!Answered
    <2>1. /\ shareStage.pc \in {"whole", "failed"} /\ shareStage' = Share!NoStage
          /\ UNCHANGED <<shareUp, shareContext, shareContexts, shareHandle, sharePosition, shareOpened,
                         shareDir, shareCall, shareCursor, shareAnswer, shareLocal>>
      BY <1>3 DEF Share!Answered, Share!link
    <2>2. shareStage' \in StageType /\ shareStage'.pc = "none"
      BY <2>1, ShareBounds DEF StageType, Share!NoStage
    <2>3. shareCall.who \notin {"core", "stage"} /\ shareLocal \in {Share!File, Share!Absent}
      BY <2>1 DEF ShareInv, CopyInv
    <2>4. CopyInv'
      BY <2>1, <2>2, <2>3 DEF CopyInv, Share!File, Share!Absent
    <2>5. ShareTypes' /\ FileInv' /\ ReadInv'
      BY <2>1, <2>2 DEF ShareInv, ShareTypes, FileInv, ReadInv, IsPart, Share!NothingLeaks, Share!NoRead, StageType
    <2> QED
      BY <2>4, <2>5 DEF ShareInv
  <1>4. ASSUME NEW closed \in BOOLEAN, Share!EndStage(closed) PROVE ShareInv'
    <2>1. /\ shareStage.pc = "close" /\ Share!CloseFile
          /\ shareStage' = [shareStage EXCEPT !.pc = IF Share!Kept(closed) THEN "whole" ELSE "failed"]
          /\ shareLocal' = IF Share!Kept(closed) \/ ~shareStage.to THEN shareLocal ELSE Share!Absent
          /\ UNCHANGED <<shareDir, shareCall, shareAnswer>>
      BY <1>4 DEF Share!EndStage
    <2>2. /\ FileInv' /\ shareContext' \in {"none", "up", "lost"} /\ shareContexts' \in Nat
          /\ shareHandle' \in {-1} \cup Nat /\ UNCHANGED <<shareUp, sharePosition, shareCursor>> /\ shareOpened' = FALSE
      BY <2>1, CloseKeeps
    <2>3. shareStage \in StageType
      BY DEF ShareInv, ShareTypes, StageType
    <2>4. /\ shareStage' \in StageType
          /\ shareStage'.pc = IF Share!Kept(closed) THEN "whole" ELSE "failed"
      BY <2>1, <2>3 DEF StageType
    <2>5. shareCall.who \notin {"core", "stage"}
      BY <2>1 DEF ShareInv, CopyInv
    <2>6. shareCall.who = "none" /\ shareCall = Share!NoRead
      BY <2>5 DEF ShareInv, ShareTypes, ReadInv
    <2>7. CopyInv'
      <3>1. CASE Share!Kept(closed)
        <4>1. shareLocal' = Share!File /\ shareStage'.pc = "whole"
          BY <2>1, <2>4, <3>1 DEF ShareInv, CopyInv, Share!Kept
        <4> QED
          BY <2>1, <2>6, <4>1 DEF CopyInv, Share!File
      <3>2. CASE ~Share!Kept(closed)
        <4>1. shareLocal' \in {Share!File, Share!Absent} /\ shareStage'.pc = "failed"
          BY <2>1, <2>4, <3>2 DEF ShareInv, CopyInv
        <4> QED
          BY <2>1, <2>6, <4>1 DEF CopyInv, Share!File, Share!Absent
      <3> QED
        BY <3>1, <3>2
    <2>8. ReadInv'
      BY <2>1, <2>2, <2>6 DEF ShareInv, ReadInv, IsPart, Share!NoRead
    <2>9. ShareTypes'
      BY <2>1, <2>2, <2>4 DEF ShareInv, ShareTypes, StageType
    <2> QED
      BY <2>2, <2>7, <2>8, <2>9 DEF ShareInv
  <1> QED
    BY <1>1, <1>2, <1>3, <1>4 DEF Share!StageStep

LEMMA ShareStep == ASSUME ShareInv, Share!Next PROVE ShareInv'
  <1>1. CASE Share!Drop \/ Share!Return \/ Share!OpenDir \/ Share!CloseDir
    BY <1>1, ServerKeeps
  <1>2. CASE Share!Close \/ \E refuses \in BOOLEAN : Share!Open(refuses)
    BY <1>2, CallerKeeps
  <1>3. CASE Share!ReadStep
    <2>1. ASSUME NEW n \in 1 .. ShareMaxRead, Share!ReadSome(n) PROVE ShareInv'
      BY <2>1, ReadsSome
    <2>2. ASSUME NEW refuses \in BOOLEAN, Share!ReadMend(refuses) PROVE ShareInv'
      BY <2>2, ReadMends
    <2> QED
      BY <1>3, <2>1, <2>2, ReadsEnd DEF Share!ReadStep
  <1>4. CASE Share!StageStep
    BY <1>4, StageSteps
  <1>5. ASSUME NEW n \in ShareAsks, Share!Read(n) PROVE ShareInv'
    BY <1>5, ReadBegins
  <1>6. ASSUME NEW offset \in -1 .. 1, NEW whence \in {"set", "cur", "end"},
               Share!Seek(offset, whence) \/ \E refuses \in BOOLEAN : Share!SeekMend(refuses, offset, whence)
        PROVE  ShareInv'
    BY <1>6, SeeksKeep
  <1>7. ASSUME NEW refuses \in BOOLEAN, NEW creates \in BOOLEAN, Share!Stage(refuses, creates) PROVE ShareInv'
    BY <1>7, StageBegins
  <1> QED
    BY <1>1, <1>2, <1>3, <1>4, <1>5, <1>6, <1>7 DEF Share!Next

LEMMA ShareSays == ShareInv => ShareReadsAsLocal
  <1> SUFFICES ASSUME ShareInv PROVE ShareReadsAsLocal
    OBVIOUS
  <1>1. Share!TypeOK
    BY DEF ShareInv, ShareTypes, Share!TypeOK, Share!NoHandle
  <1>2. Share!ReadsAsLocal
    <2>1. shareCall.out = SubSeq(Share!File, shareCursor + 1, shareCursor + Len(shareCall.out))
      BY PartIsSlice DEF ShareInv, ShareTypes, ReadInv
    <2> QED
      BY <2>1 DEF ShareInv, ReadInv, Share!ReadsAsLocal
  <1>3. Share!StagedIsWhole
    BY ShareIdle DEF ShareInv, CopyInv, Share!StagedIsWhole
  <1>4. Share!NothingLeaks
    BY DEF ShareInv, FileInv
  <1> QED
    BY <1>1, <1>2, <1>3, <1>4 DEF ShareReadsAsLocal

LEMMA ShareSafe == MCSpec => [](part = "share" => ShareInv)
  <1>1. MCInit => (part = "share" => ShareInv)
    BY ShareInitHolds DEF MCInit
  <1>2. (part = "share" => ShareInv) /\ [MCNext]_MCVars => (part = "share" => ShareInv)'
    <2>1. ASSUME UNCHANGED ShareVars, ShareInv PROVE ShareInv'
      BY <2>1, ReaderKept DEF ShareVars, ShareInv, ShareTypes, FileInv, Share!NothingLeaks
    <2>2. UNCHANGED MCVars => UNCHANGED ShareVars /\ part' = part
      BY DEF MCVars
    <2>3. ASSUME MCNext, ShareInv, part = "share" PROVE ShareInv'
      BY <2>3, ShareStep DEF MCNext
    <2>4. MCNext => part' = part
      BY DEF MCNext
    <2> QED
      BY <2>1, <2>2, <2>3, <2>4
  <1> QED
    BY <1>1, <1>2, PTL DEF MCSpec

-----------------------------------------------------------------------------
(* The controllers: the ports and their users, rumble between two threads, *)
(* and the stylus's motion.                                                *)

LEMMA InputBounds ==
    /\ PadStarter \in PadUsers /\ "none" \notin PadUsers
    /\ PadLastPort \in Nat /\ PadMaxLevel \in Nat /\ PadWidth \in Nat /\ PadLimit \in Nat
    /\ PadBounds \in [{"sign", "reset", "dead", "close", "touch", "rumble"} -> Nat]
  BY DevicesAssumption DEF Pad!InputAssumption

Levels == [{"strong", "weak"} -> 0 .. PadMaxLevel]
TouchType ==
    [active : BOOLEAN, id : Nat, x : 0 .. PadWidth, pending : -PadLimit .. PadLimit, frame : Int,
     given : Int, moved : Int, cut : BOOLEAN]
PadType ==
    [user : PadUsers, connected : BOOLEAN, sampled : BOOLEAN, announced : BOOLEAN, touch : TouchType,
     level : Levels, motors : Levels, lock : {"free", "main", "thread"}, read : Levels,
     haptic : BOOLEAN, stop : BOOLEAN, thread : {"none", "plays", "falls", "ended"}]
MainType ==
    [pc : {"off", "out", "leave", "enter", "read", "rumble", "destroy"}, port : Nat,
     left : SUBSET PadUsers, list : SUBSET PadUsers]

\* The haptic stream plays, or the motors have the levels; a thread that falls back holds the
\* lock, with the levels it read.
Feels(c) ==
    /\ c.haptic <=> c.thread = "plays"
    /\ c.lock = "thread" <=> c.thread = "falls"
    /\ c.lock = "thread" => c.read = c.level
    /\ c.lock = "free" /\ ~c.haptic => c.motors = c.level
Moves(t) == ~t.cut => t.given + t.pending = t.moved

PadTypes ==
    /\ padSigned \subseteq PadUsers /\ padTold \subseteq Pad!Ports
    /\ padPads \in [Pad!Ports -> PadType \cup {Pad!NoPad}] /\ padLeaving \in PadType \cup {Pad!NoPad}
    /\ padMain \in MainType /\ padFinger \in [id : Nat, x : 0 .. PadWidth] /\ padStylus \in BOOLEAN
    /\ padLeft \in [{"sign", "reset", "dead", "close", "touch", "rumble"} -> Nat]
    /\ padLeft.reset <= PadBounds.reset

\* The frontend's thread has the lock of the port it sets, and of no other.
Rumbles ==
    /\ \A p \in Pad!Ports : Pad!Held(p) =>
        /\ Feels(padPads[p]) /\ Moves(padPads[p].touch)
        /\ padPads[p].lock = "main" <=> Pad!At("rumble") /\ padMain.port = p
    /\ Pad!At("rumble") => padMain.port \in Pad!Ports /\ Pad!Held(padMain.port)

\* A scan has been through the ports before its place, and knows the users it then seats.
Seats ==
    /\ \A p, q \in Pad!Ports : Pad!Held(p) /\ padPads[p].user = padPads[q].user => p = q
    /\ Pad!At("off") => \A p \in Pad!Ports : ~Pad!Held(p)
    /\ Pad!At("destroy") => \A p \in Pad!Ports : p < padMain.port => ~Pad!Held(p)
    /\ Pad!At("leave") \/ Pad!At("enter") => padMain.left \subseteq padMain.list
    /\ Pad!At("leave") => \A p \in Pad!Ports : p > 0 /\ p < padMain.port /\ Pad!Held(p) => padPads[p].user \in padMain.list
    /\ Pad!At("enter") \/ (Pad!At("read") /\ padPart = "users") =>
        \A p \in Pad!Ports : p > 0 /\ Pad!Held(p) => padPads[p].user \in padMain.list

Tells ==
    /\ Pad!At("destroy") => padTold = {}
    /\ ~Pad!At("destroy") /\ padLeft.reset = PadBounds.reset =>
        padTold = {p \in Pad!Ports : Pad!Held(p) /\ padPads[p].announced}

PadInv == PadTypes /\ Rumbles /\ Seats /\ Tells

LEMMA HeldIs == ASSUME PadTypes, NEW p \in Pad!Ports
                PROVE  /\ Pad!Held(p) <=> padPads[p] \in PadType
                       /\ ~Pad!Held(p) <=> padPads[p] = Pad!NoPad
  <1>1. padPads[p] \in PadType \cup {Pad!NoPad}
    BY DEF PadTypes
  <1>2. \A c \in PadType : c.user # "none"
    BY InputBounds DEF PadType
  <1>3. Pad!NoPad.user = "none"
    BY DEF Pad!NoPad
  <1> QED
    BY <1>1, <1>2, <1>3 DEF Pad!Held

LEMMA OpenedFits ==
    ASSUME NEW u \in PadUsers, NEW haptic \in BOOLEAN
    PROVE  /\ Pad!Opened(u, haptic) \in PadType /\ Feels(Pad!Opened(u, haptic)) /\ Moves(Pad!Opened(u, haptic).touch)
           /\ Pad!Opened(u, haptic).user = u /\ Pad!Opened(u, haptic).announced = FALSE
           /\ Pad!Opened(u, haptic).lock = "free"
  <1>1. Pad!NoTouch \in TouchType
    BY InputBounds DEF Pad!NoTouch, TouchType
  <1>2. [m \in {"strong", "weak"} |-> 0] \in Levels
    BY InputBounds DEF Levels
  <1>3. Pad!Opened(u, haptic) \in PadType
    BY <1>1, <1>2 DEF Pad!Opened, PadType, Pad!Motors
  <1>4. Feels(Pad!Opened(u, haptic))
    BY DEF Pad!Opened, Feels
  <1>5. Moves(Pad!Opened(u, haptic).touch)
    BY DEF Pad!Opened, Moves, Pad!NoTouch
  <1> QED
    BY <1>3, <1>4, <1>5 DEF Pad!Opened

LEMMA OpensFits ==
    ASSUME NEW u \in PadUsers, NEW c \in Pad!Opens(u)
    PROVE  \/ c = Pad!NoPad
           \/ /\ c \in PadType /\ Feels(c) /\ Moves(c.touch) /\ c.user = u
              /\ c.announced = FALSE /\ c.lock = "free"
  <1>1. c \in {Pad!NoPad, Pad!Opened(u, TRUE), Pad!Opened(u, FALSE)}
    BY DEF Pad!Opens
  <1>2. TRUE \in BOOLEAN /\ FALSE \in BOOLEAN
    OBVIOUS
  <1> QED
    BY <1>1, <1>2, OpenedFits

LEMMA TouchedFits ==
    ASSUME NEW t \in TouchType, Moves(t), PadTypes
    PROVE  Pad!Touched(t) \in TouchType /\ Moves(Pad!Touched(t))
  <1>1. padFinger \in [id : Nat, x : 0 .. PadWidth]
    BY DEF PadTypes
  <1>2. CASE padFinger = Pad!NoFinger
    <2>1. Pad!Touched(t) = [t EXCEPT !.active = FALSE, !.id = 0, !.x = 0]
      BY <1>2 DEF Pad!Touched
    <2>2. 0 \in 0 .. PadWidth /\ 0 \in Nat
      BY InputBounds
    <2>3. Pad!Touched(t) \in TouchType
      BY <2>1, <2>2 DEF TouchType
    <2>4. /\ Pad!Touched(t).given = t.given /\ Pad!Touched(t).moved = t.moved
          /\ Pad!Touched(t).pending = t.pending /\ Pad!Touched(t).cut = t.cut
      BY <2>1 DEF TouchType
    <2> QED
      BY <2>3, <2>4 DEF Moves
  <1>3. CASE padFinger # Pad!NoFinger
    <2> DEFINE same == t.active /\ padFinger.id = t.id
               d == IF same THEN padFinger.x - t.x ELSE 0
               sum == t.pending + d
    <2>1. d \in Int /\ sum \in Int
      BY <1>1, InputBounds DEF TouchType
    <2>2. Pad!Clamp(sum) \in -PadLimit .. PadLimit
      <3> HIDE DEF sum
      <3> QED
        BY <2>1, InputBounds DEF Pad!Clamp
    <2>3. Pad!Touched(t) =
            [t EXCEPT !.active = TRUE, !.id = padFinger.id, !.x = padFinger.x,
                      !.pending = IF same THEN Pad!Clamp(sum) ELSE t.pending,
                      !.moved = t.moved + d,
                      !.cut = t.cut \/ Pad!Clamp(sum) # sum]
      BY <1>3 DEF Pad!Touched, Pad!Pending
    <2>4. ~same => d = 0
      OBVIOUS
    <2> DEFINE cl == Pad!Clamp(sum)
    <2>5. sum = t.pending + d
      OBVIOUS
    <2> HIDE DEF cl, sum, d, same
    <2>6. Pad!Touched(t) \in TouchType
      <3>1. (IF same THEN cl ELSE t.pending) \in -PadLimit .. PadLimit
        BY <2>2 DEF TouchType, cl
      <3>2. t.moved + d \in Int
        BY <2>1 DEF TouchType
      <3>3. (t.cut \/ cl # sum) \in BOOLEAN
        OBVIOUS
      <3> QED
        BY <1>1, <2>3, <3>1, <3>2, <3>3 DEF TouchType, cl
    <2>7. /\ Pad!Touched(t).given = t.given /\ Pad!Touched(t).moved = t.moved + d
          /\ Pad!Touched(t).pending = (IF same THEN cl ELSE t.pending)
          /\ Pad!Touched(t).cut = (t.cut \/ cl # sum)
      BY <2>3 DEF TouchType, cl
    <2>8. ASSUME ~Pad!Touched(t).cut
          PROVE  Pad!Touched(t).given + Pad!Touched(t).pending = Pad!Touched(t).moved
      <3>1. ~t.cut /\ cl = sum
        BY <2>7, <2>8
      <3>2. t.given + t.pending = t.moved /\ t.given \in Int /\ t.pending \in Int /\ t.moved \in Int
        BY <3>1 DEF Moves, TouchType
      <3>3. CASE same
        BY <2>1, <2>5, <2>7, <3>1, <3>2, <3>3
      <3>4. CASE ~same
        BY <2>1, <2>4, <2>7, <3>1, <3>2, <3>4
      <3> QED
        BY <3>3, <3>4
    <2> QED
      BY <2>6, <2>8 DEF Moves
  <1> QED
    BY <1>2, <1>3

\* A poll changes what was sampled and the touch, nothing else of a controller.
LEMMA ReadFits ==
    ASSUME PadTypes, NEW p \in Pad!Ports, padPads[p] \in PadType, Moves(padPads[p].touch), NEW r \in Pad!Reads(p)
    PROVE  LET c == Pad!Read(p, r) IN
           /\ c \in PadType /\ Moves(c.touch) /\ c.user = padPads[p].user /\ c.announced = padPads[p].announced
           /\ c.lock = padPads[p].lock /\ (Feels(padPads[p]) => Feels(c))
  <1> DEFINE b == IF p # 0 \/ ~padStylus THEN [padPads[p] EXCEPT !.touch = Pad!NoTouch] ELSE padPads[p]
  <1>1. Pad!NoTouch \in TouchType /\ Moves(Pad!NoTouch)
    BY InputBounds DEF Pad!NoTouch, TouchType, Moves
  <1>2. padPads[p] \in PadType
    OBVIOUS
  <1>3. /\ b \in PadType /\ Moves(b.touch) /\ b.user = padPads[p].user /\ b.announced = padPads[p].announced
        /\ b.lock = padPads[p].lock /\ (Feels(padPads[p]) => Feels(b))
    <2>1. CASE p # 0 \/ ~padStylus
      BY <1>1, <2>1 DEF PadType, Feels
    <2>2. CASE ~(p # 0 \/ ~padStylus)
      BY <2>2
    <2> QED
      BY <2>1, <2>2
  <1> DEFINE s == [b EXCEPT !.sampled = TRUE, !.connected = r.there,
                      !.touch = IF r.there /\ ~r.intercepted /\ p = 0 /\ padStylus
                                THEN Pad!Touched(b.touch) ELSE Pad!NoTouch]
  <1>4. Pad!Read(p, r) = CASE r.kind = "none" -> b
                           [] r.kind = "refused" -> [b EXCEPT !.sampled = FALSE, !.touch = Pad!NoTouch]
                           [] r.kind = "samples" -> s
    BY DEF Pad!Read
  <1>5. b.touch \in TouchType
    BY <1>3 DEF PadType
  <1>6. Pad!Touched(b.touch) \in TouchType /\ Moves(Pad!Touched(b.touch))
    BY <1>3, <1>5, TouchedFits
  <1> HIDE DEF b
  <1>7. CASE r.kind = "none"
    BY <1>3, <1>4, <1>7
  <1>8. CASE r.kind = "refused"
    <2>1. Pad!Read(p, r) = [b EXCEPT !.sampled = FALSE, !.touch = Pad!NoTouch]
      BY <1>4, <1>8
    <2> QED
      BY <1>1, <1>3, <2>1 DEF PadType, Feels
  <1>9. CASE r.kind \notin {"none", "refused"}
    <2>1. r.kind = "samples" /\ r.there \in BOOLEAN
      <3> DEFINE over == IF padPart = "touch" THEN BOOLEAN ELSE {FALSE}
      <3>1. \/ r \in {[kind |-> "none"], [kind |-> "refused"]}
            \/ r \in [kind : {"samples"}, there : BOOLEAN, intercepted : over]
        BY DEF Pad!Reads
      <3>2. r \notin {[kind |-> "none"], [kind |-> "refused"]}
        BY <1>9
      <3> HIDE DEF over
      <3> QED
        BY <3>1, <3>2
    <2> DEFINE t == IF r.there /\ ~r.intercepted /\ p = 0 /\ padStylus THEN Pad!Touched(b.touch) ELSE Pad!NoTouch
    <2>2. t \in TouchType /\ Moves(t)
      BY <1>1, <1>6
    <2>3. Pad!Read(p, r) = [b EXCEPT !.sampled = TRUE, !.connected = r.there, !.touch = t]
      BY <1>4, <2>1
    <2> HIDE DEF t
    <2> QED
      BY <1>3, <2>1, <2>2, <2>3 DEF PadType, Feels
  <1> QED
    BY <1>7, <1>8, <1>9

LEMMA OnePad ==
    ASSUME PadTypes, NEW p \in Pad!Ports, NEW c \in PadType \cup {Pad!NoPad}, Pad!Pad(p, c)
    PROVE  /\ padPads' \in [Pad!Ports -> PadType \cup {Pad!NoPad}]
           /\ padPads'[p] = c /\ \A q \in Pad!Ports : q # p => padPads'[q] = padPads[q]
  BY DEF PadTypes, Pad!Pad

LEMMA PadInitHolds == Pad!Init => PadInv
  <1> SUFFICES ASSUME Pad!Init PROVE PadInv
    OBVIOUS
  <1>1. /\ padSigned \subseteq PadUsers /\ padPads = [p \in Pad!Ports |-> Pad!NoPad] /\ padTold = {}
        /\ padMain = [pc |-> "off", port |-> 0, left |-> {}, list |-> {}] /\ padLeaving = Pad!NoPad
        /\ padFinger = [id |-> 0, x |-> 0] /\ padStylus = FALSE /\ padLeft = PadBounds
    BY DEF Pad!Init, Pad!Out, Pad!NoFinger
  <1>2. \A p \in Pad!Ports : ~Pad!Held(p)
    BY <1>1 DEF Pad!Held, Pad!NoPad
  <1>3. padMain \in MainType /\ padMain.pc = "off"
    BY <1>1 DEF MainType
  <1>4. PadTypes
    <2>1. padLeft.reset <= PadBounds.reset
      BY <1>1, InputBounds
    <2>2. padFinger \in [id : Nat, x : 0 .. PadWidth]
      BY <1>1, InputBounds
    <2> QED
      BY <1>1, <1>3, <2>1, <2>2, InputBounds DEF PadTypes
  <1>5. Rumbles /\ Seats /\ Tells
    BY <1>1, <1>2, <1>3 DEF Rumbles, Seats, Tells, Pad!At
  <1> QED
    BY <1>4, <1>5 DEF PadInv

\* A bound that is spent.
LEMMA PadSpends ==
    ASSUME PadTypes, NEW b \in {"sign", "reset", "dead", "close", "touch", "rumble"}, Pad!Spend(b)
    PROVE  /\ padLeft' \in [{"sign", "reset", "dead", "close", "touch", "rumble"} -> Nat]
           /\ padLeft'.reset <= padLeft.reset /\ padLeft'.reset <= PadBounds.reset
           /\ b # "reset" => padLeft'.reset = padLeft.reset
           /\ b = "reset" => padLeft'.reset < PadBounds.reset
  <1>1. padLeft[b] > 0 /\ padLeft' = [padLeft EXCEPT ![b] = padLeft[b] - 1]
    BY DEF Pad!Spend
  <1>2. padLeft["reset"] <= PadBounds["reset"]
    BY DEF PadTypes
  <1>3. padLeft["reset"] \in Nat /\ PadBounds["reset"] \in Nat /\ padLeft[b] \in Nat
    BY InputBounds DEF PadTypes
  <1>4. padLeft' \in [{"sign", "reset", "dead", "close", "touch", "rumble"} -> Nat]
    BY <1>1, <1>3 DEF PadTypes
  <1>5. padLeft'["reset"] = IF b = "reset" THEN padLeft["reset"] - 1 ELSE padLeft["reset"]
    BY <1>1 DEF PadTypes
  <1> QED
    BY <1>2, <1>3, <1>4, <1>5

\* The users, the finger and a controller that is closed change nothing of those on the ports.
LEMMA AsideKeeps ==
    ASSUME PadInv, UNCHANGED <<padPads, padMain, padTold, padPart>>, padLeft'.reset = padLeft.reset
    PROVE  Rumbles' /\ Seats' /\ Tells'
  <1>1. Rumbles'
    BY DEF PadInv, Rumbles, Pad!Held, Pad!At
  <1>2. Seats'
    BY DEF PadInv, Seats, Pad!Held, Pad!At
  <1>3. Tells'
    BY DEF PadInv, Tells, Pad!Held, Pad!At
  <1> QED
    BY <1>1, <1>2, <1>3

LEMMA AsideSteps ==
    ASSUME PadInv, Pad!CloseEnds \/ Pad!HapticEnds \/ Pad!Sign \/ Pad!Finger \/ Pad!Stylus PROVE PadInv'
  <1>1. CASE Pad!CloseEnds \/ Pad!HapticEnds
    <2>1. UNCHANGED <<padSigned, padPads, padMain, padTold, padFinger, padStylus, padPart, padLeft>>
      BY <1>1 DEF Pad!CloseEnds, Pad!HapticEnds
    <2>2. padLeaving' \in PadType \cup {Pad!NoPad}
      <3>1. CASE Pad!CloseEnds
        BY <3>1 DEF Pad!CloseEnds
      <3>2. CASE Pad!HapticEnds
        <4>1. padLeaving \in PadType
          BY <3>2 DEF Pad!HapticEnds, Pad!Closing, Pad!NoPad, PadInv, PadTypes
        <4>2. padLeaving' \in {[padLeaving EXCEPT !.thread = "ended"], Pad!Fallen(padLeaving)}
          BY <3>2 DEF Pad!HapticEnds
        <4>3. [padLeaving EXCEPT !.thread = "ended"] \in PadType
          BY <4>1 DEF PadType
        <4>4. Pad!Fallen(padLeaving) \in PadType
          BY <4>1 DEF Pad!Fallen, PadType
        <4> QED
          BY <4>2, <4>3, <4>4
      <3> QED
        BY <1>1, <3>1, <3>2
    <2>3. PadTypes'
      BY <2>1, <2>2 DEF PadInv, PadTypes, Pad!Ports, Pad!NoPad
    <2> QED
      BY <2>1, <2>3, AsideKeeps DEF PadInv
  <1>2. CASE Pad!Sign
    <2>1. /\ Pad!Spend("sign") /\ padSigned' \subseteq PadUsers
          /\ UNCHANGED <<padPads, padMain, padLeaving, padTold, padFinger, padStylus, padPart>>
      BY <1>2 DEF Pad!Sign, Pad!SignIn, Pad!SignOut, PadInv, PadTypes
    <2>2. PadTypes' /\ padLeft'.reset = padLeft.reset
      BY <2>1, PadSpends DEF PadInv, PadTypes, Pad!Ports, Pad!NoPad
    <2> QED
      BY <2>1, <2>2, AsideKeeps DEF PadInv
  <1>3. CASE Pad!Finger
    <2>1. /\ Pad!Spend("touch")
          /\ UNCHANGED <<padSigned, padPads, padMain, padLeaving, padTold, padStylus, padPart>>
      BY <1>3 DEF Pad!Finger
    <2>2. padLeft.touch \in Nat /\ padFinger.id \in Nat
      BY DEF PadInv, PadTypes
    <2>3. padFinger' \in [id : Nat, x : 0 .. PadWidth]
      <3>1. padFinger' \in {Pad!NoFinger} \cup [id : {padLeft.touch}, x : 0 .. PadWidth]
                            \cup [id : {padFinger.id} \ {0}, x : 0 .. PadWidth]
        BY <1>3 DEF Pad!Finger
      <3>2. Pad!NoFinger \in [id : Nat, x : 0 .. PadWidth]
        BY InputBounds DEF Pad!NoFinger
      <3> QED
        BY <2>2, <3>1, <3>2
    <2>4. PadTypes' /\ padLeft'.reset = padLeft.reset
      BY <2>1, <2>3, PadSpends DEF PadInv, PadTypes, Pad!Ports, Pad!NoPad
    <2> QED
      BY <2>1, <2>4, AsideKeeps DEF PadInv
  <1>4. CASE Pad!Stylus
    <2>1. /\ padStylus' \in BOOLEAN
          /\ UNCHANGED <<padSigned, padPads, padMain, padLeaving, padTold, padFinger, padPart, padLeft>>
      BY <1>4 DEF Pad!Stylus
    <2>2. PadTypes'
      BY <2>1 DEF PadInv, PadTypes, Pad!Ports, Pad!NoPad
    <2> QED
      BY <2>1, <2>2, AsideKeeps DEF PadInv
  <1> QED
    BY <1>1, <1>2, <1>3, <1>4

\* What stays true of the controllers when none of them, or one whose user and notice stay, changes.
LEMMA SameUsers ==
    ASSUME PadInv, padPads' \in [Pad!Ports -> PadType \cup {Pad!NoPad}],
           \A q \in Pad!Ports : /\ padPads'[q].user = padPads[q].user
                                /\ Pad!Held(q) => padPads'[q].announced = padPads[q].announced,
           padMain.pc = "out" \/ padMain.pc = "rumble" \/ padMain.pc = "off" \/ padMain' = padMain,
           padMain' = padMain \/ padMain'.pc \in {"out", "rumble"}
               \/ (padMain'.pc = "read" /\ padPart # "users"),
           padMain.pc = "off" => padMain' = padMain,
           UNCHANGED <<padTold, padPart>>, padLeft'.reset = padLeft.reset
    PROVE  Seats' /\ Tells'
  <1>1. \A q \in Pad!Ports : Pad!Held(q)' <=> Pad!Held(q)
    BY DEF Pad!Held
  <1>2. Seats'
    BY <1>1 DEF PadInv, Seats, Pad!At, Pad!Ports
  <1>3. Tells'
    BY <1>1 DEF PadInv, Tells, Pad!At, Pad!Ports
  <1> QED
    BY <1>2, <1>3

\* Between two scans and polls, and while the rumble is set.
LEMMA PollKeeps == ASSUME PadInv, Pad!Poll PROVE PadInv'
  <1>1. /\ padMain.pc = "out"
        /\ padMain' = IF padPart = "users" THEN Pad!Scan ELSE [Pad!Out EXCEPT !.pc = "read"]
        /\ UNCHANGED <<padSigned, padPads, padLeaving, padTold, padFinger, padStylus, padPart, padLeft>>
    BY DEF Pad!Poll, Pad!At
  <1>2. \A q : Pad!Held(q)' <=> Pad!Held(q)
    BY <1>1 DEF Pad!Held
  <1>3. CASE padPart = "users"
    <2>1. padMain' = [pc |-> "leave", port |-> 1, left |-> padSigned, list |-> padSigned]
      BY <1>1, <1>3 DEF Pad!Scan
    <2>2. padMain' \in MainType /\ padMain'.pc = "leave" /\ padMain'.left = padMain'.list /\ padMain'.port = 1
      BY <2>1 DEF MainType, PadInv, PadTypes
    <2>3. PadTypes'
      BY <1>1, <2>2 DEF PadInv, PadTypes, Pad!Ports, Pad!NoPad
    <2>4. \A p \in Pad!Ports : ~(p > 0 /\ p < 1)
      BY InputBounds DEF Pad!Ports
    <2>5. Rumbles' /\ Seats' /\ Tells'
      BY <1>1, <1>2, <2>2, <2>4 DEF PadInv, Rumbles, Seats, Tells, Pad!At, Pad!Ports
    <2> QED
      BY <2>3, <2>5 DEF PadInv
  <1>4. CASE padPart # "users"
    <2>1. padMain' = [pc |-> "read", port |-> 0, left |-> {}, list |-> {}]
      BY <1>1, <1>4 DEF Pad!Out
    <2>2. padMain' \in MainType /\ padMain'.pc = "read"
      BY <2>1 DEF MainType
    <2>3. PadTypes'
      BY <1>1, <2>2 DEF PadInv, PadTypes, Pad!Ports, Pad!NoPad
    <2>4. Rumbles' /\ Seats' /\ Tells'
      BY <1>1, <1>2, <1>4, <2>2 DEF PadInv, Rumbles, Seats, Tells, Pad!At, Pad!Ports
    <2> QED
      BY <2>3, <2>4 DEF PadInv
  <1> QED
    BY <1>3, <1>4

LEMMA ResetKeeps == ASSUME PadInv, Pad!ResetAutoconfig PROVE PadInv'
  <1>1. /\ padMain.pc = "out" /\ Pad!Spend("reset")
        /\ padPads' = [p \in Pad!Ports |-> IF Pad!Held(p) THEN [padPads[p] EXCEPT !.announced = FALSE] ELSE Pad!NoPad]
        /\ UNCHANGED <<padSigned, padMain, padLeaving, padTold, padFinger, padStylus, padPart>>
    BY DEF Pad!ResetAutoconfig, Pad!At
  <1>2. ASSUME NEW p \in Pad!Ports
        PROVE  /\ padPads'[p] \in PadType \cup {Pad!NoPad} /\ padPads'[p].user = padPads[p].user
               /\ Pad!Held(p) => /\ padPads'[p].lock = padPads[p].lock /\ padPads'[p].touch = padPads[p].touch
                                 /\ Feels(padPads[p]) => Feels(padPads'[p])
    <2>1. CASE Pad!Held(p)
      <3>1. padPads[p] \in PadType /\ padPads'[p] = [padPads[p] EXCEPT !.announced = FALSE]
        BY <1>1, <2>1, HeldIs DEF PadInv
      <3> QED
        BY <3>1 DEF PadType, Feels
    <2>2. CASE ~Pad!Held(p)
      BY <1>1, <2>2, HeldIs DEF PadInv
    <2> QED
      BY <2>1, <2>2
  <1>3. padPads' \in [Pad!Ports -> PadType \cup {Pad!NoPad}]
    BY <1>1, <1>2
  <1>4. \A p \in Pad!Ports : Pad!Held(p)' <=> Pad!Held(p)
    BY <1>2 DEF Pad!Held
  <1>5. padLeft'.reset < PadBounds.reset /\ padLeft' \in [{"sign", "reset", "dead", "close", "touch", "rumble"} -> Nat]
    BY <1>1, PadSpends DEF PadInv
  <1>6. PadTypes'
    <2>1. padLeft'.reset <= PadBounds.reset
      BY <1>1, PadSpends DEF PadInv
    <2> QED
      BY <1>1, <1>3, <1>5, <2>1 DEF PadInv, PadTypes, Pad!Ports, Pad!NoPad
  <1>7. Rumbles'
    BY <1>1, <1>2, <1>4 DEF PadInv, Rumbles, Pad!At, Pad!Ports
  <1>8. Seats'
    BY <1>1, <1>2, <1>4 DEF PadInv, Seats, Pad!At, Pad!Ports
  <1>9. Tells'
    <2>1. padLeft'.reset # PadBounds.reset
      BY <1>5, InputBounds
    <2> QED
      BY <1>1, <2>1 DEF Tells, Pad!At
  <1> QED
    BY <1>6, <1>7, <1>8, <1>9 DEF PadInv

LEMMA InputPollKeeps == ASSUME PadInv, Pad!InputPoll PROVE PadInv'
  <1> DEFINE t == IF padStylus THEN padPads[0].touch ELSE Pad!NoTouch
             t2 == [t EXCEPT !.frame = t.pending, !.pending = 0, !.given = t.given + t.pending]
             c == [padPads[0] EXCEPT !.touch = t2]
  <1>1. /\ padMain.pc = "out" /\ Pad!Held(0) /\ Pad!Pad(0, c)
        /\ UNCHANGED <<padSigned, padMain, padLeaving, padTold, padFinger, padStylus, padPart, padLeft>>
    BY DEF Pad!InputPoll, Pad!At
  <1>2. 0 \in Pad!Ports
    BY InputBounds DEF Pad!Ports
  <1>3. padPads[0] \in PadType /\ Feels(padPads[0]) /\ Moves(padPads[0].touch)
    BY <1>1, <1>2, HeldIs DEF PadInv, Rumbles
  <1>4. Pad!NoTouch \in TouchType /\ Moves(Pad!NoTouch)
    BY InputBounds DEF Pad!NoTouch, TouchType, Moves
  <1>5. t \in TouchType /\ Moves(t)
    BY <1>3, <1>4 DEF PadType
  <1> HIDE DEF t
  <1>6. t2 \in TouchType
    <2>1. 0 \in -PadLimit .. PadLimit /\ t.pending \in Int /\ t.given + t.pending \in Int
      BY <1>5, InputBounds DEF TouchType
    <2> QED
      BY <1>5, <2>1 DEF TouchType
  <1>7. Moves(t2)
    <2>1. /\ t2.given = t.given + t.pending /\ t2.pending = 0 /\ t2.moved = t.moved /\ t2.cut = t.cut
          /\ t.given + t.pending \in Int
      BY <1>5 DEF TouchType
    <2> HIDE DEF t2
    <2> QED
      BY <1>5, <2>1 DEF Moves
  <1> HIDE DEF t2
  <1>8. /\ c \in PadType /\ Feels(c) /\ Moves(c.touch) /\ c.user = padPads[0].user
        /\ c.announced = padPads[0].announced /\ c.lock = padPads[0].lock
    BY <1>3, <1>6, <1>7 DEF PadType, Feels
  <1> HIDE DEF c
  <1>9. /\ padPads' \in [Pad!Ports -> PadType \cup {Pad!NoPad}]
        /\ padPads'[0] = c /\ \A q \in Pad!Ports : q # 0 => padPads'[q] = padPads[q]
    BY <1>1, <1>2, <1>8, OnePad DEF PadInv
  <1>10. PadTypes'
    BY <1>1, <1>9 DEF PadInv, PadTypes, Pad!Ports, Pad!NoPad
  <1>11. \A q \in Pad!Ports : /\ padPads'[q].user = padPads[q].user
                              /\ Pad!Held(q) => padPads'[q].announced = padPads[q].announced
    BY <1>8, <1>9
  <1>12. Seats' /\ Tells'
    BY <1>1, <1>9, <1>11, SameUsers
  <1>13. Rumbles'
    BY <1>1, <1>8, <1>9, <1>11 DEF PadInv, Rumbles, Pad!Held, Pad!At, Pad!Ports
  <1> QED
    BY <1>10, <1>12, <1>13 DEF PadInv

LEMMA SetRumbleKeeps ==
    ASSUME PadInv, NEW p \in Pad!Ports, NEW m \in {"strong", "weak"}, NEW v \in 0 .. PadMaxLevel, Pad!SetRumble(p, m, v)
    PROVE  PadInv'
  <1> DEFINE c == [padPads[p] EXCEPT !.lock = "main", !.level[m] = v]
  <1>1. /\ padMain.pc = "out" /\ Pad!Held(p) /\ padPads[p].lock = "free" /\ Pad!Spend("rumble") /\ Pad!Pad(p, c)
        /\ padMain' = [pc |-> "rumble", port |-> p, left |-> {}, list |-> {}]
        /\ UNCHANGED <<padSigned, padLeaving, padTold, padFinger, padStylus, padPart>>
    BY DEF Pad!SetRumble, Pad!At, Pad!Out
  <1>2. padPads[p] \in PadType /\ Feels(padPads[p]) /\ Moves(padPads[p].touch)
    BY <1>1, HeldIs DEF PadInv, Rumbles
  <1>3. [padPads[p].level EXCEPT ![m] = v] \in Levels
    BY <1>2 DEF PadType, Levels
  <1>4. /\ c \in PadType /\ Feels(c) /\ c.touch = padPads[p].touch /\ c.user = padPads[p].user
        /\ c.announced = padPads[p].announced /\ c.lock = "main"
    BY <1>1, <1>2, <1>3 DEF PadType, Feels
  <1> HIDE DEF c
  <1>5. /\ padPads' \in [Pad!Ports -> PadType \cup {Pad!NoPad}]
        /\ padPads'[p] = c /\ \A q \in Pad!Ports : q # p => padPads'[q] = padPads[q]
    BY <1>1, <1>4, OnePad DEF PadInv
  <1>6. padMain' \in MainType /\ padMain'.pc = "rumble" /\ padMain'.port = p
    <2>1. p \in Nat
      BY DEF Pad!Ports
    <2> QED
      BY <1>1, <2>1 DEF MainType
  <1>7. padLeft'.reset = padLeft.reset /\ PadTypes'
    BY <1>1, <1>5, <1>6, PadSpends DEF PadInv, PadTypes, Pad!Ports, Pad!NoPad
  <1>8. \A q \in Pad!Ports : /\ padPads'[q].user = padPads[q].user
                             /\ Pad!Held(q) => padPads'[q].announced = padPads[q].announced
    BY <1>4, <1>5
  <1>9. Seats' /\ Tells'
    BY <1>1, <1>5, <1>6, <1>7, <1>8, SameUsers
  <1>10. Rumbles'
    BY <1>1, <1>2, <1>4, <1>5, <1>6, <1>8 DEF PadInv, Rumbles, Pad!Held, Pad!At, Pad!Ports
  <1> QED
    BY <1>7, <1>9, <1>10 DEF PadInv

LEMMA SendRumbleKeeps == ASSUME PadInv, Pad!SendRumble PROVE PadInv'
  <1> DEFINE p == padMain.port
             b == padPads[p]
             c == [b EXCEPT !.lock = "free", !.motors = IF b.haptic THEN b.motors ELSE b.level]
  <1>1. /\ padMain.pc = "rumble" /\ Pad!Pad(p, c)
        /\ padMain' = [pc |-> "out", port |-> 0, left |-> {}, list |-> {}]
        /\ UNCHANGED <<padSigned, padLeaving, padTold, padFinger, padStylus, padPart, padLeft>>
    BY DEF Pad!SendRumble, Pad!At, Pad!Out
  <1>2. p \in Pad!Ports /\ Pad!Held(p)
    BY <1>1 DEF PadInv, Rumbles, Pad!At
  <1>3. b \in PadType /\ Feels(b) /\ Moves(b.touch) /\ b.lock = "main"
    BY <1>1, <1>2, HeldIs DEF PadInv, Rumbles, Pad!At
  <1> HIDE DEF b
  <1>4. (IF b.haptic THEN b.motors ELSE b.level) \in Levels
    BY <1>3 DEF PadType
  <1>5. /\ c \in PadType /\ Feels(c) /\ c.touch = b.touch /\ c.user = b.user
        /\ c.announced = b.announced /\ c.lock = "free"
    BY <1>3, <1>4 DEF PadType, Feels
  <1> HIDE DEF c
  <1>6. /\ padPads' \in [Pad!Ports -> PadType \cup {Pad!NoPad}]
        /\ padPads'[p] = c /\ \A q \in Pad!Ports : q # p => padPads'[q] = padPads[q]
    BY <1>1, <1>2, <1>5, OnePad DEF PadInv
  <1> HIDE DEF p
  <1>7. padMain' \in MainType /\ padMain'.pc = "out"
    BY <1>1 DEF MainType
  <1>8. PadTypes'
    BY <1>1, <1>6, <1>7 DEF PadInv, PadTypes, Pad!Ports, Pad!NoPad
  <1>9. \A q \in Pad!Ports : /\ padPads'[q].user = padPads[q].user
                             /\ Pad!Held(q) => padPads'[q].announced = padPads[q].announced
    BY <1>5, <1>6 DEF b
  <1>10. Seats' /\ Tells'
    BY <1>1, <1>6, <1>7, <1>9, SameUsers
  <1>11. Rumbles'
    BY <1>1, <1>2, <1>3, <1>5, <1>6, <1>7, <1>9 DEF PadInv, Rumbles, Pad!Held, Pad!At, Pad!Ports, p
  <1> QED
    BY <1>8, <1>10, <1>11 DEF PadInv

LEMMA HapticKeeps ==
    ASSUME PadInv, NEW p \in Pad!Ports, Pad!HapticDies(p) \/ Pad!HapticFalls(p) PROVE PadInv'
  <1> DEFINE b == padPads[p]
             c == IF Pad!HapticDies(p) THEN Pad!Falls(b) ELSE Pad!Fallen(b)
  <1>1. /\ Pad!Held(p) /\ Pad!Pad(p, c)
        /\ UNCHANGED <<padSigned, padMain, padLeaving, padTold, padFinger, padStylus, padPart>>
    BY DEF Pad!HapticDies, Pad!HapticFalls
  <1>2. IF Pad!HapticDies(p) THEN b.thread = "plays" /\ b.lock = "free" /\ Pad!Spend("dead")
                             ELSE b.thread = "falls" /\ UNCHANGED padLeft
    BY DEF Pad!HapticDies, Pad!HapticFalls, Pad!TakesLock
  <1>3. b \in PadType /\ Feels(b) /\ Moves(b.touch)
    BY <1>1, HeldIs DEF PadInv, Rumbles
  <1> HIDE DEF b
  <1>4. /\ c \in PadType /\ Feels(c) /\ c.touch = b.touch /\ c.user = b.user
        /\ c.announced = b.announced /\ b.lock # "main" /\ c.lock # "main"
    <2>1. CASE Pad!HapticDies(p)
      <3>1. c = [b EXCEPT !.lock = "thread", !.haptic = FALSE, !.read = b.level, !.thread = "falls"]
        BY <2>1 DEF Pad!Falls
      <3> QED
        BY <1>2, <1>3, <2>1, <3>1 DEF PadType, Feels
    <2>2. CASE ~Pad!HapticDies(p)
      <3>1. c = [b EXCEPT !.lock = "free", !.motors = b.read, !.thread = "ended"]
        BY <2>2 DEF Pad!Fallen
      <3> QED
        BY <1>2, <1>3, <2>2, <3>1 DEF PadType, Feels
    <2> QED
      BY <2>1, <2>2
  <1>5. /\ padLeft' \in [{"sign", "reset", "dead", "close", "touch", "rumble"} -> Nat]
        /\ padLeft'.reset <= PadBounds.reset /\ padLeft'.reset = padLeft.reset
    BY <1>2, PadSpends DEF PadInv, PadTypes
  <1> HIDE DEF c
  <1>6. /\ padPads' \in [Pad!Ports -> PadType \cup {Pad!NoPad}]
        /\ padPads'[p] = c /\ \A q \in Pad!Ports : q # p => padPads'[q] = padPads[q]
    BY <1>1, <1>4, OnePad DEF PadInv
  <1>7. PadTypes'
    BY <1>1, <1>5, <1>6 DEF PadInv, PadTypes, Pad!Ports, Pad!NoPad
  <1>8. \A q \in Pad!Ports : /\ padPads'[q].user = padPads[q].user
                             /\ Pad!Held(q) => padPads'[q].announced = padPads[q].announced
    BY <1>4, <1>6 DEF b
  <1>9. Seats' /\ Tells'
    BY <1>1, <1>5, <1>6, <1>8, SameUsers
  <1>10. Rumbles'
    BY <1>1, <1>3, <1>4, <1>6, <1>8 DEF PadInv, Rumbles, Pad!Held, Pad!At, Pad!Ports, b
  <1> QED
    BY <1>7, <1>9, <1>10 DEF PadInv

LEMMA ReadPadKeeps ==
    ASSUME PadInv, NEW p \in Pad!Ports, NEW r \in Pad!Reads(p), Pad!ReadPad(p, r) PROVE PadInv'
  <1>1. /\ padMain.pc = "read" /\ padMain.port = p
        /\ padMain' = IF p = PadLastPort THEN [Pad!Out EXCEPT !.list = padMain.list]
                                         ELSE [padMain EXCEPT !.port = p + 1]
        /\ UNCHANGED <<padSigned, padLeaving, padFinger, padStylus, padPart, padLeft>>
    BY DEF Pad!ReadPad, Pad!At
  <1>2. padMain \in MainType /\ p \in Nat
    BY DEF PadInv, PadTypes, Pad!Ports
  <1>3. padMain' \in MainType /\ padMain'.list = padMain.list /\ padMain'.pc \in {"out", "read"}
    BY <1>1, <1>2 DEF MainType, Pad!Out
  <1>4. CASE ~Pad!Held(p)
    <2>1. UNCHANGED <<padPads, padTold>>
      BY <1>4 DEF Pad!ReadPad
    <2>2. PadTypes'
      BY <1>1, <1>3, <2>1 DEF PadInv, PadTypes, Pad!Ports, Pad!NoPad
    <2>3. Rumbles' /\ Seats' /\ Tells'
      BY <1>1, <1>3, <2>1 DEF PadInv, Rumbles, Seats, Tells, Pad!Held, Pad!At, Pad!Ports
    <2> QED
      BY <2>2, <2>3 DEF PadInv
  <1>5. CASE Pad!Held(p)
    <2> DEFINE c == Pad!Read(p, r)
               d == [c EXCEPT !.announced = Pad!Connected(c)]
    <2>1. /\ Pad!Pad(p, d)
          /\ padTold' = IF Pad!Connected(c) = c.announced THEN padTold
                        ELSE IF Pad!Connected(c) THEN padTold \cup {p} ELSE padTold \ {p}
      BY <1>5 DEF Pad!ReadPad
    <2>2. padPads[p] \in PadType /\ Feels(padPads[p]) /\ Moves(padPads[p].touch)
      BY <1>5, HeldIs DEF PadInv, Rumbles
    <2>3. /\ c \in PadType /\ Moves(c.touch) /\ c.user = padPads[p].user /\ c.announced = padPads[p].announced
          /\ c.lock = padPads[p].lock /\ Feels(c)
      BY <2>2, ReadFits DEF PadInv
    <2> HIDE DEF c
    <2>4. Pad!Connected(c) \in BOOLEAN
      BY DEF Pad!Connected
    <2>5. /\ d \in PadType /\ Feels(d) /\ Moves(d.touch) /\ d.user = padPads[p].user /\ d.lock = padPads[p].lock
          /\ d.announced = Pad!Connected(c)
      BY <2>3, <2>4 DEF PadType, Feels
    <2> HIDE DEF d
    <2>6. /\ padPads' \in [Pad!Ports -> PadType \cup {Pad!NoPad}]
          /\ padPads'[p] = d /\ \A q \in Pad!Ports : q # p => padPads'[q] = padPads[q]
      BY <2>1, <2>5, OnePad DEF PadInv
    <2>7. \A q \in Pad!Ports : padPads'[q].user = padPads[q].user /\ (Pad!Held(q)' <=> Pad!Held(q))
      BY <2>5, <2>6 DEF Pad!Held
    <2>8. padTold' \subseteq Pad!Ports
      BY <2>1 DEF PadInv, PadTypes
    <2>9. PadTypes'
      BY <1>1, <1>3, <2>6, <2>8 DEF PadInv, PadTypes, Pad!Ports, Pad!NoPad
    <2>10. Rumbles'
      BY <1>1, <1>3, <2>2, <2>5, <2>6, <2>7 DEF PadInv, Rumbles, Pad!At, Pad!Ports
    <2>11. Seats'
      BY <1>1, <1>3, <2>7 DEF PadInv, Seats, Pad!At, Pad!Ports
    <2>12. Tells'
      <3>1. SUFFICES ASSUME padLeft'.reset = PadBounds.reset
                     PROVE  padTold' = {q \in Pad!Ports : Pad!Held(q)' /\ padPads'[q].announced}
        BY <1>3 DEF Tells, Pad!At, Pad!Ports
      <3>2. padTold = {q \in Pad!Ports : Pad!Held(q) /\ padPads[q].announced}
        BY <1>1, <3>1 DEF PadInv, Tells, Pad!At
      <3>3. ASSUME NEW q \in Pad!Ports PROVE q \in padTold' <=> Pad!Held(q)' /\ padPads'[q].announced
        <4>1. CASE q = p
          <5>1. q \in padTold <=> c.announced
            BY <1>5, <2>3, <3>2, <4>1
          <5>2. q \in padTold' <=> Pad!Connected(c)
            BY <2>1, <2>3, <2>4, <4>1, <5>1 DEF PadType
          <5> QED
            BY <1>5, <2>5, <2>6, <2>7, <4>1, <5>2
        <4>2. CASE q # p
          <5>1. q \in padTold' <=> q \in padTold
            BY <2>1, <4>2
          <5> QED
            BY <2>6, <2>7, <3>2, <4>2, <5>1
        <4> QED
          BY <4>1, <4>2
      <3> QED
        BY <2>8, <3>3
    <2> QED
      BY <2>9, <2>10, <2>11, <2>12 DEF PadInv
  <1> QED
    BY <1>4, <1>5

LEMMA JoypadInitKeeps == ASSUME PadInv, Pad!JoypadInit PROVE PadInv'
  <1>1. /\ padMain.pc = "off"
        /\ padMain' = [pc |-> "leave", port |-> 1, left |-> padSigned, list |-> padSigned]
        /\ UNCHANGED <<padSigned, padLeaving, padTold, padFinger, padStylus, padPart, padLeft>>
    BY DEF Pad!JoypadInit, Pad!At, Pad!Scan
  <1>2. PICK c \in Pad!Opens(PadStarter) : Pad!Pad(0, c)
    BY DEF Pad!JoypadInit
  <1>3. PadStarter \in PadUsers
    BY InputBounds
  <1>4. \/ c = Pad!NoPad
        \/ c \in PadType /\ Feels(c) /\ Moves(c.touch) /\ c.announced = FALSE /\ c.lock = "free"
    BY <1>3, OpensFits
  <1>5. 0 \in Pad!Ports /\ \A p \in Pad!Ports : ~(p > 0 /\ p < 1)
    BY InputBounds DEF Pad!Ports
  <1>6. \A p \in Pad!Ports : ~Pad!Held(p)
    BY <1>1 DEF PadInv, Seats, Pad!At
  <1>7. /\ padPads' \in [Pad!Ports -> PadType \cup {Pad!NoPad}]
        /\ padPads'[0] = c /\ \A q \in Pad!Ports : q # 0 => padPads'[q] = padPads[q]
    BY <1>2, <1>4, <1>5, OnePad DEF PadInv
  <1>8. \A q \in Pad!Ports : q # 0 => ~Pad!Held(q)'
    BY <1>6, <1>7 DEF Pad!Held
  <1>9. padMain' \in MainType /\ padMain'.pc = "leave" /\ padMain'.left = padMain'.list /\ padMain'.port = 1
    BY <1>1 DEF MainType, PadInv, PadTypes
  <1>10. PadTypes'
    BY <1>1, <1>7, <1>9 DEF PadInv, PadTypes, Pad!Ports, Pad!NoPad
  <1>11. Pad!Held(0)' => Feels(c) /\ Moves(c.touch) /\ c.lock = "free" /\ c.announced = FALSE
    BY <1>4, <1>7 DEF Pad!Held, Pad!NoPad
  <1>12. Rumbles'
    BY <1>7, <1>8, <1>9, <1>11 DEF Rumbles, Pad!At, Pad!Ports
  <1>13. Seats'
    <2>1. ASSUME NEW a \in Pad!Ports, NEW b \in Pad!Ports, Pad!Held(a)', padPads'[a].user = padPads'[b].user PROVE a = b
      <3>1. Pad!Held(b)'
        BY <2>1 DEF Pad!Held
      <3> QED
        BY <1>8, <2>1, <3>1
    <2>2. \A a \in Pad!Ports : a > 0 => ~Pad!Held(a)'
      BY <1>8 DEF Pad!Ports
    <2> QED
      BY <1>9, <2>1, <2>2 DEF Seats, Pad!At, Pad!Ports
  <1>14. Tells'
    <2>1. padLeft.reset = PadBounds.reset => padTold = {}
      BY <1>1, <1>6 DEF PadInv, Tells, Pad!At
    <2>2. \A q \in Pad!Ports : ~(Pad!Held(q)' /\ padPads'[q].announced)
      BY <1>7, <1>8, <1>11
    <2> QED
      BY <1>1, <1>9, <2>1, <2>2 DEF Tells, Pad!At, Pad!Ports
  <1> QED
    BY <1>10, <1>12, <1>13, <1>14 DEF PadInv

\* A port let go: the others are as they were.
LEMMA LetGo ==
    ASSUME PadInv, NEW p \in Pad!Ports, Pad!Pad(p, Pad!NoPad)
    PROVE  /\ padPads' \in [Pad!Ports -> PadType \cup {Pad!NoPad}] /\ ~Pad!Held(p)'
           /\ \A q \in Pad!Ports : q # p => padPads'[q] = padPads[q] /\ (Pad!Held(q)' <=> Pad!Held(q))
  <1>1. /\ padPads' \in [Pad!Ports -> PadType \cup {Pad!NoPad}]
        /\ padPads'[p] = Pad!NoPad /\ \A q \in Pad!Ports : q # p => padPads'[q] = padPads[q]
    BY OnePad DEF PadInv
  <1> QED
    BY <1>1 DEF Pad!Held, Pad!NoPad

LEMMA ClosingFits ==
    ASSUME PadInv, NEW p \in Pad!Ports, Pad!Held(p) PROVE [padPads[p] EXCEPT !.stop = TRUE] \in PadType
  <1>1. padPads[p] \in PadType
    BY HeldIs DEF PadInv
  <1> QED
    BY <1>1 DEF PadType

LEMMA ScanLeaveKeeps == ASSUME PadInv, Pad!ScanLeave PROVE PadInv'
  <1>1. /\ padMain.pc = "leave" /\ padMain \in MainType
        /\ UNCHANGED <<padSigned, padFinger, padStylus, padPart, padLeft>>
    BY DEF Pad!ScanLeave, Pad!At, PadInv, PadTypes
  <1>0. padMain.port \in Nat
    BY <1>1 DEF MainType
  <1> PICK p \in Nat : p = padMain.port
    BY <1>0
  <1>2. p \in Nat /\ PadLastPort \in Nat
    BY InputBounds
  <1>3. CASE p > PadLastPort
    <2>1. padMain' = [padMain EXCEPT !.pc = "enter", !.port = 0] /\ UNCHANGED <<padPads, padTold, padLeaving>>
      BY <1>3 DEF Pad!ScanLeave
    <2>2. padMain' \in MainType /\ padMain'.pc = "enter" /\ padMain'.left = padMain.left /\ padMain'.list = padMain.list
      BY <1>1, <2>1 DEF MainType
    <2>3. \A q \in Pad!Ports : q < p
      BY <1>2, <1>3 DEF Pad!Ports
    <2>4. PadTypes'
      BY <1>1, <2>1, <2>2 DEF PadInv, PadTypes, Pad!Ports, Pad!NoPad
    <2>5. Rumbles'
      BY <1>1, <2>1, <2>2 DEF PadInv, Rumbles, Pad!Held, Pad!At, Pad!Ports
    <2>6. Seats'
      BY <1>1, <2>1, <2>2, <2>3 DEF PadInv, Seats, Pad!Held, Pad!At, Pad!Ports
    <2>7. Tells'
      BY <1>1, <2>1, <2>2 DEF PadInv, Tells, Pad!Held, Pad!At, Pad!Ports
    <2> QED
      BY <2>4, <2>5, <2>6, <2>7 DEF PadInv
  <1>4. CASE ~(p > PadLastPort)
    <2>1. p \in Pad!Ports
      BY <1>2, <1>4 DEF Pad!Ports
    <2>2. padMain' = [padMain EXCEPT !.port = p + 1]
      BY <1>4 DEF Pad!ScanLeave
    <2>3. /\ padMain' \in MainType /\ padMain'.pc = "leave" /\ padMain'.left = padMain.left
          /\ padMain'.list = padMain.list /\ padMain'.port = p + 1
      BY <1>1, <1>2, <2>2 DEF MainType
    <2>4. \A q \in Pad!Ports : q < p + 1 => q < p \/ q = p
      BY <1>2 DEF Pad!Ports
    <2>5. CASE Pad!Releases(p)
      <3>1. /\ padTold' = Pad!TellGone(p) /\ Pad!Pad(p, Pad!NoPad)
            /\ padLeaving' = [padPads[p] EXCEPT !.stop = TRUE] /\ Pad!Held(p)
        BY <1>4, <2>5 DEF Pad!ScanLeave, Pad!Releases
      <3>2. /\ padPads' \in [Pad!Ports -> PadType \cup {Pad!NoPad}] /\ ~Pad!Held(p)'
            /\ \A q \in Pad!Ports : q # p => padPads'[q] = padPads[q] /\ (Pad!Held(q)' <=> Pad!Held(q))
        BY <2>1, <3>1, LetGo
      <3>3. padLeaving' \in PadType
        BY <2>1, <3>1, ClosingFits
      <3>4. padTold' \subseteq Pad!Ports
        BY <3>1 DEF Pad!TellGone, PadInv, PadTypes
      <3>5. PadTypes'
        BY <1>1, <2>3, <3>2, <3>3, <3>4 DEF PadInv, PadTypes, Pad!Ports, Pad!NoPad
      <3>6. Rumbles'
        BY <1>1, <2>3, <3>2 DEF PadInv, Rumbles, Pad!At, Pad!Ports
      <3>7. Seats'
        <4>1. ASSUME NEW a \in Pad!Ports, NEW b \in Pad!Ports, Pad!Held(a)', padPads'[a].user = padPads'[b].user PROVE a = b
          <5>1. Pad!Held(b)'
            BY <4>1 DEF Pad!Held
          <5>2. a # p /\ b # p
            BY <3>2, <4>1, <5>1
          <5>3. Pad!Held(a) /\ padPads[a].user = padPads[b].user
            BY <3>2, <4>1, <5>2
          <5> QED
            BY <5>3 DEF PadInv, Seats
        <4>2. ASSUME NEW a \in Pad!Ports, a > 0, a < padMain'.port, Pad!Held(a)' PROVE padPads'[a].user \in padMain'.list
          <5>1. a # p /\ a < p
            BY <2>3, <2>4, <3>2, <4>2
          <5>2. padPads[a].user \in padMain.list
            BY <1>1, <3>2, <4>2, <5>1 DEF PadInv, Seats, Pad!At
          <5> QED
            BY <2>3, <3>2, <5>1, <5>2
        <4>3. padMain'.left \subseteq padMain'.list
          BY <1>1, <2>3 DEF PadInv, Seats, Pad!At
        <4> QED
          BY <2>3, <4>1, <4>2, <4>3 DEF Seats, Pad!At, Pad!Ports
      <3>8. Tells'
        <4>1. SUFFICES ASSUME padLeft.reset = PadBounds.reset
                       PROVE  padTold' = {q \in Pad!Ports : Pad!Held(q)' /\ padPads'[q].announced}
          BY <1>1, <2>3 DEF Tells, Pad!At, Pad!Ports
        <4>2. padTold = {q \in Pad!Ports : Pad!Held(q) /\ padPads[q].announced}
          BY <1>1, <4>1 DEF PadInv, Tells, Pad!At
        <4>3. padTold' = padTold \ {p}
          BY <3>1, <4>2 DEF Pad!TellGone
        <4> QED
          BY <3>2, <4>2, <4>3
      <3> QED
        BY <3>5, <3>6, <3>7, <3>8 DEF PadInv
    <2>6. CASE ~Pad!Releases(p)
      <3>1. UNCHANGED <<padPads, padTold, padLeaving>>
        BY <1>4, <2>6 DEF Pad!ScanLeave
      <3>2. Pad!Held(p) => padPads[p].user \in padMain.list
        BY <2>6 DEF Pad!Releases
      <3>3. PadTypes'
        BY <1>1, <2>3, <3>1 DEF PadInv, PadTypes, Pad!Ports, Pad!NoPad
      <3>4. Rumbles'
        BY <1>1, <2>3, <3>1 DEF PadInv, Rumbles, Pad!Held, Pad!At, Pad!Ports
      <3>5. Seats'
        BY <1>1, <2>3, <2>4, <3>1, <3>2 DEF PadInv, Seats, Pad!Held, Pad!At, Pad!Ports
      <3>6. Tells'
        BY <1>1, <2>3, <3>1 DEF PadInv, Tells, Pad!Held, Pad!At, Pad!Ports
      <3> QED
        BY <3>3, <3>4, <3>5, <3>6 DEF PadInv
    <2> QED
      BY <2>5, <2>6
  <1> QED
    BY <1>3, <1>4

LEMMA ScanEnterKeeps == ASSUME PadInv, Pad!ScanEnter PROVE PadInv'
  <1>1. /\ padMain.pc = "enter" /\ padMain \in MainType
        /\ UNCHANGED <<padSigned, padLeaving, padTold, padFinger, padStylus, padPart, padLeft>>
    BY DEF Pad!ScanEnter, Pad!At, PadInv, PadTypes
  <1>2. CASE padMain.left = {}
    <2>1. padMain' = [pc |-> "read", port |-> 0, left |-> {}, list |-> padMain.list] /\ UNCHANGED padPads
      BY <1>2 DEF Pad!ScanEnter, Pad!Out
    <2>2. padMain' \in MainType /\ padMain'.pc = "read" /\ padMain'.list = padMain.list
      BY <1>1, <2>1 DEF MainType
    <2>3. PadTypes'
      BY <1>1, <2>1, <2>2 DEF PadInv, PadTypes, Pad!Ports, Pad!NoPad
    <2>4. Rumbles' /\ Seats' /\ Tells'
      BY <1>1, <2>1, <2>2 DEF PadInv, Rumbles, Seats, Tells, Pad!Held, Pad!At, Pad!Ports
    <2> QED
      BY <2>3, <2>4 DEF PadInv
  <1>3. CASE padMain.left # {}
    <2> DEFINE u == CHOOSE u \in padMain.left : TRUE
    <2>1. u \in padMain.left
      BY <1>3
    <2>2. u \in PadUsers /\ u \in padMain.list /\ padMain.left \subseteq padMain.list
      BY <1>1, <2>1 DEF PadInv, Seats, Pad!At, MainType
    <2>3. /\ padMain' = [padMain EXCEPT !.left = padMain.left \ {u}]
          /\ IF Pad!Known(u) \/ Pad!FreePort = {} THEN UNCHANGED padPads
             ELSE \E p \in Pad!FreePort, c \in Pad!Opens(u) : Pad!Pad(p, c)
      BY <1>3 DEF Pad!ScanEnter
    <2> HIDE DEF u
    <2>4. /\ padMain' \in MainType /\ padMain'.pc = "enter" /\ padMain'.left \subseteq padMain'.list
          /\ padMain'.list = padMain.list
      BY <1>1, <2>2, <2>3 DEF MainType
    <2>5. CASE Pad!Known(u) \/ Pad!FreePort = {}
      <3>1. UNCHANGED padPads
        BY <2>3, <2>5
      <3>2. PadTypes'
        BY <1>1, <2>4, <3>1 DEF PadInv, PadTypes, Pad!Ports, Pad!NoPad
      <3>3. Rumbles' /\ Seats' /\ Tells'
        BY <1>1, <2>4, <3>1 DEF PadInv, Rumbles, Seats, Tells, Pad!Held, Pad!At, Pad!Ports
      <3> QED
        BY <3>2, <3>3 DEF PadInv
    <2>6. CASE ~(Pad!Known(u) \/ Pad!FreePort = {})
      <3>1. PICK p \in Pad!FreePort, c \in Pad!Opens(u) : Pad!Pad(p, c)
        BY <2>3, <2>6
      <3>2. p \in Pad!Ports /\ ~Pad!Held(p)
        BY DEF Pad!FreePort
      <3>3. \/ c = Pad!NoPad
            \/ /\ c \in PadType /\ Feels(c) /\ Moves(c.touch) /\ c.user = u
               /\ c.announced = FALSE /\ c.lock = "free"
        BY <2>2, OpensFits
      <3>4. /\ padPads' \in [Pad!Ports -> PadType \cup {Pad!NoPad}]
            /\ padPads'[p] = c /\ \A q \in Pad!Ports : q # p => padPads'[q] = padPads[q]
        BY <3>1, <3>2, <3>3, OnePad DEF PadInv
      <3>5. Pad!Held(p)' => /\ Feels(c) /\ Moves(c.touch) /\ c.user = u
                            /\ c.announced = FALSE /\ c.lock = "free"
        BY <3>3, <3>4 DEF Pad!Held, Pad!NoPad
      <3>6. \A q \in Pad!Ports : padPads[q].user # u
        BY <2>6 DEF Pad!Known
      <3>7. \A q \in Pad!Ports : q # p => (Pad!Held(q)' <=> Pad!Held(q))
        BY <3>4 DEF Pad!Held
      <3>8. PadTypes'
        BY <1>1, <2>4, <3>4 DEF PadInv, PadTypes, Pad!Ports, Pad!NoPad
      <3>9. Rumbles'
        BY <1>1, <2>4, <3>2, <3>4, <3>5, <3>7 DEF PadInv, Rumbles, Pad!At, Pad!Ports
      <3>10. Seats'
        <4>1. ASSUME NEW a \in Pad!Ports, NEW b \in Pad!Ports, Pad!Held(a)', padPads'[a].user = padPads'[b].user PROVE a = b
          <5>1. Pad!Held(b)'
            BY <4>1 DEF Pad!Held
          <5>2. CASE a = p
            BY <3>4, <3>5, <3>6, <4>1, <5>2
          <5>3. CASE b = p
            BY <3>4, <3>5, <3>6, <4>1, <5>1, <5>3
          <5>4. CASE a # p /\ b # p
            BY <3>4, <3>7, <4>1, <5>4 DEF PadInv, Seats
          <5> QED
            BY <5>2, <5>3, <5>4
        <4>2. ASSUME NEW a \in Pad!Ports, a > 0, Pad!Held(a)' PROVE padPads'[a].user \in padMain'.list
          <5>1. CASE a = p
            BY <2>2, <2>4, <3>4, <3>5, <4>2, <5>1
          <5>2. CASE a # p
            BY <1>1, <2>4, <3>4, <3>7, <4>2, <5>2 DEF PadInv, Seats, Pad!At
          <5> QED
            BY <5>1, <5>2
        <4> QED
          BY <2>4, <4>1, <4>2 DEF Seats, Pad!At, Pad!Ports
      <3>11. Tells'
        <4>1. SUFFICES ASSUME padLeft.reset = PadBounds.reset
                       PROVE  padTold' = {q \in Pad!Ports : Pad!Held(q)' /\ padPads'[q].announced}
          BY <1>1, <2>4 DEF Tells, Pad!At, Pad!Ports
        <4>2. padTold' = {q \in Pad!Ports : Pad!Held(q) /\ padPads[q].announced}
          BY <1>1, <4>1 DEF PadInv, Tells, Pad!At
        <4> QED
          BY <3>2, <3>4, <3>5, <3>7, <4>2
      <3> QED
        BY <3>8, <3>9, <3>10, <3>11 DEF PadInv
    <2> QED
      BY <2>5, <2>6
  <1> QED
    BY <1>2, <1>3

LEMMA DestroyKeeps == ASSUME PadInv, Pad!Destroy PROVE PadInv'
  <1>1. /\ padMain.pc = "out" /\ Pad!Spend("close") /\ padTold' = {}
        /\ padMain' = [pc |-> "destroy", port |-> 0, left |-> {}, list |-> {}]
        /\ UNCHANGED <<padSigned, padPads, padLeaving, padFinger, padStylus, padPart>>
    BY DEF Pad!Destroy, Pad!At, Pad!Out
  <1>2. padMain' \in MainType /\ padMain'.pc = "destroy" /\ padMain'.port = 0
    BY <1>1 DEF MainType
  <1>3. \A q \in Pad!Ports : ~(q < 0)
    BY DEF Pad!Ports
  <1>4. PadTypes'
    BY <1>1, <1>2, PadSpends DEF PadInv, PadTypes, Pad!Ports, Pad!NoPad
  <1>5. Rumbles' /\ Seats' /\ Tells'
    BY <1>1, <1>2, <1>3 DEF PadInv, Rumbles, Seats, Tells, Pad!Held, Pad!At, Pad!Ports
  <1> QED
    BY <1>4, <1>5 DEF PadInv

LEMMA DestroyPortKeeps == ASSUME PadInv, Pad!DestroyPort PROVE PadInv'
  <1>1. /\ padMain.pc = "destroy" /\ padMain \in MainType
        /\ UNCHANGED <<padSigned, padTold, padFinger, padStylus, padPart, padLeft>>
    BY DEF Pad!DestroyPort, Pad!At, PadInv, PadTypes
  <1>0. padMain.port \in Nat
    BY <1>1 DEF MainType
  <1> PICK p \in Nat : p = padMain.port
    BY <1>0
  <1>2. p \in Nat /\ PadLastPort \in Nat
    BY InputBounds
  <1>3. CASE p > PadLastPort
    <2>1. /\ padMain' = [pc |-> "off", port |-> 0, left |-> {}, list |-> {}]
          /\ UNCHANGED <<padPads, padLeaving>>
      BY <1>3 DEF Pad!DestroyPort, Pad!Out
    <2>2. padMain' \in MainType /\ padMain'.pc = "off"
      BY <2>1 DEF MainType
    <2>3. \A q \in Pad!Ports : q < p
      BY <1>2, <1>3 DEF Pad!Ports
    <2>4. \A q \in Pad!Ports : ~Pad!Held(q)
      BY <1>1, <2>3 DEF PadInv, Seats, Pad!At
    <2>5. PadTypes'
      BY <1>1, <2>1, <2>2 DEF PadInv, PadTypes, Pad!Ports, Pad!NoPad
    <2>6. Rumbles' /\ Seats' /\ Tells'
      BY <1>1, <2>1, <2>2, <2>4 DEF PadInv, Rumbles, Seats, Tells, Pad!Held, Pad!At, Pad!Ports
    <2> QED
      BY <2>5, <2>6 DEF PadInv
  <1>4. CASE ~(p > PadLastPort)
    <2>1. p \in Pad!Ports
      BY <1>2, <1>4 DEF Pad!Ports
    <2>2. /\ padMain' = [padMain EXCEPT !.port = p + 1] /\ Pad!Pad(p, Pad!NoPad)
          /\ padLeaving' = IF Pad!Held(p) THEN [padPads[p] EXCEPT !.stop = TRUE] ELSE padLeaving
      BY <1>4 DEF Pad!DestroyPort
    <2>3. padMain' \in MainType /\ padMain'.pc = "destroy" /\ padMain'.port = p + 1
      BY <1>1, <1>2, <2>2 DEF MainType
    <2>4. \A q \in Pad!Ports : q < p + 1 => q < p \/ q = p
      BY <1>2 DEF Pad!Ports
    <2>5. /\ padPads' \in [Pad!Ports -> PadType \cup {Pad!NoPad}] /\ ~Pad!Held(p)'
          /\ \A q \in Pad!Ports : q # p => padPads'[q] = padPads[q] /\ (Pad!Held(q)' <=> Pad!Held(q))
      BY <2>1, <2>2, LetGo
    <2>6. padLeaving' \in PadType \cup {Pad!NoPad}
      BY <2>1, <2>2, ClosingFits DEF PadInv, PadTypes
    <2>7. PadTypes'
      BY <1>1, <2>3, <2>5, <2>6 DEF PadInv, PadTypes, Pad!Ports, Pad!NoPad
        <2>8. Rumbles'
      BY <1>1, <2>3, <2>5 DEF PadInv, Rumbles, Pad!At, Pad!Ports
    <2>9. Seats'
      <3>1. ASSUME NEW a \in Pad!Ports, NEW b \in Pad!Ports, Pad!Held(a)', padPads'[a].user = padPads'[b].user PROVE a = b
        <4>1. Pad!Held(b)'
          BY <3>1 DEF Pad!Held
        <4>2. a # p /\ b # p
          BY <2>5, <3>1, <4>1
        <4>3. Pad!Held(a) /\ padPads[a].user = padPads[b].user
          BY <2>5, <3>1, <4>2
        <4> QED
          BY <4>3 DEF PadInv, Seats
      <3>2. ASSUME NEW a \in Pad!Ports, a < padMain'.port PROVE ~Pad!Held(a)'
        <4>1. a = p \/ a < p
          BY <2>3, <2>4, <3>2
        <4>2. a < p => ~Pad!Held(a)
          BY <1>1 DEF PadInv, Seats, Pad!At
        <4> QED
          BY <2>5, <4>1, <4>2
      <3> QED
        BY <2>3, <3>1, <3>2 DEF Seats, Pad!At, Pad!Ports
    <2>10. Tells'
      BY <1>1, <2>3 DEF PadInv, Tells, Pad!At
    <2> QED
      BY <2>7, <2>8, <2>9, <2>10 DEF PadInv
  <1> QED
    BY <1>3, <1>4

LEMMA PadStep == PadInv /\ Pad!Next => PadInv'
  BY JoypadInitKeeps, ScanLeaveKeeps, AsideSteps, ScanEnterKeeps, PollKeeps, DestroyKeeps, ResetKeeps,
     ReadPadKeeps, DestroyPortKeeps, InputPollKeeps, SendRumbleKeeps, HapticKeeps, SetRumbleKeeps
  DEF Pad!Next, Pad!Motors

LEMMA PadSays == PadInv => Pad!TypeOK /\ Pad!RumbleIsFelt /\ Pad!MotionKept /\ Pad!PortsAreUsers
  <1> SUFFICES ASSUME PadInv PROVE Pad!TypeOK /\ Pad!RumbleIsFelt /\ Pad!MotionKept /\ Pad!PortsAreUsers
    OBVIOUS
  <1>1. \A p \in Pad!Ports : Pad!Held(p) => padPads[p] \in PadType /\ Feels(padPads[p]) /\ Moves(padPads[p].touch)
    BY HeldIs DEF PadInv, Rumbles
  <1>2. Pad!TypeOK
    <2>1. \A c \in PadType \cup {Pad!NoPad} : c.user \in PadUsers \cup {"none"}
      BY DEF PadType, Pad!NoPad
    <2>2. \A c \in PadType : /\ c.level \in Levels /\ c.motors \in Levels /\ c.touch.pending \in -PadLimit .. PadLimit
                             /\ c.lock \in {"free", "main", "thread"}
      BY DEF PadType, TouchType
    <2>3. padMain.pc \in {"off", "out", "leave", "enter", "read", "rumble", "destroy"} /\ padFinger.x \in 0 .. PadWidth
      BY DEF PadInv, PadTypes, MainType
    <2>4. padPads \in [Pad!Ports -> PadType \cup {Pad!NoPad}] /\ padLeaving \in PadType \cup {Pad!NoPad}
      BY DEF PadInv, PadTypes
    <2> QED
      BY <1>1, <2>1, <2>2, <2>3, <2>4 DEF Pad!TypeOK, PadInv, PadTypes, Pad!Motors, Levels
  <1>3. Pad!RumbleIsFelt
    BY <1>1 DEF Pad!RumbleIsFelt, Feels
  <1>4. Pad!MotionKept
    <2>1. 0 \in Pad!Ports
      BY InputBounds DEF Pad!Ports
    <2> QED
      BY <1>1, <2>1 DEF Pad!MotionKept, Moves
  <1>5. Pad!PortsAreUsers
    <2>1. \A p \in Pad!Ports \ {0} : p > 0
      BY DEF Pad!Ports
    <2> QED
      BY <2>1 DEF Pad!PortsAreUsers, PadInv, Seats, Tells
  <1> QED
    BY <1>2, <1>3, <1>4, <1>5

LEMMA PadSafe == MCSpec => [](part = "input" => PadInv)
  <1>1. MCInit => (part = "input" => PadInv)
    BY PadInitHolds DEF MCInit
  <1>2. (part = "input" => PadInv) /\ [MCNext]_MCVars => (part = "input" => PadInv)'
    <2> SUFFICES ASSUME part = "input" => PadInv, [MCNext]_MCVars, part' = "input" PROVE PadInv'
      OBVIOUS
    <2>1. part = "input" /\ PadInv
      BY DEF MCNext, MCVars
    <2>2. CASE Pad!Next
      BY <2>1, <2>2, PadStep
    <2>3. CASE UNCHANGED PadVars
      <3>1. UNCHANGED <<padSigned, padPads, padMain, padLeaving, padTold, padFinger, padStylus, padPart, padLeft>>
        BY <2>3 DEF PadVars
      <3> QED
        BY <2>1, <3>1 DEF PadInv, PadTypes, Rumbles, Seats, Tells, Pad!Held, Pad!At, Pad!Ports, Pad!NoPad
    <2> QED
      BY <2>1, <2>2, <2>3 DEF MCNext, MCVars
  <1> QED
    BY <1>1, <1>2, PTL DEF MCSpec

\* Whatever order users, binds, touches, rumble and dying ports come in: the motors or the haptic
\* stream have the level set last, no motion is lost or given twice, a user has one port and
\* RetroArch knows the controllers there are (scan_users, joypad_set_rumble, haptic_worker,
\* ps5_input_poll).
THEOREM InputSafe == MCSpec => []InputIsKept
  <1>1. (part = "input" => PadInv) => InputIsKept
    BY PadSays DEF InputIsKept
  <1> QED
    BY <1>1, PadSafe, PTL

-----------------------------------------------------------------------------
(* The microphone: the grain in flight, the ring, and what a read copied.  *)

MicCaptureType == [pc : {"begin", "input", "state", "store", "ended"}, pcm : Seq(Mic!Samples), silent : BOOLEAN, result : BOOLEAN]
MicCallType    == [op : {"none", "stop", "read", "close", "closed"}, wanted : Nat, out : Seq(Mic!Samples)]
MicTypes ==
    /\ micActive \in BOOLEAN /\ micShutdown \in BOOLEAN /\ micFailed \in BOOLEAN /\ micInInput \in BOOLEAN
    /\ micSilent \in BOOLEAN /\ micNonblock \in BOOLEAN /\ micMuted \in BOOLEAN
    /\ micQueue \in [0 .. MicCapacity - 1 -> Mic!Samples] /\ micHead \in 0 .. MicCapacity - 1 /\ micCount \in 0 .. MicCapacity
    /\ micCapture \in MicCaptureType /\ micCall \in MicCallType /\ micAsleep \subseteq {"capture", "frontend"}
    /\ micGiven \in 0 .. MicMaxSamples /\ micSession \in 0 .. MicMaxStarts

\* The grain the port gave and the ring does not have yet, and the sample the ring ends with.
Grained == micCapture.pc = "state" \/ (micCapture.pc = "store" /\ micCapture.result)
Newest  == IF Grained THEN micGiven - MicGrain ELSE micGiven
RingAt(k) == micQueue[Mic!At(k)]

\* A stopped microphone has a grain on its way only while its caller waits; so none is when
\* it is started, and a grain is of the session it is stored in.
Flies ==
    /\ micInInput <=> micCapture.pc \in {"input", "state", "store"}
    /\ micInInput /\ ~micActive => micCall.op \in {"stop", "close", "closed"}
    /\ micShutdown => micCall.op \in {"close", "closed"}
    /\ micCapture.pc = "state" => micCapture.result
    /\ Grained => /\ Len(micCapture.pcm) = MicGrain /\ MicGrain <= micGiven
                  /\ \A i \in 1 .. MicGrain : /\ micCapture.pcm[i].n = micGiven - MicGrain + i
                                              /\ micCapture.pcm[i].session = micSession

\* The ring has consecutive samples up to the newest one, of this session.
Rings ==
    /\ ~micActive /\ ~micShutdown => micCount = 0
    /\ \A k \in 0 .. micCount - 1 : /\ RingAt(k).n = RingAt(0).n + k /\ RingAt(k).session = micSession
                                    /\ micSilent => ~RingAt(k).speech
    /\ micCount > 0 /\ ~micShutdown => RingAt(0).n + micCount = Newest + 1

\* A read has copied what comes before the ring.
Copies ==
    /\ micCall.op # "read" => micCall.out = <<>>
    /\ \A i, j \in 1 .. Len(micCall.out) : i < j => micCall.out[i].n < micCall.out[j].n
    /\ \A i \in 1 .. Len(micCall.out) :
        micCall.out[i].n <= Newest /\ (micCount > 0 => micCall.out[i].n < RingAt(0).n)

MicInv == MicTypes /\ Flies /\ Rings /\ Copies

LEMMA MicBounds ==
    /\ MicGrain \in Nat /\ MicGrain > 0 /\ MicCapacity \in Nat /\ MicGrain <= MicCapacity
    /\ MicMaxSamples \in Nat /\ MicMaxStarts \in Nat /\ MicMaxMutes \in Nat /\ MicAsks \subseteq Nat
  BY DevicesAssumption DEF Mic!MicrophoneAssumption

\* A slot k samples after slot h: the ring wraps at most once.
LEMMA MicWraps ==
    ASSUME NEW x \in 0 .. 2 * MicCapacity - 1
    PROVE  /\ x % MicCapacity = IF x < MicCapacity THEN x ELSE x - MicCapacity
           /\ x % MicCapacity \in 0 .. MicCapacity - 1
  <1>1. MicCapacity \in Nat /\ MicCapacity > 0 /\ x \in Nat
    BY MicBounds
  <1>2. CASE x < MicCapacity
    BY <1>1, <1>2, Wraps
  <1>3. CASE ~(x < MicCapacity)
    <2> DEFINE y == x - MicCapacity
    <2>1. y \in Nat /\ y < MicCapacity /\ x = y + MicCapacity
      BY <1>1, <1>3
    <2>2. (y + MicCapacity) % MicCapacity = y
      <3> HIDE DEF y
      <3> QED
        BY <1>1, <2>1, Wraps
    <2> QED
      BY <1>1, <1>3, <2>1, <2>2
  <1> QED
    BY <1>2, <1>3

LEMMA MicSlots ==
    ASSUME NEW h \in 0 .. MicCapacity - 1, NEW k \in 0 .. MicCapacity
    PROVE  /\ (h + k) % MicCapacity = IF h + k < MicCapacity THEN h + k ELSE h + k - MicCapacity
           /\ (h + k) % MicCapacity \in 0 .. MicCapacity - 1
  <1>1. MicCapacity \in Nat /\ MicCapacity > 0 /\ h \in Nat /\ k \in Nat /\ h < MicCapacity /\ k <= MicCapacity
    BY MicBounds
  <1>2. CASE h + k < MicCapacity
    BY <1>1, <1>2, Wraps
  <1>3. CASE ~(h + k < MicCapacity)
    <2> DEFINE y == h + k - MicCapacity
    <2>1. y \in Nat /\ y < MicCapacity /\ h + k = y + MicCapacity
      BY <1>1, <1>3
    <2>2. (y + MicCapacity) % MicCapacity = y
      <3> HIDE DEF y
      <3> QED
        BY <1>1, <2>1, Wraps
    <2> QED
      BY <1>1, <1>3, <2>1, <2>2
  <1> QED
    BY <1>2, <1>3

\* d samples on, the slots are those of the samples that follow.
LEMMA MicShifts ==
    ASSUME NEW h \in 0 .. MicCapacity - 1, NEW d \in 0 .. MicCapacity, NEW k \in Nat, d + k < MicCapacity
    PROVE  (((h + d) % MicCapacity) + k) % MicCapacity = (h + (d + k)) % MicCapacity
  <1>1. MicCapacity \in Nat /\ MicCapacity > 0
    BY MicBounds
  <1>2. d + k \in 0 .. MicCapacity
    BY <1>1
  <1>3. /\ (h + d) % MicCapacity = IF h + d < MicCapacity THEN h + d ELSE h + d - MicCapacity
        /\ (h + d) % MicCapacity \in 0 .. MicCapacity - 1
    BY <1>2, MicSlots
  <1>4. (h + (d + k)) % MicCapacity = IF h + (d + k) < MicCapacity THEN h + (d + k) ELSE h + (d + k) - MicCapacity
    BY <1>2, MicSlots
  <1> DEFINE y == ((h + d) % MicCapacity) + k
  <1>5. y \in 0 .. 2 * MicCapacity - 1
    BY <1>1, <1>3
  <1>6. y % MicCapacity = IF y < MicCapacity THEN y ELSE y - MicCapacity
    <2> HIDE DEF y
    <2> QED
      BY <1>5, MicWraps
  <1>7. CASE h + d < MicCapacity
    BY <1>1, <1>3, <1>4, <1>6, <1>7
  <1>8. CASE ~(h + d < MicCapacity)
    BY <1>1, <1>3, <1>4, <1>6, <1>8
  <1> QED
    BY <1>7, <1>8

\* Where slot k of a ring that starts at f lies from the slot of its sample number kept.
LEMMA MicPlaces ==
    ASSUME NEW f \in 0 .. MicCapacity - 1, NEW kept \in 0 .. MicCapacity, NEW k \in 0 .. MicCapacity - 1,
           NEW a, a = (f + k) % MicCapacity, NEW tail, tail = (f + kept) % MicCapacity
    PROVE  (a + MicCapacity - tail) % MicCapacity
               = IF k < kept THEN k - kept + MicCapacity ELSE k - kept
  <1>1. MicCapacity \in Nat /\ MicCapacity > 0
    BY MicBounds
  <1>2. k \in 0 .. MicCapacity
    BY <1>1
  <1>3. /\ a = IF f + k < MicCapacity THEN f + k ELSE f + k - MicCapacity
        /\ a \in 0 .. MicCapacity - 1
    BY <1>2, MicSlots
  <1>4. /\ tail = IF f + kept < MicCapacity THEN f + kept ELSE f + kept - MicCapacity
        /\ tail \in 0 .. MicCapacity - 1
    BY <1>2, MicSlots
  <1> DEFINE y == a + MicCapacity - tail
  <1>5. y \in 0 .. 2 * MicCapacity - 1
    BY <1>1, <1>3, <1>4
  <1>6. y % MicCapacity = IF y < MicCapacity THEN y ELSE y - MicCapacity
    <2> HIDE DEF y
    <2> QED
      BY <1>5, MicWraps
  <1>7. y = k - kept \/ y = k - kept + MicCapacity \/ y = k - kept + 2 * MicCapacity
    BY <1>1, <1>3, <1>4
  <1> HIDE DEF y
  <1>8. y % MicCapacity = IF k < kept THEN k - kept + MicCapacity ELSE k - kept
    BY <1>1, <1>5, <1>6, <1>7
  <1> QED
    BY <1>8 DEF y

LEMMA MicInitHolds == Mic!Init => MicInv
  <1> SUFFICES ASSUME Mic!Init PROVE MicInv
    OBVIOUS
  <1>1. /\ micCapture = [pc |-> "begin", pcm |-> <<>>, silent |-> FALSE, result |-> TRUE]
        /\ micCall = [op |-> "none", wanted |-> 0, out |-> <<>>]
        /\ micInInput = FALSE /\ micShutdown = FALSE /\ micCount = 0
    BY DEF Mic!Init, Mic!NoCall
  <1>2. <<>> \in Seq(Mic!Samples) /\ Len(<<>>) = 0
    OBVIOUS
  <1>3. micQueue \in [0 .. MicCapacity - 1 -> Mic!Samples]
    <2>1. Mic!NoSample \in Mic!Samples
      BY MicBounds DEF Mic!NoSample, Mic!Samples
    <2> QED
      BY <2>1 DEF Mic!Init, Mic!Cleared
  <1>4. MicTypes
    <2>1. 0 \in 0 .. MicCapacity - 1 /\ 0 \in 0 .. MicCapacity /\ 0 \in 0 .. MicMaxSamples /\ 0 \in 0 .. MicMaxStarts
      BY MicBounds
    <2>2. micCapture \in MicCaptureType /\ micCall \in MicCallType
      BY <1>1, <1>2 DEF MicCaptureType, MicCallType
    <2> QED
      BY <1>3, <2>1, <2>2 DEF MicTypes, Mic!Init
  <1>5. Flies
    BY <1>1 DEF Flies, Grained
  <1>6. Rings
    BY <1>1 DEF Rings
  <1>7. Copies
    BY <1>1, <1>2 DEF Copies
  <1> QED
    BY <1>4, <1>5, <1>6, <1>7 DEF MicInv

\* What a step that leaves the ring alone keeps of it.
LEMMA RingsKept ==
    ASSUME MicInv, UNCHANGED <<micQueue, micHead, micCount, micSilent, micSession>>, Newest' = Newest,
           ~micActive' /\ ~micShutdown' => micCount = 0, ~micShutdown' => ~micShutdown
    PROVE  Rings'
  BY DEF MicInv, Rings, RingAt, Mic!At
LEMMA CopiesKept ==
    ASSUME MicInv, UNCHANGED <<micQueue, micHead, micCount, micCall>>, Newest' = Newest
    PROVE  Copies'
  BY DEF MicInv, Copies, RingAt, Mic!At
LEMMA RingsEmptied == ASSUME micCount' = 0 PROVE Rings'
  <1>1. \A k : k \notin 0 .. 0 - 1
    OBVIOUS
  <1> QED
    BY <1>1 DEF Rings
LEMMA NoCopy == ASSUME micCall'.out = <<>> PROVE Copies'
  <1>1. \A k : k \notin 1 .. Len(<<>>)
    OBVIOUS
  <1> QED
    BY <1>1 DEF Copies
LEMMA ForgetFits == ASSUME Mic!Forget
                    PROVE  /\ micQueue' \in [0 .. MicCapacity - 1 -> Mic!Samples]
                           /\ micHead' \in 0 .. MicCapacity - 1 /\ micCount' \in 0 .. MicCapacity /\ micCount' = 0
  <1>1. Mic!NoSample \in Mic!Samples
    BY MicBounds DEF Mic!NoSample, Mic!Samples
  <1>2. 0 \in 0 .. MicCapacity - 1 /\ 0 \in 0 .. MicCapacity
    BY MicBounds
  <1> QED
    BY <1>1, <1>2 DEF Mic!Forget, Mic!Cleared

LEMMA NothingCopied == <<>> \in Seq(Mic!Samples)
  OBVIOUS

LEMMA BeginKeeps == ASSUME MicInv, Mic!CaptureBegin PROVE MicInv'
  <1>1. /\ micCapture.pc = "begin" /\ micCapture \in MicCaptureType /\ ~Grained /\ ~micInInput
        /\ UNCHANGED <<micActive, micShutdown, micFailed, micQueue, micHead, micCount, micSilent, micCall,
                       micNonblock, micMuted, micGiven, micSession>>
    BY DEF Mic!CaptureBegin, Mic!ring, MicInv, MicTypes, Flies, Grained
  <1>2. \/ micCapture' = [micCapture EXCEPT !.pc = "ended"] /\ micAsleep' = {} /\ micInInput' = micInInput
        \/ micAsleep' = micAsleep \cup {"capture"} /\ micCapture' = micCapture /\ micInInput' = micInInput
        \/ /\ micActive /\ ~micShutdown /\ micInInput' = TRUE
           /\ micCapture' = [micCapture EXCEPT !.pc = "input"] /\ micAsleep' = micAsleep
    BY DEF Mic!CaptureBegin, Mic!Broadcast, Mic!Sleep
  <1>3. /\ micCapture' \in MicCaptureType /\ micCapture'.pc \in {"begin", "ended", "input"}
        /\ micInInput' \in BOOLEAN /\ micAsleep' \subseteq {"capture", "frontend"}
    BY <1>1, <1>2 DEF MicCaptureType, MicInv, MicTypes
  <1>4. ~Grained' /\ Newest' = Newest
    BY <1>1, <1>3 DEF Grained, Newest
  <1>5. MicTypes'
    BY <1>1, <1>3 DEF MicInv, MicTypes, Mic!Samples
  <1>6. /\ micInInput' <=> micCapture'.pc \in {"input", "state", "store"}
        /\ micInInput' => micActive
    BY <1>1, <1>2 DEF MicCaptureType
  <1>7. Flies'
    BY <1>1, <1>3, <1>4, <1>6 DEF MicInv, Flies
  <1>8. Rings'
    BY <1>1, <1>4, RingsKept DEF MicInv, Rings
  <1>9. Copies'
    BY <1>1, <1>4, CopiesKept
  <1> QED
    BY <1>5, <1>7, <1>8, <1>9 DEF MicInv

LEMMA GrainKeeps == ASSUME MicInv, Mic!Input PROVE MicInv'
  <1>1. /\ micCapture.pc = "input" /\ micCapture \in MicCaptureType /\ ~Grained
        /\ UNCHANGED <<micActive, micShutdown, micFailed, micInInput, micQueue, micHead, micCount, micSilent, micCall,
                       micAsleep, micNonblock, micMuted, micSession>>
    BY DEF Mic!Input, Mic!ring, Mic!flags, MicInv, MicTypes, Grained
  <1>2. micGiven \in 0 .. MicMaxSamples /\ micSession \in 0 .. MicMaxStarts /\ micMuted \in BOOLEAN
    BY DEF MicInv, MicTypes
  <1>3. /\ micCapture' \in MicCaptureType /\ micCapture'.pc \in {"state", "store"} /\ micGiven' \in 0 .. MicMaxSamples
        /\ micCapture'.pc = "state" => micCapture'.result
        /\ Grained' => /\ Len(micCapture'.pcm) = MicGrain /\ MicGrain <= micGiven'
                       /\ \A i \in 1 .. MicGrain : /\ micCapture'.pcm[i].n = micGiven' - MicGrain + i
                                                   /\ micCapture'.pcm[i].session = micSession
        /\ Newest' = Newest
    <2>1. CASE micGiven + MicGrain <= MicMaxSamples /\ micGiven' = micGiven + MicGrain /\ \E speech \in BOOLEAN :
                   micCapture' = [pc |-> "state", silent |-> FALSE, result |-> TRUE,
                       pcm |-> [i \in 1 .. MicGrain |->
                                   [n |-> micGiven + i, speech |-> speech /\ ~micMuted, session |-> micSession]]]
      <3>1. PICK speech \in BOOLEAN :
                   micCapture' = [pc |-> "state", silent |-> FALSE, result |-> TRUE,
                       pcm |-> [i \in 1 .. MicGrain |->
                                   [n |-> micGiven + i, speech |-> speech /\ ~micMuted, session |-> micSession]]]
        BY <2>1
      <3> DEFINE pcm == [i \in 1 .. MicGrain |->
                            [n |-> micGiven + i, speech |-> speech /\ ~micMuted, session |-> micSession]]
      <3>2. micGiven + MicGrain <= MicMaxSamples /\ micGiven' = micGiven + MicGrain
        BY <2>1
      <3>3. ASSUME NEW i \in 1 .. MicGrain
            PROVE  [n |-> micGiven + i, speech |-> speech /\ ~micMuted, session |-> micSession] \in Mic!Samples
        <4>1. micGiven + i \in 0 .. MicMaxSamples
          BY <1>2, <3>2, MicBounds
        <4>2. (speech /\ ~micMuted) \in BOOLEAN
          OBVIOUS
        <4> QED
          BY <1>2, <4>1, <4>2 DEF Mic!Samples
      <3>4. pcm \in [1 .. MicGrain -> Mic!Samples]
        BY <3>3
      <3>5. pcm \in Seq(Mic!Samples) /\ Len(pcm) = MicGrain
        BY <3>4, MicBounds
      <3>6. \A i \in 1 .. MicGrain : pcm[i].n = micGiven + i /\ pcm[i].session = micSession
        OBVIOUS
      <3>7. micCapture' = [pc |-> "state", silent |-> FALSE, result |-> TRUE, pcm |-> pcm]
        BY <3>1
      <3> HIDE DEF pcm
      <3>8. /\ micCapture' \in MicCaptureType /\ micCapture'.pc = "state" /\ micCapture'.result /\ micCapture'.pcm = pcm
        BY <3>5, <3>7 DEF MicCaptureType
      <3>9. micGiven' - MicGrain = micGiven /\ MicGrain <= micGiven' /\ micGiven' \in 0 .. MicMaxSamples
        BY <1>2, <3>2, MicBounds
      <3>10. Newest' = Newest
        BY <1>1, <3>8, <3>9 DEF Newest, Grained
      <3> QED
        BY <3>5, <3>6, <3>8, <3>9, <3>10
    <2>2. CASE micCapture' = [micCapture EXCEPT !.pc = "store", !.result = FALSE] /\ micGiven' = micGiven
      <3>1. micCapture' \in MicCaptureType /\ micCapture'.pc = "store" /\ micCapture'.result = FALSE
        BY <1>1, <2>2 DEF MicCaptureType
      <3>2. ~Grained'
        BY <3>1 DEF Grained
      <3> QED
        BY <1>1, <1>2, <2>2, <3>1, <3>2 DEF Newest
    <2> QED
      BY <2>1, <2>2 DEF Mic!Input
  <1>4. MicTypes'
    BY <1>1, <1>3 DEF MicInv, MicTypes, Mic!Samples
  <1>5. Flies'
    <2>1. micInInput /\ (~micActive => micCall.op \in {"stop", "close", "closed"})
      BY <1>1 DEF MicInv, Flies
    <2> QED
      BY <1>1, <1>3, <2>1 DEF MicInv, Flies
  <1>6. Rings'
    BY <1>1, <1>3, RingsKept DEF MicInv, Rings
  <1>7. Copies'
    BY <1>1, <1>3, CopiesKept
  <1> QED
    BY <1>4, <1>5, <1>6, <1>7 DEF MicInv

LEMMA StateKeeps == ASSUME MicInv, Mic!SilentState PROVE MicInv'
  <1>1. /\ micCapture.pc = "state" /\ micCapture \in MicCaptureType /\ micCapture.result /\ micMuted \in BOOLEAN
        /\ micCapture' = [micCapture EXCEPT !.pc = "store", !.silent = micMuted]
        /\ UNCHANGED <<micActive, micShutdown, micFailed, micInInput, micQueue, micHead, micCount, micSilent, micCall,
                       micAsleep, micNonblock, micMuted, micGiven, micSession>>
    BY DEF Mic!SilentState, Mic!ring, Mic!flags, MicInv, MicTypes, Flies
  <1>2. /\ micCapture' \in MicCaptureType /\ micCapture'.pc = "store" /\ micCapture'.result
        /\ micCapture'.pcm = micCapture.pcm
    BY <1>1 DEF MicCaptureType
  <1>3. Grained /\ Grained' /\ Newest' = Newest
    BY <1>1, <1>2 DEF Grained, Newest
  <1>4. MicTypes'
    BY <1>1, <1>2 DEF MicInv, MicTypes, Mic!Samples
  <1>5. Flies'
    BY <1>1, <1>2, <1>3 DEF MicInv, Flies
  <1>6. Rings'
    BY <1>1, <1>3, RingsKept DEF MicInv, Rings
  <1>7. Copies'
    BY <1>1, <1>3, CopiesKept
  <1> QED
    BY <1>4, <1>5, <1>6, <1>7 DEF MicInv

\* A start and a stop forget the ring.
LEMMA StartKeeps == ASSUME MicInv, Mic!Start PROVE MicInv'
  <1>1. /\ micCall.op = "none" /\ micSession < MicMaxStarts /\ ~micActive /\ micActive' = TRUE
        /\ micSession' = micSession + 1 /\ Mic!Forget /\ micAsleep' = {}
        /\ UNCHANGED <<micShutdown, micFailed, micInInput, micSilent, micCapture, micCall, micNonblock, micMuted, micGiven>>
    BY DEF Mic!Start, Mic!Idle, Mic!Broadcast
  <1>2. ~micInInput /\ ~Grained
    BY <1>1 DEF MicInv, Flies, Grained
  <1>3. micSession' \in 0 .. MicMaxStarts
    BY <1>1, MicBounds DEF MicInv, MicTypes
  <1>4. MicTypes'
    BY <1>1, <1>3, ForgetFits DEF MicInv, MicTypes, Mic!Samples
  <1>5. ~Grained'
    BY <1>1, <1>2 DEF Grained
  <1>6. Flies'
    BY <1>1, <1>2, <1>5 DEF MicInv, Flies
  <1>7. Rings'
    BY <1>1, ForgetFits, RingsEmptied
  <1>8. micCall'.out = <<>>
    BY <1>1 DEF MicInv, Copies
  <1> QED
    BY <1>4, <1>6, <1>7, <1>8, NoCopy DEF MicInv

LEMMA StopKeeps == ASSUME MicInv, Mic!Stop PROVE MicInv'
  <1>1. /\ micCall.op = "none" /\ micActive' = FALSE /\ Mic!Forget
        /\ micAsleep' = IF micInInput THEN {"frontend"} ELSE {}
        /\ micCall' = [[op |-> "none", wanted |-> 0, out |-> <<>>] EXCEPT !.op = IF micInInput THEN "stop" ELSE "none"]
        /\ UNCHANGED <<micShutdown, micFailed, micInInput, micSilent, micCapture, micNonblock, micMuted, micGiven, micSession>>
    BY DEF Mic!Stop, Mic!Idle, Mic!Waits, Mic!NoCall
  <1>2. /\ micCall' \in MicCallType /\ micCall'.out = <<>> /\ (micInInput => micCall'.op = "stop")
    BY <1>1, NothingCopied DEF MicCallType
  <1>3. Grained' <=> Grained
    BY <1>1 DEF Grained
  <1>4. MicTypes'
    BY <1>1, <1>2, ForgetFits DEF MicInv, MicTypes, Mic!Samples
  <1>5. ~micShutdown
    BY <1>1 DEF MicInv, Flies
  <1>6. Flies'
    BY <1>1, <1>2, <1>3, <1>5 DEF MicInv, Flies
  <1>7. Rings'
    BY <1>1, ForgetFits, RingsEmptied
  <1> QED
    BY <1>2, <1>4, <1>6, <1>7, NoCopy DEF MicInv

\* A caller that begins, waits or ends without a copy.
LEMMA CallsKeep ==
    ASSUME MicInv, micCall' \in MicCallType, micCall'.out = <<>>, micAsleep' \subseteq {"capture", "frontend"},
           UNCHANGED <<micActive, micShutdown, micFailed, micInInput, micQueue, micHead, micCount, micSilent,
                       micCapture, micNonblock, micMuted, micGiven, micSession>>,
           micInInput /\ ~micActive => micCall'.op \in {"stop", "close", "closed"},
           micShutdown => micCall'.op \in {"close", "closed"}
    PROVE  MicInv'
  <1>1. (Grained' <=> Grained) /\ Newest' = Newest
    BY DEF Grained, Newest
  <1>2. MicTypes'
    BY DEF MicInv, MicTypes, Mic!Samples
  <1>3. Flies'
    BY <1>1 DEF MicInv, Flies
  <1>4. Rings'
    BY <1>1, RingsKept DEF MicInv, Rings
  <1> QED
    BY <1>2, <1>3, <1>4, NoCopy DEF MicInv

LEMMA WaitKeeps == ASSUME MicInv, Mic!StopWaits PROVE MicInv'
  <1>1. /\ micCall.op = "stop"
        /\ IF micInInput THEN micAsleep' = micAsleep \cup {"frontend"} /\ micCall' = micCall
           ELSE micCall' = [op |-> "none", wanted |-> 0, out |-> <<>>] /\ micAsleep' = micAsleep
        /\ UNCHANGED <<micActive, micShutdown, micFailed, micInInput, micQueue, micHead, micCount, micSilent,
                       micCapture, micNonblock, micMuted, micGiven, micSession>>
    BY DEF Mic!StopWaits, Mic!Waits, Mic!Sleep, Mic!NoCall, Mic!flags, Mic!ring
  <1>2. micAsleep' \subseteq {"capture", "frontend"}
    BY <1>1 DEF MicInv, MicTypes
  <1>3. ~micShutdown
    BY <1>1 DEF MicInv, Flies
  <1>4. CASE micInInput
    <2>1. micCall' \in MicCallType /\ micCall'.out = <<>> /\ (micInInput => micCall'.op = "stop")
      BY <1>1, <1>4 DEF MicInv, MicTypes, Copies
    <2> QED
      BY <1>1, <1>2, <1>3, <1>4, <2>1, CallsKeep
  <1>5. CASE ~micInInput
    <2>1. micCall' \in MicCallType /\ micCall'.out = <<>> /\ (micInInput => micCall'.op = "stop")
      <3>1. micCall' = [op |-> "none", wanted |-> 0, out |-> <<>>]
        BY <1>1, <1>5
      <3> QED
        BY <1>5, <3>1, NothingCopied DEF MicCallType
    <2> QED
      BY <1>1, <1>2, <1>3, <1>5, <2>1, CallsKeep
  <1> QED
    BY <1>4, <1>5

LEMMA AskKeeps == ASSUME MicInv, NEW n \in MicAsks, Mic!AskRead(n) PROVE MicInv'
  <1>1. /\ micCall.op = "none" /\ micCall' = [op |-> "read", wanted |-> n, out |-> <<>>]
        /\ UNCHANGED <<micActive, micShutdown, micFailed, micInInput, micQueue, micHead, micCount, micSilent,
                       micCapture, micAsleep, micNonblock, micMuted, micGiven, micSession>>
    BY DEF Mic!AskRead, Mic!Idle, Mic!flags, Mic!ring
  <1>2. micCall' \in MicCallType /\ micCall'.out = <<>>
    BY <1>1, MicBounds DEF MicCallType
  <1>3. ~micShutdown /\ ~(micInInput /\ ~micActive) /\ micAsleep' \subseteq {"capture", "frontend"}
    BY <1>1 DEF MicInv, Flies, MicTypes
  <1> QED
    BY <1>1, <1>2, <1>3, CallsKeep

LEMMA CloseMicKeeps == ASSUME MicInv, Mic!Close PROVE MicInv'
  <1>1. /\ micCall' = [[op |-> "none", wanted |-> 0, out |-> <<>>] EXCEPT !.op = "close"]
        /\ micShutdown' = TRUE /\ micActive' = FALSE /\ micAsleep' = {}
        /\ UNCHANGED <<micFailed, micInInput, micQueue, micHead, micCount, micSilent,
                       micCapture, micNonblock, micMuted, micGiven, micSession>>
    BY DEF Mic!Close, Mic!Broadcast, Mic!NoCall, Mic!ring
  <1>2. micCall' \in MicCallType /\ micCall'.out = <<>> /\ micCall'.op = "close"
    BY <1>1, NothingCopied DEF MicCallType
  <1>3. (Grained' <=> Grained) /\ Newest' = Newest
    BY <1>1 DEF Grained, Newest
  <1>4. MicTypes'
    BY <1>1, <1>2 DEF MicInv, MicTypes, Mic!Samples
  <1>5. Flies'
    BY <1>1, <1>2, <1>3 DEF MicInv, Flies
  <1>6. Rings'
    BY <1>1, <1>3, RingsKept
  <1> QED
    BY <1>2, <1>4, <1>5, <1>6, NoCopy DEF MicInv

LEMMA JoinKeeps == ASSUME MicInv, Mic!Joined PROVE MicInv'
  <1>1. /\ micCall.op = "close" /\ micCall' = [micCall EXCEPT !.op = "closed"] /\ Mic!Forget
        /\ UNCHANGED <<micActive, micShutdown, micFailed, micInInput, micSilent, micCapture, micAsleep, micNonblock,
                       micMuted, micGiven, micSession>>
    BY DEF Mic!Joined, Mic!flags
  <1>2. micCall' \in MicCallType /\ micCall'.out = <<>> /\ micCall'.op = "closed"
    BY <1>1 DEF MicInv, MicTypes, MicCallType, Copies
  <1>3. Grained' <=> Grained
    BY <1>1 DEF Grained
  <1>4. MicTypes'
    BY <1>1, <1>2, ForgetFits DEF MicInv, MicTypes, Mic!Samples
  <1>5. Flies'
    BY <1>1, <1>2, <1>3 DEF MicInv, Flies
  <1>6. Rings'
    BY <1>1, ForgetFits, RingsEmptied
  <1> QED
    BY <1>2, <1>4, <1>5, <1>6, NoCopy DEF MicInv

LEMMA SwitchKeeps == ASSUME MicInv, Mic!SetNonblock \/ Mic!Mute PROVE MicInv'
  <1>1. /\ micNonblock' \in BOOLEAN /\ micMuted' \in BOOLEAN
        /\ UNCHANGED <<micActive, micShutdown, micFailed, micInInput, micQueue, micHead, micCount, micSilent,
                       micCapture, micCall, micAsleep, micGiven, micSession>>
    BY DEF Mic!SetNonblock, Mic!Mute, Mic!flags, Mic!ring, MicInv, MicTypes
  <1>2. (Grained' <=> Grained) /\ Newest' = Newest
    BY <1>1 DEF Grained, Newest
  <1>3. MicTypes'
    BY <1>1 DEF MicInv, MicTypes, Mic!Samples
  <1>4. Flies'
    BY <1>1, <1>2 DEF MicInv, Flies
  <1>5. Rings'
    BY <1>1, <1>2, RingsKept DEF MicInv, Rings
  <1>6. Copies'
    BY <1>1, <1>2, CopiesKept
  <1> QED
    BY <1>3, <1>4, <1>5, <1>6 DEF MicInv

\* The ring's samples are in it, and numbered on from its first one.
LEMMA RingHas ==
    ASSUME MicInv, NEW k \in 0 .. micCount - 1
    PROVE  /\ Mic!At(k) \in 0 .. MicCapacity - 1 /\ RingAt(k) \in Mic!Samples
           /\ RingAt(k).n \in Nat /\ RingAt(0).n \in Nat /\ RingAt(k).n = RingAt(0).n + k
           /\ RingAt(k).session = micSession /\ (micSilent => ~RingAt(k).speech)
  <1>1. micCount \in 0 .. MicCapacity /\ micHead \in 0 .. MicCapacity - 1 /\ micQueue \in [0 .. MicCapacity - 1 -> Mic!Samples]
    BY DEF MicInv, MicTypes
  <1>2. k \in 0 .. MicCapacity /\ 0 \in 0 .. MicCapacity /\ 0 \in 0 .. micCount - 1
    BY <1>1, MicBounds
  <1>3. (micHead + k) % MicCapacity \in 0 .. MicCapacity - 1 /\ (micHead + 0) % MicCapacity \in 0 .. MicCapacity - 1
    BY <1>1, <1>2, MicSlots
  <1>4. Mic!At(k) \in 0 .. MicCapacity - 1 /\ Mic!At(0) \in 0 .. MicCapacity - 1
    BY <1>3 DEF Mic!At
  <1>5. RingAt(k) \in Mic!Samples /\ RingAt(0) \in Mic!Samples
    BY <1>1, <1>4 DEF RingAt
  <1>6. \A s \in Mic!Samples : s.n \in Nat
    BY MicBounds DEF Mic!Samples
  <1> QED
    BY <1>4, <1>5, <1>6 DEF MicInv, Rings

\* What is copied, with the ring's first samples after it, is in order.
LEMMA CopyOrders ==
    ASSUME MicInv, NEW t \in 0 .. micCount
    PROVE  LET s == micCall.out \o [i \in 1 .. t |-> micQueue[Mic!At(i - 1)]] IN
           /\ s \in Seq(Mic!Samples)
           /\ \A i, j \in 1 .. Len(s) : i < j => s[i].n < s[j].n
           /\ \A i \in 1 .. Len(s) : s[i].n \in Nat /\ (t > 0 => s[i].n < RingAt(0).n + t)
  <1> DEFINE out == micCall.out
             piece == [i \in 1 .. t |-> micQueue[Mic!At(i - 1)]]
             s == out \o piece
  <1>1. out \in Seq(Mic!Samples) /\ Len(out) \in Nat
    BY DEF MicInv, MicTypes, MicCallType
  <1>2. t \in Nat /\ micCount \in Nat
    BY MicBounds DEF MicInv, MicTypes
  <1>3. ASSUME NEW i \in 1 .. t
        PROVE  /\ micQueue[Mic!At(i - 1)] \in Mic!Samples /\ micQueue[Mic!At(i - 1)].n \in Nat
               /\ RingAt(0).n \in Nat /\ micQueue[Mic!At(i - 1)].n = RingAt(0).n + (i - 1)
    <2>1. i - 1 \in 0 .. micCount - 1
      BY <1>2
    <2>2. \A k \in 0 .. micCount - 1 : /\ RingAt(k) \in Mic!Samples /\ RingAt(k).n \in Nat
                                       /\ RingAt(0).n \in Nat /\ RingAt(k).n = RingAt(0).n + k
      BY RingHas
    <2>3. RingAt(i - 1) = micQueue[Mic!At(i - 1)]
      BY DEF RingAt
    <2> QED
      BY <2>1, <2>2, <2>3
  <1>4. piece \in Seq(Mic!Samples) /\ Len(piece) = t
    <2>1. piece \in [1 .. t -> Mic!Samples]
      BY <1>3
    <2> QED
      BY <1>2, <2>1
  <1>5. \A i \in 1 .. t : piece[i].n \in Nat /\ piece[i].n = RingAt(0).n + (i - 1) /\ RingAt(0).n \in Nat
    BY <1>3
  <1>6. \A i \in 1 .. Len(out) : out[i].n \in Nat /\ (micCount > 0 => out[i].n < RingAt(0).n)
    <2>1. \A i \in 1 .. Len(out) : out[i] \in Mic!Samples
      BY <1>1
    <2>2. \A x \in Mic!Samples : x.n \in Nat
      BY MicBounds DEF Mic!Samples
    <2> QED
      BY <2>1, <2>2 DEF MicInv, Copies
  <1>7. \A i, j \in 1 .. Len(out) : i < j => out[i].n < out[j].n
    BY DEF MicInv, Copies
  <1> HIDE DEF out, piece
  <1>8. /\ s \in Seq(Mic!Samples) /\ Len(s) = Len(out) + t
        /\ \A i \in 1 .. Len(s) : s[i] = IF i <= Len(out) THEN out[i] ELSE piece[i - Len(out)]
    BY <1>1, <1>4, ConcatProperties
  <1> HIDE DEF s
  <1>9. ASSUME NEW i \in 1 .. Len(s)
        PROVE  /\ i <= Len(out) => s[i].n = out[i].n /\ i \in 1 .. Len(out)
               /\ ~(i <= Len(out)) => /\ s[i].n = piece[i - Len(out)].n /\ i - Len(out) \in 1 .. t
    BY <1>1, <1>2, <1>8
  <1>10. ASSUME NEW i \in 1 .. Len(s) PROVE s[i].n \in Nat /\ (t > 0 => s[i].n < RingAt(0).n + t)
    <2>1. CASE i <= Len(out)
      <3>1. s[i].n \in Nat /\ (t > 0 => s[i].n < RingAt(0).n)
        BY <1>2, <1>6, <1>9, <2>1
      <3>2. t > 0 => RingAt(0).n \in Nat
        <4>1. t > 0 => 1 \in 1 .. t
          BY <1>2
        <4> QED
          BY <1>5, <4>1
      <3> QED
        BY <1>2, <3>1, <3>2
    <2>2. CASE ~(i <= Len(out))
      <3> PICK m \in 1 .. t : m = i - Len(out)
        BY <1>9, <2>2
      <3>1. s[i].n = piece[m].n /\ piece[m].n \in Nat /\ piece[m].n = RingAt(0).n + (m - 1) /\ RingAt(0).n \in Nat
        BY <1>5, <1>9, <2>2
      <3> QED
        BY <1>2, <3>1
    <2> QED
      BY <2>1, <2>2
  <1>11. ASSUME NEW i \in 1 .. Len(s), NEW j \in 1 .. Len(s), i < j PROVE s[i].n < s[j].n
    <2>0. i \in Nat /\ j \in Nat
      OBVIOUS
    <2>1. CASE j <= Len(out)
      <3>1. i <= Len(out)
        BY <1>1, <1>11, <2>0, <2>1
      <3> QED
        BY <1>7, <1>9, <1>11, <2>1, <3>1
    <2>2. CASE ~(j <= Len(out))
      <3> PICK m \in 1 .. t : m = j - Len(out)
        BY <1>9, <2>2
      <3>1. s[j].n = piece[m].n /\ piece[m].n = RingAt(0).n + (m - 1) /\ RingAt(0).n \in Nat
        BY <1>5, <1>9, <2>2
      <3>2. CASE i <= Len(out)
        <4>1. s[i].n \in Nat /\ s[i].n < RingAt(0).n
          BY <1>2, <1>6, <1>9, <3>2
        <4> QED
          BY <1>2, <3>1, <4>1
      <3>3. CASE ~(i <= Len(out))
        <4> PICK l \in 1 .. t : l = i - Len(out)
          BY <1>9, <3>3
        <4>1. s[i].n = piece[l].n /\ piece[l].n = RingAt(0).n + (l - 1)
          BY <1>5, <1>9, <3>3
        <4>2. l < m
          BY <1>1, <1>11, <2>0
        <4> QED
          BY <1>2, <3>1, <4>1, <4>2
      <3> QED
        BY <3>2, <3>3
    <2> QED
      BY <2>1, <2>2
  <1> QED
    BY <1>8, <1>10, <1>11 DEF s, out, piece

LEMMA ReadKeeps == ASSUME MicInv, Mic!Read PROVE MicInv'
  <1>1. /\ micCall.op = "read"
        /\ UNCHANGED <<micActive, micShutdown, micFailed, micInInput, micSilent, micCapture, micNonblock, micMuted,
                       micGiven, micSession>>
    BY DEF Mic!Read, Mic!flags
  <1>2. ~micShutdown /\ ~(micInInput /\ ~micActive) /\ micCall \in MicCallType
    BY <1>1 DEF MicInv, Flies, MicTypes
  <1>3. (Grained' <=> Grained) /\ Newest' = Newest
    BY <1>1 DEF Grained, Newest
  <1>4. CASE micCall' = Mic!NoCall /\ UNCHANGED <<micAsleep, micQueue, micHead, micCount>>
    <2>1. micCall' = [op |-> "none", wanted |-> 0, out |-> <<>>]
      BY <1>4 DEF Mic!NoCall
    <2>2. micCall' \in MicCallType /\ micCall'.out = <<>>
      BY <2>1, NothingCopied DEF MicCallType
    <2>3. micAsleep' \subseteq {"capture", "frontend"}
      BY <1>4 DEF MicInv, MicTypes
    <2> QED
      BY <1>1, <1>2, <1>4, <2>2, <2>3, CallsKeep
  <1>5. CASE Mic!Sleep("frontend") /\ UNCHANGED <<micCall, micQueue, micHead, micCount>>
    <2>1. micAsleep' \subseteq {"capture", "frontend"}
      BY <1>5 DEF MicInv, MicTypes, Mic!Sleep
    <2>2. MicTypes'
      BY <1>1, <1>5, <2>1 DEF MicInv, MicTypes, Mic!Samples
    <2>3. Flies'
      BY <1>1, <1>3, <1>5 DEF MicInv, Flies
    <2>4. Rings'
      BY <1>1, <1>3, <1>5, RingsKept DEF MicInv, Rings
    <2>5. Copies'
      BY <1>1, <1>3, <1>5, CopiesKept
    <2> QED
      BY <2>2, <2>3, <2>4, <2>5 DEF MicInv
  <1>6. CASE /\ Mic!Room > 0 /\ micActive /\ micCount > 0
             /\ micCall' = [micCall EXCEPT !.out = micCall.out \o [i \in 1 .. Mic!Taken |-> micQueue[Mic!At(i - 1)]]]
             /\ micHead' = Mic!At(Mic!Taken) /\ micCount' = micCount - Mic!Taken /\ UNCHANGED <<micQueue, micAsleep>>
    <2>0. Mic!Room \in Int /\ micCount \in 0 .. MicCapacity /\ micHead \in 0 .. MicCapacity - 1
      <3>1. Len(micCall.out) \in Nat /\ micCall.wanted \in Nat
        BY <1>2 DEF MicCallType
      <3> QED
        BY <3>1 DEF Mic!Room, MicInv, MicTypes
    <2>1. Mic!Taken \in 1 .. micCount
      BY <1>6, <2>0, MicBounds DEF Mic!Taken
    <2> PICK t \in 1 .. micCount : t = Mic!Taken
      BY <2>1
    <2>2. t \in Nat /\ t > 0 /\ t <= micCount /\ t \in 0 .. MicCapacity /\ t \in 0 .. micCount /\ micCount - t \in 0 .. MicCapacity
      BY <2>0, MicBounds
    <2> DEFINE s == micCall.out \o [i \in 1 .. t |-> micQueue[Mic!At(i - 1)]]
    <2>3. /\ micCall' = [micCall EXCEPT !.out = s] /\ micHead' = (micHead + t) % MicCapacity /\ micCount' = micCount - t
          /\ UNCHANGED <<micQueue, micAsleep>>
      BY <1>6 DEF Mic!At
    <2>4. /\ s \in Seq(Mic!Samples)
          /\ \A i, j \in 1 .. Len(s) : i < j => s[i].n < s[j].n
          /\ \A i \in 1 .. Len(s) : s[i].n \in Nat /\ s[i].n < RingAt(0).n + t
      BY <2>2, CopyOrders
    <2> HIDE DEF s
    <2>5. micCall' \in MicCallType /\ micCall'.op = "read" /\ micCall'.out = s
      BY <1>1, <1>2, <2>3, <2>4 DEF MicCallType
    <2>6. micHead' \in 0 .. MicCapacity - 1 /\ micCount' \in 0 .. MicCapacity
      <3>1. (micHead + t) % MicCapacity \in 0 .. MicCapacity - 1
        BY <2>0, <2>2, MicSlots
      <3> QED
        BY <2>2, <2>3, <3>1
    <2>7. MicTypes'
      BY <1>1, <2>3, <2>5, <2>6 DEF MicInv, MicTypes, Mic!Samples
    <2>8. Flies'
      BY <1>1, <1>2, <1>3, <2>5 DEF MicInv, Flies
    <2>9. ASSUME NEW k \in 0 .. micCount - t - 1 PROVE RingAt(k)' = RingAt(t + k) /\ t + k \in 0 .. micCount - 1
      <3>1. k \in Nat /\ t + k < MicCapacity /\ t + k \in 0 .. micCount - 1
        BY <2>0, <2>2, MicBounds
      <3>2. (((micHead + t) % MicCapacity) + k) % MicCapacity = (micHead + (t + k)) % MicCapacity
        BY <2>0, <2>2, <3>1, MicShifts
      <3> QED
        BY <2>3, <3>1, <3>2 DEF RingAt, Mic!At
    <2>10. \A m \in 0 .. micCount - 1 : /\ RingAt(m).n \in Nat /\ RingAt(0).n \in Nat /\ RingAt(m).n = RingAt(0).n + m
                                        /\ RingAt(m).session = micSession /\ (micSilent => ~RingAt(m).speech)
      BY RingHas
    <2>11. 0 \in 0 .. micCount - 1 /\ RingAt(0).n \in Nat
      BY <2>0, <2>2, <2>10
    <2>12. ASSUME NEW k \in 0 .. micCount - t - 1
           PROVE  /\ RingAt(k)'.n = RingAt(0).n + (t + k) /\ RingAt(k)'.session = micSession
                  /\ micSilent => ~RingAt(k)'.speech
      BY <2>9, <2>10
    <2>13. micCount - t > 0 => 0 \in 0 .. micCount - t - 1 /\ RingAt(0)'.n = RingAt(0).n + t
      <3>1. SUFFICES ASSUME micCount - t > 0 PROVE 0 \in 0 .. micCount - t - 1 /\ RingAt(0)'.n = RingAt(0).n + t
        OBVIOUS
      <3>2. 0 \in 0 .. micCount - t - 1
        BY <2>0, <2>2, <3>1
      <3>3. RingAt(0)'.n = RingAt(0).n + (t + 0)
        BY <2>12, <3>2
      <3> QED
        BY <2>2, <3>2, <3>3
    <2>14. RingAt(0).n + micCount = Newest + 1 /\ Newest \in Int
      <3>1. Newest \in Int
        BY MicBounds DEF Newest, MicInv, MicTypes
      <3> QED
        BY <1>2, <1>6, <3>1 DEF MicInv, Rings
    <2>15. Rings'
      <3>1. \A k \in 0 .. micCount - t - 1 : /\ RingAt(k)'.n = RingAt(0)'.n + k /\ RingAt(k)'.session = micSession
                                             /\ micSilent => ~RingAt(k)'.speech
        <4>1. TAKE k \in 0 .. micCount - t - 1
        <4>2. micCount - t > 0 /\ k \in Nat
          BY <2>0, <2>2
        <4>3. RingAt(0).n + (t + k) = (RingAt(0).n + t) + k
          BY <2>2, <2>11, <4>2
        <4> QED
          BY <2>12, <2>13, <4>2, <4>3
      <3>2. micCount - t > 0 => RingAt(0)'.n + (micCount - t) = Newest + 1
        BY <2>0, <2>2, <2>11, <2>13, <2>14
      <3> QED
        BY <1>1, <1>3, <1>6, <2>3, <3>1, <3>2 DEF Rings
    <2>16. Copies'
      <3>1. \A i \in 1 .. Len(s) : s[i].n <= Newest
        <4>1. TAKE i \in 1 .. Len(s)
        <4>2. s[i].n \in Nat /\ s[i].n < RingAt(0).n + t
          BY <2>4
        <4> QED
          BY <2>0, <2>2, <2>11, <2>14, <4>2
      <3>2. \A i \in 1 .. Len(s) : micCount - t > 0 => s[i].n < RingAt(0)'.n
        BY <2>4, <2>13
      <3> QED
        BY <1>3, <2>3, <2>4, <2>5, <3>1, <3>2 DEF Copies
    <2> QED
      BY <2>7, <2>8, <2>15, <2>16 DEF MicInv
  <1> QED
    BY <1>4, <1>5, <1>6 DEF Mic!Read, Mic!ring

\* A grain that is stored follows what is kept of the ring.
LEMMA GrainStored ==
    ASSUME MicInv, Mic!Store, micCapture.result, Mic!Stores
    PROVE  \E kept \in 0 .. micCount :
           /\ micHead' \in 0 .. MicCapacity - 1 /\ micCount' = kept + MicGrain /\ micCount' \in 0 .. MicCapacity
           /\ micQueue' \in [0 .. MicCapacity - 1 -> Mic!Samples] /\ micSilent' = micCapture.silent
           /\ kept > 0 /\ micSilent' => micSilent
           /\ \A k \in 0 .. micCount' - 1 :
                  IF k < kept THEN RingAt(k)' = RingAt(micCount - kept + k)
                  ELSE /\ RingAt(k)'.n = micCapture.pcm[k - kept + 1].n
                       /\ RingAt(k)'.session = micCapture.pcm[k - kept + 1].session
                       /\ micSilent' => ~RingAt(k)'.speech
  <1>1. /\ micCount \in 0 .. MicCapacity /\ micHead \in 0 .. MicCapacity - 1
        /\ micQueue \in [0 .. MicCapacity - 1 -> Mic!Samples] /\ micSilent \in BOOLEAN
        /\ micCapture \in MicCaptureType /\ Len(micCapture.pcm) = MicGrain
    BY DEF MicInv, MicTypes, Flies, Grained, Mic!Store
  <1>2. micCapture.pcm \in Seq(Mic!Samples) /\ micCapture.silent \in BOOLEAN /\ DOMAIN micCapture.pcm = 1 .. MicGrain
    BY <1>1 DEF MicCaptureType
  <1>3. /\ Mic!Held \in 0 .. micCount /\ (Mic!Clears => Mic!Held = 0) /\ (~Mic!Clears => Mic!Held = micCount)
    BY <1>1, MicBounds DEF Mic!Held
  <1>4. /\ Mic!Discard \in 0 .. MicGrain /\ Mic!Discard <= Mic!Held /\ Mic!Held - Mic!Discard + MicGrain <= MicCapacity
    <2> PICK h \in 0 .. micCount : h = Mic!Held
      BY <1>3
    <2>1. Mic!Discard = IF MicGrain > MicCapacity - h THEN MicGrain - (MicCapacity - h) ELSE 0
      BY DEF Mic!Discard
    <2>2. h \in Nat /\ h <= MicCapacity
      BY <1>1, MicBounds
    <2> QED
      BY <2>1, <2>2, MicBounds
  <1> PICK d \in 0 .. MicGrain : d = Mic!Discard
    BY <1>4
  <1> PICK kept \in 0 .. micCount : kept = Mic!Held - d
    <2>1. Mic!Held - d \in 0 .. micCount
      BY <1>1, <1>3, <1>4, MicBounds
    <2> QED
      BY <2>1
  <1>5. /\ kept \in Nat /\ kept + MicGrain <= MicCapacity /\ kept + MicGrain \in 0 .. MicCapacity
        /\ d \in Nat /\ d <= MicCapacity /\ Mic!Held = kept + d
    BY <1>1, <1>3, <1>4, MicBounds
  <1>6. Mic!First = IF Mic!Clears THEN 0 ELSE (micHead + d) % MicCapacity
    BY DEF Mic!First
  <1>7. Mic!First \in 0 .. MicCapacity - 1
    <2>1. (micHead + d) % MicCapacity \in 0 .. MicCapacity - 1 /\ 0 \in 0 .. MicCapacity - 1
      BY <1>1, <1>5, MicSlots, MicBounds
    <2> QED
      BY <1>6, <2>1
  <1> PICK f \in 0 .. MicCapacity - 1 : f = Mic!First
    BY <1>7
  <1>8. f + Mic!Held - d = f + kept
    BY <1>5, MicBounds
  <1>19. (f + kept) % MicCapacity \in 0 .. MicCapacity - 1
    <2>1. kept \in 0 .. MicCapacity
      BY <1>1, <1>5, MicBounds
    <2> QED
      BY <2>1, MicSlots
  <1> PICK tail \in 0 .. MicCapacity - 1 : tail = (f + kept) % MicCapacity
    BY <1>19
  <1> DEFINE laid(i, t) == LET k == (i + MicCapacity - t) % MicCapacity IN
                              IF k < MicGrain THEN Mic!Pcm[k + 1] ELSE IF Mic!Clears THEN Mic!NoSample ELSE micQueue[i]
  <1>9. /\ micSilent' = micCapture.silent /\ micHead' = f /\ micCount' = kept + MicGrain
        /\ micQueue' = [i \in 0 .. MicCapacity - 1 |-> laid(i, tail)]
    <2>1. micCapture.result /\ Mic!Stores
      OBVIOUS
    <2>2. \E t : t = (Mic!First + Mic!Held - Mic!Discard) % MicCapacity
                  /\ micQueue' = [i \in 0 .. MicCapacity - 1 |-> laid(i, t)]
      BY <2>1, Zenon DEF Mic!Store
    <2>3. micSilent' = micCapture.silent /\ micHead' = f /\ micCount' = Mic!Held - d + MicGrain
      BY DEF Mic!Store
    <2> HIDE DEF laid
    <2>4. Mic!First + Mic!Held - Mic!Discard = f + kept
      BY <1>8
    <2>5. micQueue' = [i \in 0 .. MicCapacity - 1 |-> laid(i, tail)]
      BY <2>2, <2>4, Zenon
    <2> QED
      BY <2>3, <2>5
  <1>18. ASSUME NEW i, NEW t, NEW z, z = (i + MicCapacity - t) % MicCapacity
         PROVE  laid(i, t) = IF z < MicGrain THEN Mic!Pcm[z + 1] ELSE IF Mic!Clears THEN Mic!NoSample ELSE micQueue[i]
    BY <1>18, Zenon
  <1> HIDE DEF laid
  <1>10. ASSUME NEW i \in 1 .. MicGrain
         PROVE  /\ Mic!Pcm[i] \in Mic!Samples /\ Mic!Pcm[i].n = micCapture.pcm[i].n
                /\ Mic!Pcm[i].session = micCapture.pcm[i].session /\ (micCapture.silent => ~Mic!Pcm[i].speech)
    <2>1. micCapture.pcm[i] \in Mic!Samples
      BY <1>1, <1>2
    <2>2. Mic!Pcm[i] = IF micCapture.silent THEN [micCapture.pcm[i] EXCEPT !.speech = FALSE] ELSE micCapture.pcm[i]
      BY <1>2 DEF Mic!Pcm, Mic!Muted
    <2> QED
      BY <1>2, <2>1, <2>2 DEF Mic!Samples
  <1>11. micQueue' \in [0 .. MicCapacity - 1 -> Mic!Samples]
    <2>1. Mic!NoSample \in Mic!Samples
      BY MicBounds DEF Mic!NoSample, Mic!Samples
    <2>2. ASSUME NEW i \in 0 .. MicCapacity - 1 PROVE micQueue'[i] \in Mic!Samples
      <3>1. (i + MicCapacity - tail) % MicCapacity \in Nat
        <4> DEFINE y == i + MicCapacity - tail
        <4>1. y \in 0 .. 2 * MicCapacity - 1
          BY MicBounds
        <4>2. y % MicCapacity \in 0 .. MicCapacity - 1
          <5> HIDE DEF y
          <5> QED
            BY <4>1, MicWraps
        <4> QED
          BY <4>2
      <3> PICK k \in Nat : k = (i + MicCapacity - tail) % MicCapacity
        BY <3>1
      <3>2. micQueue'[i] = IF k < MicGrain THEN Mic!Pcm[k + 1] ELSE IF Mic!Clears THEN Mic!NoSample ELSE micQueue[i]
        <4>1. micQueue'[i] = laid(i, tail)
          BY <1>9
        <4> QED
          BY <1>18, <4>1
      <3>3. CASE k < MicGrain
        <4>1. k + 1 \in 1 .. MicGrain
          BY <3>3, MicBounds
        <4> QED
          BY <1>10, <3>2, <3>3, <4>1
      <3>4. CASE ~(k < MicGrain)
        BY <1>1, <2>1, <3>2, <3>4
      <3> QED
        BY <3>3, <3>4
    <2> QED
      BY <1>9, <2>2
  <1>12. kept > 0 => ~Mic!Clears /\ kept + d = micCount
    BY <1>3, <1>5
  <1>13. ASSUME NEW k \in 0 .. kept + MicGrain - 1
         PROVE  IF k < kept THEN RingAt(k)' = RingAt(micCount - kept + k)
                ELSE /\ RingAt(k)'.n = micCapture.pcm[k - kept + 1].n
                     /\ RingAt(k)'.session = micCapture.pcm[k - kept + 1].session
                     /\ micCapture.silent => ~RingAt(k)'.speech
    <2>1. k \in Nat /\ k \in 0 .. MicCapacity - 1 /\ k \in 0 .. MicCapacity
      BY <1>5, MicBounds
    <2>2. (f + k) % MicCapacity \in 0 .. MicCapacity - 1
      BY <2>1, MicSlots
    <2> PICK a \in 0 .. MicCapacity - 1 : a = (f + k) % MicCapacity
      BY <2>2
    <2>3. (a + MicCapacity - tail) % MicCapacity = IF k < kept THEN k - kept + MicCapacity ELSE k - kept
      <3>1. kept \in 0 .. MicCapacity
        BY <1>1, <1>5, MicBounds
      <3> QED
        BY <2>1, <3>1, MicPlaces
    <2>4. RingAt(k)' = micQueue'[a]
      BY <1>9 DEF RingAt, Mic!At
    <2>9. (a + MicCapacity - tail) % MicCapacity \in Int
      <3>1. k - kept + MicCapacity \in Int /\ k - kept \in Int
        BY <1>5, <2>1, MicBounds
      <3> QED
        BY <2>3, <3>1
    <2> PICK z \in Int : z = (a + MicCapacity - tail) % MicCapacity
      BY <2>9
    <2>5. micQueue'[a] = IF z < MicGrain THEN Mic!Pcm[z + 1] ELSE IF Mic!Clears THEN Mic!NoSample ELSE micQueue[a]
      <3>1. micQueue'[a] = laid(a, tail)
        BY <1>9
      <3> QED
        BY <1>18, <3>1
    <2>6. z = IF k < kept THEN k - kept + MicCapacity ELSE k - kept
      BY <2>3
    <2>7. CASE k < kept
      <3>1. ~(z < MicGrain) /\ ~Mic!Clears /\ kept + d = micCount
        BY <1>5, <1>12, <2>1, <2>6, <2>7, MicBounds
      <3>2. RingAt(k)' = micQueue[a]
        BY <2>4, <2>5, <3>1
      <3>3. micCount - kept + k = d + k /\ d + k < MicCapacity
        BY <1>1, <1>5, <2>1, <2>7, <3>1, MicBounds
      <3>4. a = (micHead + (d + k)) % MicCapacity
        <4>1. d \in 0 .. MicCapacity /\ f = (micHead + d) % MicCapacity
          BY <1>5, <1>6, <3>1
        <4>2. (((micHead + d) % MicCapacity) + k) % MicCapacity = (micHead + (d + k)) % MicCapacity
          BY <1>1, <2>1, <3>3, <4>1, MicShifts
        <4> QED
          BY <4>1, <4>2
      <3> QED
        BY <2>7, <3>2, <3>3, <3>4 DEF RingAt, Mic!At
    <2>8. CASE ~(k < kept)
      <3>1. z = k - kept /\ z < MicGrain /\ z + 1 \in 1 .. MicGrain
        BY <1>5, <2>1, <2>6, <2>8, MicBounds
      <3>2. RingAt(k)' = Mic!Pcm[z + 1] /\ z + 1 = k - kept + 1
        BY <2>4, <2>5, <3>1
      <3> QED
        BY <1>10, <2>8, <3>1, <3>2
    <2> QED
      BY <2>7, <2>8
  <1>14. kept > 0 /\ micSilent' => micSilent
    BY <1>1, <1>2, <1>9, <1>12 DEF Mic!Clears
  <1>15. micHead' \in 0 .. MicCapacity - 1 /\ micCount' \in 0 .. MicCapacity
    BY <1>5, <1>9
  <1>16. \A k \in 0 .. micCount' - 1 :
            IF k < kept THEN RingAt(k)' = RingAt(micCount - kept + k)
            ELSE /\ RingAt(k)'.n = micCapture.pcm[k - kept + 1].n
                 /\ RingAt(k)'.session = micCapture.pcm[k - kept + 1].session
                 /\ micSilent' => ~RingAt(k)'.speech
    <2>1. micCount' = kept + MicGrain /\ micSilent' = micCapture.silent
      BY <1>9
    <2>2. TAKE k \in 0 .. micCount' - 1
    <2>3. k \in 0 .. kept + MicGrain - 1
      BY <1>5, <2>1, MicBounds
    <2>4. CASE k < kept
      BY <1>13, <2>3, <2>4
    <2>5. CASE ~(k < kept)
      BY <1>13, <2>1, <2>3, <2>5
    <2> QED
      BY <2>4, <2>5
  <1>17. micSilent' = micCapture.silent /\ micCount' = kept + MicGrain
    BY <1>9
  <1> QED
    BY <1>11, <1>14, <1>15, <1>16, <1>17

LEMMA StoreKeeps == ASSUME MicInv, Mic!Store PROVE MicInv'
  <1>1. /\ micCapture.pc = "store" /\ micInInput' = FALSE /\ micAsleep' = {}
        /\ micCapture' = [pc |-> "begin", pcm |-> <<>>, silent |-> FALSE, result |-> TRUE]
        /\ micFailed' = (micFailed \/ ~micCapture.result)
        /\ UNCHANGED <<micActive, micShutdown, micCall, micNonblock, micMuted, micGiven, micSession>>
    BY DEF Mic!Store, Mic!Broadcast
  <1>2. micCapture' \in MicCaptureType /\ micCapture'.pc = "begin" /\ micCapture'.result = TRUE
    BY <1>1, NothingCopied DEF MicCaptureType
  <1>3. ~Grained' /\ Newest' = micGiven
    BY <1>1, <1>2 DEF Grained, Newest
  <1>4. micFailed' \in BOOLEAN /\ micGiven \in Nat /\ micGiven \in 0 .. MicMaxSamples
    BY <1>1, MicBounds DEF MicInv, MicTypes
  <1>5. Flies'
    BY <1>1, <1>2, <1>3 DEF MicInv, Flies
  <1>6. CASE ~(micCapture.result /\ Mic!Stores)
    <2>1. UNCHANGED <<micQueue, micHead, micCount, micSilent>>
      BY <1>6 DEF Mic!Store, Mic!ring
    <2>2. MicTypes'
      BY <1>1, <1>2, <1>4, <2>1 DEF MicInv, MicTypes, Mic!Samples
    <2>3. CASE ~micCapture.result
      <3>1. Newest' = Newest
        BY <1>1, <1>3, <2>3 DEF Newest, Grained
      <3>2. Rings'
        BY <1>1, <2>1, <3>1, RingsKept DEF MicInv, Rings
      <3>3. Copies'
        BY <1>1, <2>1, <3>1, CopiesKept
      <3> QED
        BY <1>5, <2>2, <3>2, <3>3 DEF MicInv
    <2>4. CASE micCapture.result
      <3>1. ~micActive \/ micShutdown
        BY <1>6, <2>4 DEF Mic!Stores
      <3>2. micInInput
        BY <1>1 DEF MicInv, Flies
      <3>3. micCall.op # "read"
        BY <3>1, <3>2 DEF MicInv, Flies
      <3>4. micCall'.out = <<>>
        BY <1>1, <3>3 DEF MicInv, Copies
      <3>5. CASE micShutdown
        <4>1. Rings'
          BY <1>1, <2>1, <3>5 DEF MicInv, Rings, RingAt, Mic!At
        <4> QED
          BY <1>5, <2>2, <3>4, <4>1, NoCopy DEF MicInv
      <3>6. CASE ~micShutdown
        <4>1. micCount' = 0
          BY <2>1, <3>1, <3>6 DEF MicInv, Rings
        <4> QED
          BY <1>5, <2>2, <3>4, <4>1, NoCopy, RingsEmptied DEF MicInv
      <3> QED
        BY <3>5, <3>6
    <2> QED
      BY <2>3, <2>4
  <1>7. CASE micCapture.result /\ Mic!Stores
    <2>0. PICK kept \in 0 .. micCount :
           /\ micHead' \in 0 .. MicCapacity - 1 /\ micCount' = kept + MicGrain /\ micCount' \in 0 .. MicCapacity
           /\ micQueue' \in [0 .. MicCapacity - 1 -> Mic!Samples] /\ micSilent' = micCapture.silent
           /\ kept > 0 /\ micSilent' => micSilent
           /\ \A k \in 0 .. micCount' - 1 :
                  IF k < kept THEN RingAt(k)' = RingAt(micCount - kept + k)
                  ELSE /\ RingAt(k)'.n = micCapture.pcm[k - kept + 1].n
                       /\ RingAt(k)'.session = micCapture.pcm[k - kept + 1].session
                       /\ micSilent' => ~RingAt(k)'.speech
      BY <1>7, GrainStored
    <2>1. micActive /\ ~micShutdown /\ micCount \in Nat /\ kept \in Nat /\ kept <= micCount
      BY <1>7, <2>0, MicBounds DEF Mic!Stores, MicInv, MicTypes
    <2>2. micSilent' \in BOOLEAN
      BY <2>0 DEF MicInv, MicTypes, MicCaptureType
    <2>3. MicTypes'
      BY <1>1, <1>2, <1>4, <2>0, <2>2 DEF MicInv, MicTypes, Mic!Samples
    <2>4. /\ Newest = micGiven - MicGrain /\ MicGrain <= micGiven
          /\ \A i \in 1 .. MicGrain : /\ micCapture.pcm[i].n = micGiven - MicGrain + i
                                      /\ micCapture.pcm[i].session = micSession
      BY <1>1, <1>7 DEF MicInv, Flies, Grained, Newest
    <2>5. \A m \in 0 .. micCount - 1 : /\ RingAt(m).n \in Nat /\ RingAt(0).n \in Nat /\ RingAt(m).n = RingAt(0).n + m
                                        /\ RingAt(m).session = micSession /\ (micSilent => ~RingAt(m).speech)
      BY RingHas
    <2>6. micCount > 0 => RingAt(0).n \in Nat /\ RingAt(0).n + micCount = micGiven - MicGrain + 1
      <3>1. micCount > 0 => 0 \in 0 .. micCount - 1
        BY <2>1
      <3> QED
        BY <2>1, <2>4, <2>5, <3>1 DEF MicInv, Rings
    <2> DEFINE base == micGiven - MicGrain + 1 - kept
    <2>7. ASSUME NEW k \in 0 .. micCount' - 1
          PROVE  /\ RingAt(k)'.n = base + k /\ RingAt(k)'.session = micSession /\ (micSilent' => ~RingAt(k)'.speech)
      <3>1. k \in Nat /\ k < kept + MicGrain
        BY <2>0, <2>1, MicBounds
      <3>2. CASE k < kept
        <4>1. micCount - kept + k \in 0 .. micCount - 1 /\ kept > 0 /\ micCount > 0
          BY <2>1, <3>1, <3>2
        <4> PICK m \in 0 .. micCount - 1 : m = micCount - kept + k
          BY <4>1
        <4>2. RingAt(k)' = RingAt(m)
          BY <2>0, <3>2
        <4>3. RingAt(m).n = RingAt(0).n + m /\ RingAt(0).n \in Nat
          BY <2>5
        <4>4. RingAt(m).n = base + k
          <5>1. RingAt(0).n + micCount = micGiven - MicGrain + 1
            BY <2>6, <4>1
          <5> PICK first \in Nat : first = RingAt(0).n
            BY <4>3
          <5>2. first + micCount = micGiven - MicGrain + 1 /\ RingAt(m).n = first + m
            BY <4>3, <5>1
          <5> QED
            BY <1>4, <2>1, <3>1, <5>2, MicBounds
        <4>5. RingAt(m).session = micSession /\ (micSilent => ~RingAt(m).speech)
          BY <2>5
        <4> QED
          BY <2>0, <4>1, <4>2, <4>4, <4>5
      <3>3. CASE ~(k < kept)
        <4>1. k - kept + 1 \in 1 .. MicGrain
          BY <2>1, <3>1, <3>3, MicBounds
        <4> PICK i \in 1 .. MicGrain : i = k - kept + 1
          BY <4>1
        <4>2. /\ RingAt(k)'.n = micCapture.pcm[i].n /\ RingAt(k)'.session = micCapture.pcm[i].session
              /\ micSilent' => ~RingAt(k)'.speech
          BY <2>0, <3>3
        <4>3. micGiven - MicGrain + i = base + k
          BY <1>4, <2>1, <3>1, MicBounds
        <4> QED
          BY <2>4, <4>2, <4>3
      <3> QED
        BY <3>2, <3>3
    <2>8. base \in Int /\ 0 \in 0 .. micCount' - 1 /\ micCount' = kept + MicGrain
      BY <1>4, <2>0, <2>1, MicBounds
    <2>9. RingAt(0)'.n = base
      <3>1. RingAt(0)'.n = base + 0
        BY <2>7, <2>8
      <3> QED
        BY <2>8, <3>1
    <2>10. base + (kept + MicGrain) = micGiven + 1
      BY <1>4, <2>1, MicBounds
    <2>11. base <= micGiven - MicGrain + 1 /\ (micCount > 0 => RingAt(0).n <= base)
      BY <1>4, <2>1, <2>6, MicBounds
    <2>12. kept > 0 => micCount > 0
      BY <2>1
    <2>13. kept = 0 => base = micGiven - MicGrain + 1
      BY <1>4, MicBounds
    <2> HIDE DEF base
    <2>14. Rings'
      BY <1>1, <1>3, <2>1, <2>7, <2>8, <2>9, <2>10 DEF Rings
    <2>15. Copies'
      <3>1. ASSUME NEW i \in 1 .. Len(micCall.out) PROVE micCall.out[i].n <= micGiven /\ micCall.out[i].n < base
        <4>1. micCall.out[i].n \in Nat
          <5>1. micCall.out \in Seq(Mic!Samples)
            BY DEF MicInv, MicTypes, MicCallType
          <5>2. micCall.out[i] \in Mic!Samples
            BY <5>1
          <5> QED
            BY <5>2, MicBounds DEF Mic!Samples
        <4>2. /\ micCall.out[i].n <= micGiven - MicGrain
              /\ micCount > 0 => micCall.out[i].n < RingAt(0).n
          BY <2>4 DEF MicInv, Copies
        <4>3. CASE kept > 0
          <5>1. micCount > 0
            BY <2>12, <4>3
          <5> PICK first \in Nat : first = RingAt(0).n
            BY <2>6, <5>1
          <5>2. first <= base /\ micCall.out[i].n < first
            BY <2>11, <4>2, <5>1
          <5> QED
            BY <1>4, <2>8, <4>1, <4>2, <5>2, MicBounds
        <4>4. CASE ~(kept > 0)
          <5>1. base = micGiven - MicGrain + 1
            BY <2>1, <2>13, <4>4
          <5> QED
            BY <1>4, <4>1, <4>2, <5>1, MicBounds
        <4> QED
          BY <4>3, <4>4
      <3> QED
        BY <1>1, <1>3, <2>9, <3>1 DEF MicInv, Copies
    <2> QED
      BY <1>5, <2>3, <2>14, <2>15 DEF MicInv
  <1> QED
    BY <1>6, <1>7

LEMMA MicStep == ASSUME MicInv, Mic!Next PROVE MicInv'
  BY BeginKeeps, GrainKeeps, StateKeeps, StoreKeeps, WaitKeeps, ReadKeeps, JoinKeeps, StartKeeps, StopKeeps,
     CloseMicKeeps, SwitchKeeps, AskKeeps
  DEF Mic!Next, Mic!CaptureStep, Mic!CallStep

LEMMA MicSays == MicInv => MicrophoneKeepsOrder
  <1> SUFFICES ASSUME MicInv PROVE MicrophoneKeepsOrder
    OBVIOUS
  <1>1. Mic!TypeOK
    <2>1. micCapture.pc \in {"begin", "input", "state", "store", "ended"}
      BY DEF MicInv, MicTypes, MicCaptureType
    <2>2. micCall.op \in {"none", "stop", "read", "close", "closed"}
      BY DEF MicInv, MicTypes, MicCallType
    <2> QED
      BY <2>1, <2>2 DEF Mic!TypeOK, MicInv, MicTypes
  <1>2. \A k \in 0 .. micCount - 1 : /\ RingAt(k).n \in Nat /\ RingAt(0).n \in Nat /\ RingAt(k).n = RingAt(0).n + k
                                     /\ RingAt(k).session = micSession /\ (micSilent => ~RingAt(k).speech)
    BY RingHas
  <1>3. micCount \in Nat /\ micCount \in 0 .. micCount
    BY MicBounds DEF MicInv, MicTypes
  <1>4. Mic!InOrder
    <2>1. ASSUME NEW i \in 2 .. micCount PROVE micQueue[Mic!At(i - 1)].n = micQueue[Mic!At(i - 2)].n + 1
      <3>1. i - 1 \in 0 .. micCount - 1 /\ i - 2 \in 0 .. micCount - 1 /\ i \in Nat
        BY <1>3
      <3>2. RingAt(i - 1).n = RingAt(0).n + (i - 1) /\ RingAt(i - 2).n = RingAt(0).n + (i - 2) /\ RingAt(0).n \in Nat
        BY <1>2, <3>1
      <3>3. RingAt(i - 1).n = RingAt(i - 2).n + 1
        BY <3>1, <3>2
      <3> QED
        BY <3>3 DEF RingAt
    <2> DEFINE s == micCall.out \o [i \in 1 .. micCount |-> micQueue[Mic!At(i - 1)]]
    <2>2. s \in Seq(Mic!Samples) /\ \A i, j \in 1 .. Len(s) : i < j => s[i].n < s[j].n
      BY <1>3, CopyOrders
    <2>3. DOMAIN s = 1 .. Len(s)
      <3> HIDE DEF s
      <3> QED
        BY <2>2
    <2>4. \A i, j \in DOMAIN s : i < j => s[i].n < s[j].n
      <3> HIDE DEF s
      <3> QED
        BY <2>2, <2>3
    <2> QED
      BY <2>1, <2>4 DEF Mic!InOrder
  <1>5. Mic!MutedIsSilent /\ Mic!StopForgets
    BY <1>2 DEF Mic!MutedIsSilent, Mic!StopForgets, Mic!Queued, RingAt
  <1> QED
    BY <1>1, <1>4, <1>5 DEF MicrophoneKeepsOrder

LEMMA MicSafe == MCSpec => [](part = "microphone" => MicInv)
  <1>1. MCInit => (part = "microphone" => MicInv)
    BY MicInitHolds DEF MCInit
  <1>2. (part = "microphone" => MicInv) /\ [MCNext]_MCVars => (part = "microphone" => MicInv)'
    <2>1. ASSUME UNCHANGED MicVars, MicInv PROVE MicInv'
      <3>1. UNCHANGED <<micActive, micShutdown, micFailed, micInInput, micQueue, micHead, micCount, micSilent,
                        micCapture, micCall, micAsleep, micNonblock, micMuted, micGiven, micSession>>
        BY <2>1 DEF MicVars
      <3>2. (Grained' <=> Grained) /\ Newest' = Newest
        BY <3>1 DEF Grained, Newest
      <3>3. MicTypes'
        BY <2>1, <3>1 DEF MicInv, MicTypes, Mic!Samples
      <3>4. Flies'
        BY <2>1, <3>1, <3>2 DEF MicInv, Flies
      <3>5. Rings'
        BY <2>1, <3>1, <3>2, RingsKept DEF MicInv, Rings
      <3>6. Copies'
        BY <2>1, <3>1, <3>2, CopiesKept
      <3> QED
        BY <3>3, <3>4, <3>5, <3>6 DEF MicInv
    <2>2. UNCHANGED MCVars => UNCHANGED MicVars /\ part' = part
      BY DEF MCVars
    <2>3. ASSUME MCNext, MicInv, part = "microphone" PROVE MicInv'
      BY <2>3, MicStep DEF MCNext
    <2>4. MCNext => part' = part
      BY DEF MCNext
    <2> QED
      BY <2>1, <2>2, <2>3, <2>4
  <1> QED
    BY <1>1, <1>2, PTL DEF MCSpec

\* A read of the microphone gets the samples captured since the last start, in order and once,
\* none of the speech before a mute it has met; a read of the share gets a local file's bytes
\* through every loss of the connection, and a staged copy is whole or not there (capture, read,
\* set_active; ps5_smb_read, mend, ps5_smb_stage).
THEOREM ReadsInOrder == MCSpec => []ReadsKeepOrder
  <1>1. (part = "microphone" => MicInv) /\ (part = "share" => ShareInv) => ReadsKeepOrder
    BY MicSays, ShareSays DEF ReadsKeepOrder
  <1> QED
    BY <1>1, MicSafe, ShareSafe, PTL
=============================================================================

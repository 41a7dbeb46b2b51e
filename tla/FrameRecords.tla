---------------------------- MODULE FrameRecords ----------------------------
(* src/tooling/framegen/vulkan_framegen.cpp, what it keeps of what it makes, for  *)
(* tests: the dump of the new frames and of the pictures made of each, and the    *)
(* recorder of the pictures as they are presented.  Both copy into a buffer in    *)
(* the command buffer of a present, which the device has run only once a later    *)
(* present is recorded: reading it sooner reads what was there before.  The       *)
(* frames are of one size: the dump's buffers are not made anew for another.      *)
EXTENDS Integers, Sequences

CONSTANTS
    Limit, Skip, Stride,  \* PS5_FRAMEGEN_DUMP_COUNT, _SKIP and _STRIDE
    CurOnly,      \* PS5_FRAMEGEN_DUMP_CURONLY
    EnvAt, EnvCount,  \* PS5_FRAMEGEN_RECORD_AT (0: not asked for) and _COUNT
    Requests,     \* how many pictures the pad's script may ask for
    MaxPictures,  \* 2000: the most a recording holds
    MaxPresents,  \* bound: presents
    MaxRequests,  \* bound: requests
    MaxFails,     \* bound: times there is no memory
    MaxCloses     \* bound: times the video is made anew

FrameRecordsAssumption ==
    /\ {Limit, EnvCount, MaxPictures} \subseteq Nat \ {0} /\ Requests \subseteq Nat \ {0} /\ CurOnly \in BOOLEAN
    /\ {Skip, Stride, EnvAt, MaxPresents, MaxRequests, MaxFails, MaxCloses} \subseteq Nat

VARIABLES
    place,     \* r.serial: the present being recorded
    stage,     \* what it has done: "begun", "held" (vk_framegen_hold), "made" (vk_framegen_generate)
    made,      \* fg->presents: the generations, counted when each ends
    buffers,   \* the dump's two buffers: "no", "half" (one of them) or "yes"
    count, index, skipped, window, sinceEnd,  \* Dump::count, gen_in_frame, skipped, window, since_end
    pending,   \* the copies that wait to be written: pending_gen and pending_cur
    copied,    \* ghost: what each buffer was last told to hold, and in which present
    request,   \* g_record_request
    active, capacity, meta,  \* the recorder's
    pic,       \* pic_generated
    envDone,   \* env_done
    files,     \* ghost: the files of the last step
    spent      \* how much of MaxRequests, MaxFails and MaxCloses is spent

dump     == <<buffers, count, index, skipped, window, sinceEnd, pending, copied>>
recorder == <<active, capacity, meta, envDone>>
vars     == <<place, stage, made, dump, request, recorder, pic, files, spent>>

Gen == "gen"
Cur == "cur"
Kinds   == {Gen, Cur}
NoCopy  == [window |-> 0, frame |-> 0, index |-> 0, since |-> 0, at |-> 0]
Waits(k) == pending[k].at > 0

Copies == [window : Nat, frame : Nat, index : Nat, since : Nat, at : Nat]
TypeOK ==
    /\ {place, made, count, index, skipped, window, sinceEnd, request, capacity} \subseteq Nat
    /\ stage \in {"begun", "held", "made"} /\ buffers \in {"no", "half", "yes"}
    /\ pending \in [Kinds -> Copies] /\ copied \in [Kinds -> Copies] /\ count <= Limit
    /\ {active, pic, envDone} \subseteq BOOLEAN /\ meta \in Seq([place : Nat, made : BOOLEAN])

\* A new generator (vk_framegen_new): the counts of the one before are forgotten.
Afresh ==
    /\ place' = 1 /\ stage' = "begun" /\ made' = 0
    /\ buffers' = "no" /\ count' = 0 /\ index' = 0 /\ skipped' = 0 /\ window' = 0 /\ sinceEnd' = 0
    /\ pending' = [k \in Kinds |-> NoCopy] /\ copied' = [k \in Kinds |-> NoCopy]
    /\ active' = FALSE /\ capacity' = 0 /\ meta' = <<>> /\ pic' = FALSE /\ envDone' = FALSE /\ files' = {}

Init ==
    /\ place = 1 /\ stage = "begun" /\ made = 0
    /\ buffers = "no" /\ count = 0 /\ index = 0 /\ skipped = 0 /\ window = 0 /\ sinceEnd = 0
    /\ pending = [k \in Kinds |-> NoCopy] /\ copied = [k \in Kinds |-> NoCopy]
    /\ request = 0 /\ active = FALSE /\ capacity = 0 /\ meta = <<>> /\ pic = FALSE /\ envDone = FALSE
    /\ files = {} /\ spent = [requests |-> 0, fails |-> 0, closes |-> 0]

-----------------------------------------------------------------------------
(* The dump *)

\* dump_buffers: made when first needed; of one that fails the first buffer may stay, for good.
Prepared == buffers' = IF buffers = "no" THEN "yes" ELSE buffers
NoRoom   == buffers = "no" /\ buffers' \in {"no", "half"} /\ spent.fails < MaxFails /\ spent' = [spent EXCEPT !.fails = @ + 1]
Buffers  == (Prepared /\ UNCHANGED spent) \/ NoRoom

\* A copy is read once a generation has ended since: its own command buffer was submitted then.
ReadySoon(k) == Waits(k)  \* mutant
Ready(k) == Waits(k) /\ pending[k].since < made

\* dump_flush: what the copies hold, once the device is idle, into the files of their numbers.
Holds(k)   == IF copied[k].at < place THEN copied[k] ELSE NoCopy
File(k, c) == [kind |-> k, window |-> window, frame |-> c.frame, index |-> c.index]
Flushed    == {[of |-> File(k, pending[k]), holds |-> Holds(k)] : k \in {j \in Kinds : Ready(j)}}
Left       == [k \in Kinds |-> IF Ready(k) THEN NoCopy ELSE pending[k]]

\* The copy of a frame, or of a picture made of it, told to its buffer.
Copy(frame, i) == [window |-> window, frame |-> frame, index |-> i, since |-> made, at |-> place]
Copied(k, c)   == copied' = [copied EXCEPT ![k] = c] /\ pending' = [Left EXCEPT ![k] = c] /\ files' = Flushed

\* A window that is full: its last copies are written, and Stride frames on the next one begins.
EndOfWindow ==
    /\ count >= Limit /\ UNCHANGED <<buffers, index, skipped, copied, spent>>
    /\ IF Stride > 0
         THEN /\ files' = Flushed /\ pending' = Left
              /\ IF sinceEnd + 1 >= Stride
                   THEN window' = window + 1 /\ count' = 0 /\ sinceEnd' = 0
                   ELSE sinceEnd' = sinceEnd + 1 /\ UNCHANGED <<window, count>>
         ELSE files' = {} /\ UNCHANGED <<pending, window, count, sinceEnd>>

\* vk_framegen_hold, with dump_hold: the frame's copy.
HoldDumps ==
    /\ UNCHANGED <<window, sinceEnd>>
    /\ IF skipped < Skip
         THEN skipped' = skipped + 1 /\ files' = {} /\ UNCHANGED <<buffers, count, index, pending, copied, spent>>
         ELSE /\ Buffers /\ UNCHANGED skipped
              /\ IF buffers' = "yes"
                   THEN Copied(Cur, Copy(count, 0)) /\ count' = count + 1 /\ index' = 0
                   ELSE files' = {} /\ UNCHANGED <<count, index, pending, copied>>
Hold ==
    /\ stage = "begun" /\ place <= MaxPresents /\ stage' = "held"
    /\ EndOfWindow \/ (count < Limit /\ HoldDumps)
    /\ UNCHANGED <<place, made, request, recorder, pic>>

\* vk_framegen_generate, with dump_record: a picture of the frame held last.
Generate ==
    /\ stage # "made" /\ place <= MaxPresents /\ stage' = "made"
    /\ made' = made + 1 /\ pic' = TRUE
    /\ IF CurOnly \/ count \notin 1 .. Limit - 1
         THEN files' = {} /\ UNCHANGED <<index, pending, copied>>
         ELSE Copied(Gen, Copy(count - 1, index)) /\ index' = index + 1
    /\ UNCHANGED <<place, buffers, count, skipped, window, sinceEnd, request, recorder, spent>>

-----------------------------------------------------------------------------
(* The recorder *)

\* The pad's script asks for a recording.
Ask ==
    /\ spent.requests < MaxRequests /\ spent' = [spent EXCEPT !.requests = @ + 1]
    /\ \E n \in Requests : request' = n
    /\ files' = {} /\ UNCHANGED <<place, stage, made, dump, recorder, pic>>

\* The recording that is full is written with the present after its last picture (record_write).
FullSoon == active /\ Len(meta) + 1 >= capacity  \* mutant
Full     == active /\ Len(meta) >= capacity
Recorded == IF Full THEN {[of |-> [kind |-> "rec", n |-> Len(meta)], holds |-> meta]} ELSE {}

\* What begins one when none runs: a request, or the picture the environment names.
EnvBegins == request = 0 /\ EnvAt > 0 /\ ~envDone /\ place >= EnvAt
Pictures  == IF request > 0 THEN request ELSE IF EnvBegins THEN EnvCount ELSE 0
Smaller(a, b) == IF a < b THEN a ELSE b

\* vk_framegen_record, the last of a present: the picture's copy, and what is noted of it.
Note == [place |-> place, made |-> pic]
Record ==
    /\ place <= MaxPresents /\ place' = place + 1 /\ stage' = "begun" /\ pic' = FALSE
    /\ files' = Recorded /\ UNCHANGED <<made, dump>>
    /\ \/ /\ active /\ ~Full /\ meta' = Append(meta, Note) /\ UNCHANGED <<request, active, capacity, envDone, spent>>
       \/ /\ (~active \/ Full) /\ request' = 0 /\ envDone' = (envDone \/ EnvBegins)
          /\ \/ /\ Pictures = 0 /\ active' = FALSE /\ meta' = <<>> /\ UNCHANGED <<capacity, spent>>
             \/ /\ Pictures > 0 /\ active' = TRUE /\ capacity' = Smaller(Pictures, MaxPictures)
                /\ meta' = <<Note>> /\ UNCHANGED spent
             \/ /\ Pictures > 0 /\ spent.fails < MaxFails /\ spent' = [spent EXCEPT !.fails = @ + 1]
                /\ active' = FALSE /\ capacity' = Smaller(Pictures, MaxPictures) /\ meta' = <<>>

\* vk_framegen_free, as the video is made anew: what waits is not written.
Close ==
    /\ stage = "begun" /\ spent.closes < MaxCloses /\ spent' = [spent EXCEPT !.closes = @ + 1]
    /\ Afresh /\ UNCHANGED request

Next == Hold \/ Generate \/ Record \/ Ask \/ Close

Spec == Init /\ [][Next]_vars

-----------------------------------------------------------------------------
(* A file of the dump holds the frame or the picture of its number, whose copy the device has   *)
(* made: it is written once another present is recorded and before the next copy (dump_flush).  *)
DumpedAreTheirs ==
    \A f \in {g \in files : g.of.kind \in Kinds} :
        f.holds.at > 0 /\ f.of.frame = f.holds.frame /\ f.of.index = f.holds.index

(* Each picture a dumped frame is given is written, in turn: none is copied over before it is in  *)
(* its file, nor is a frame over which a picture was made (dump_record, dump_hold).                *)
PicturesAreKept ==
    \A k \in Kinds : Waits(k) /\ pending'[k] # pending[k] /\ place' >= place =>
        (k = Cur /\ pending[k].since = made) \/ \E f \in files' : f.of.kind = k /\ f.of.frame = pending[k].frame

(* A recording that is written is the pictures presented one after another from the present that  *)
(* began it, each with what was shown, and their last is presented already (vk_framegen_record).  *)
RecordingIsWhole ==
    \A f \in {g \in files' : g.of.kind = "rec"} :
        /\ f.of.n = capacity
        /\ \A i \in 1 .. f.of.n : f.holds[i].place = place - f.of.n + i - 1

\* What a step may write, and what it leaves.
RecordsAreTrue == TypeOK' /\ DumpedAreTheirs' /\ PicturesAreKept /\ RecordingIsWhole
==============================================================================

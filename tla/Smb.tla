-------------------------------- MODULE Smb ---------------------------------
(* src/src/ps5_smb_vfs.c over src/src/ps5_smb.c: one caller (a core, or the     *)
(* loader that stages a game) reads a file of the share while the server drops  *)
(* the connection, goes away and comes back.  Each turn of a loop is a step.    *)
EXTENDS Naturals, Integers, Sequences, FiniteSets

CONSTANTS
    Length,      \* bytes of the file
    Block,       \* bytes ps5_smb_stage asks for
    Asks,        \* bytes a core asks for
    MaxRead,     \* bytes the server gives in one answer
    MaxDrops,    \* bound: connections dropped
    MaxFaults,   \* bound: opens the server refuses, writes the console fails
    MaxCalls     \* bound: the caller's calls

SmbAssumption ==
    /\ {Length, Block, MaxRead} \subseteq Nat \ {0} /\ Asks \subseteq Nat \ {0}
    /\ {MaxDrops, MaxFaults, MaxCalls} \subseteq Nat

VARIABLES
    up,        \* the server answers
    context,   \* the file's context: "none" (NULL), "up", or "lost" (its connection is gone)
    contexts,  \* contexts in libsmb2's list
    handle,    \* the handle's offset, or NoHandle (NULL)
    position,  \* ps5_smb_file::position
    opened,    \* a file is open
    dir,       \* a folder is open
    call,      \* the read under way: who asked, for how much, what it has, whether it mended
    cursor,    \* where a local file of the same bytes would be: the reference
    answer,    \* what the last read returned
    stage,     \* ps5_smb_stage: where it is, what it has copied
    local,     \* the staged copy, or Absent
    calls, drops, faults  \* how much of each bound is spent

link == <<up, context, contexts, handle>>
copy == <<stage, local>>
used == <<calls, drops, faults>>
vars == <<link, position, opened, dir, call, cursor, answer, copy, used>>

File     == [i \in 1 .. Length |-> i]
NoHandle == -1
Absent   == <<-1>>
NoStage  == [pc |-> "none", to |-> TRUE, copied |-> 0, got |-> 0]  \* to: the local file is open
NoRead   == [who |-> "none", want |-> 0, out |-> <<>>, mended |-> FALSE]
Idle     == call = NoRead /\ stage.pc = "none"
Smaller(a, b) == IF a < b THEN a ELSE b

TypeOK ==
    /\ {up, opened, dir} \subseteq BOOLEAN /\ context \in {"none", "up", "lost"} /\ contexts \in Nat
    /\ handle \in {NoHandle} \cup Nat /\ position \in Nat /\ answer \in -1 .. Length
    /\ call.who \in {"none", "core", "stage"} /\ stage.pc \in {"none", "copy", "close", "whole", "failed"}

Init ==
    /\ up = TRUE /\ context = "none" /\ contexts = 0 /\ handle = NoHandle /\ position = 0
    /\ opened = FALSE /\ dir = FALSE /\ call = NoRead /\ cursor = 0 /\ answer = 0
    /\ stage = NoStage /\ local = Absent
    /\ calls = 0 /\ drops = 0 /\ faults = 0

Spends == calls < MaxCalls /\ calls' = calls + 1
Faulty(fails) == IF fails THEN faults < MaxFaults /\ faults' = faults + 1 ELSE UNCHANGED faults

-----------------------------------------------------------------------------
(* The server *)

\* The server restarts, or drops an idle connection: the client knows at its next call.
Drop ==
    /\ drops < MaxDrops /\ context = "up" /\ context' = "lost" /\ drops' = drops + 1
    /\ up' \in BOOLEAN
    /\ UNCHANGED <<contexts, handle, position, opened, dir, call, cursor, answer, copy, calls, faults>>

Return ==
    /\ ~up /\ up' = TRUE
    /\ UNCHANGED <<context, contexts, handle, position, opened, dir, call, cursor, answer, copy, used>>

-----------------------------------------------------------------------------
(* Opening and mending *)

FreedNot == contexts  \* mutant

\* ps5_smb_disconnect of the file's context
Freed == contexts - (IF context = "none" THEN 0 ELSE 1)

\* connect_to and smb2_open: no context when the server is away, no handle when it refuses.
Connects(free, refuses) ==
    /\ Faulty(up /\ refuses)
    /\ context' = (IF up THEN "up" ELSE "none") /\ contexts' = free + (IF up THEN 1 ELSE 0)

SoughtNot == 0  \* mutant

\* mend opens the file at the position the reader had reached.
Sought == position

Mends(refuses) == up /\ ~refuses
Mend(refuses)  == Connects(Freed, refuses) /\ handle' = IF Mends(refuses) THEN Sought ELSE NoHandle

\* open_file: a file that did not open leaves no context.
OpenFile(refuses) ==
    /\ ~opened /\ Faulty(up /\ refuses)
    /\ opened' = Mends(refuses)
    /\ context' = (IF Mends(refuses) THEN "up" ELSE "none")
    /\ contexts' = contexts + (IF Mends(refuses) THEN 1 ELSE 0)
    /\ handle' = IF Mends(refuses) THEN 0 ELSE NoHandle
    /\ position' = 0 /\ cursor' = 0

CloseFile ==
    /\ opened /\ opened' = FALSE /\ contexts' = Freed /\ context' = "none" /\ handle' = NoHandle
    /\ UNCHANGED <<up, position, cursor>>

Open(refuses) ==
    /\ Idle /\ Spends /\ OpenFile(refuses)
    /\ UNCHANGED <<up, dir, call, answer, copy, drops>>

Close ==
    /\ Idle /\ CloseFile
    /\ UNCHANGED <<dir, call, answer, copy, used>>

\* ps5_smb_opendir: libsmb2 has the whole listing from here on.
OpenDir ==
    /\ Idle /\ ~dir /\ up /\ Spends /\ dir' = TRUE /\ contexts' = contexts + 1
    /\ UNCHANGED <<up, context, handle, position, opened, call, cursor, answer, copy, drops, faults>>

CloseDir ==
    /\ dir /\ dir' = FALSE /\ contexts' = contexts - 1
    /\ UNCHANGED <<up, context, handle, position, opened, call, cursor, answer, copy, used>>

-----------------------------------------------------------------------------
(* ps5_smb_read and ps5_smb_seek *)

Begin(who, n) == call' = [NoRead EXCEPT !.who = who, !.want = n]

Read(n) ==
    /\ Idle /\ opened /\ Spends /\ Begin("core", n)
    /\ UNCHANGED <<link, position, opened, dir, cursor, answer, copy, drops, faults>>

Done     == Len(call.out)
Dead     == handle = NoHandle \/ context # "up"
Left     == IF handle < Length THEN Length - handle ELSE 0
Returned == IF Done > 0 THEN Done ELSE -1

\* The call ends: what it read has moved a local file's offset as far.
Returns(n, out) ==
    /\ answer' = n /\ call' = NoRead /\ cursor' = cursor + Len(out)
    /\ IF call.who = "stage" THEN stage' = [stage EXCEPT !.got = n, !.pc = IF n > 0 THEN "copy" ELSE "close"]
                             ELSE UNCHANGED stage

\* What ps5_smb_stage writes of a block, before it looks at what comes next.
Written(out) == IF call.who = "stage" THEN local' = local \o out ELSE UNCHANGED local

\* smb2_read gives some of what is wanted.
ReadSome(n) ==
    /\ call # NoRead /\ ~Dead /\ n \in 1 .. Smaller(Smaller(call.want - Done, MaxRead), Left)
    /\ LET out == call.out \o SubSeq(File, handle + 1, handle + n) IN
         /\ handle' = handle + n /\ position' = position + n
         /\ IF Len(out) = call.want THEN Returns(Len(out), out)
                                    ELSE call' = [call EXCEPT !.out = out] /\ UNCHANGED <<cursor, answer, stage>>
         /\ IF Len(out) = call.want THEN Written(out) ELSE UNCHANGED local
    /\ UNCHANGED <<up, context, contexts, opened, dir, used>>

\* The end of the file
ReadEnd ==
    /\ call # NoRead /\ ~Dead /\ Left = 0
    /\ Returns(Done, call.out) /\ Written(call.out)
    /\ UNCHANGED <<link, position, opened, dir, used>>

AfterMendAgain(refuses) == [mended |-> FALSE, goesOn |-> TRUE]  \* mutant

\* The connection went: mend it once, and read on if that worked.
AfterMend(refuses) == [mended |-> TRUE, goesOn |-> Mends(refuses)]

ReadMend(refuses) ==
    /\ call # NoRead /\ Dead /\ ~call.mended /\ Mend(refuses)
    /\ IF AfterMend(refuses).goesOn
         THEN call' = [call EXCEPT !.mended = AfterMend(refuses).mended] /\ UNCHANGED <<cursor, answer, copy>>
         ELSE Returns(Returned, call.out) /\ Written(call.out)
    /\ UNCHANGED <<up, position, opened, dir, calls, drops>>

ReadFails ==
    /\ call # NoRead /\ Dead /\ call.mended
    /\ Returns(Returned, call.out) /\ Written(call.out)
    /\ UNCHANGED <<link, position, opened, dir, used>>

\* Where smb2_lseek counts from, with the handle at offset at.
From(whence, at) == CASE whence = "set" -> 0 [] whence = "cur" -> at [] whence = "end" -> Length

\* smb2_lseek moves the handle's offset without asking the server.
Sets(at, offset, whence) ==
    IF From(whence, at) + offset < 0
      THEN handle' = at /\ UNCHANGED <<position, cursor>>
      ELSE /\ handle' = From(whence, at) + offset /\ position' = From(whence, at) + offset
           /\ cursor' = From(whence, cursor) + offset

Seek(offset, whence) ==
    /\ Idle /\ opened /\ handle # NoHandle /\ Spends /\ Sets(handle, offset, whence)
    /\ UNCHANGED <<up, context, contexts, opened, dir, call, answer, copy, drops, faults>>

\* With no handle the seek mends first, and seeks from the position mended to.
SeekMend(refuses, offset, whence) ==
    /\ Idle /\ opened /\ handle = NoHandle /\ Spends
    /\ Connects(Freed, refuses)
    /\ IF Mends(refuses) THEN Sets(Sought, offset, whence)
                         ELSE handle' = NoHandle /\ UNCHANGED <<position, cursor>>
    /\ UNCHANGED <<up, opened, dir, call, answer, copy, drops>>

-----------------------------------------------------------------------------
(* ps5_smb_stage *)

\* The share's file opens first; an older copy of that name is then cut.
Stage(refuses, creates) ==
    /\ Idle /\ Spends /\ OpenFile(refuses)
    /\ IF ~Mends(refuses) THEN UNCHANGED copy
       ELSE IF creates THEN stage' = [NoStage EXCEPT !.pc = "copy"] /\ local' = <<>>
       ELSE stage' = [NoStage EXCEPT !.pc = "close", !.to = FALSE] /\ UNCHANGED local
    /\ UNCHANGED <<up, dir, call, answer, drops>>

\* The last block was written whole: ask for the next.
NextBlock ==
    /\ stage.pc = "copy" /\ call = NoRead
    /\ stage' = [stage EXCEPT !.copied = @ + stage.got] /\ Begin("stage", Block)
    /\ UNCHANGED <<link, position, opened, dir, cursor, answer, local, used>>

\* A write of the last block failed: some of it is in the file.
WriteFails ==
    /\ stage.pc = "copy" /\ call = NoRead /\ stage.got > 0 /\ Faulty(TRUE)
    /\ \E n \in 0 .. stage.got - 1 : local' = SubSeq(local, 1, Len(local) - stage.got + n)
    /\ stage' = [stage EXCEPT !.pc = "close"]
    /\ UNCHANGED <<link, position, opened, dir, call, cursor, answer, calls, drops>>

\* got is zero only at the end of the file.
Whole == stage.copied = Length /\ stage.got = 0

KeptBroken(closed) == stage.to /\ closed /\ stage.got <= 0  \* mutant

Kept(closed) == stage.to /\ closed /\ Whole

EndStage(closed) ==
    /\ stage.pc = "close" /\ CloseFile /\ Faulty(~closed)
    /\ stage' = [stage EXCEPT !.pc = IF Kept(closed) THEN "whole" ELSE "failed"]
    /\ local' = IF Kept(closed) \/ ~stage.to THEN local ELSE Absent
    /\ UNCHANGED <<dir, call, answer, calls, drops>>

\* The caller has its answer.
Answered ==
    /\ stage.pc \in {"whole", "failed"} /\ stage' = NoStage
    /\ UNCHANGED <<link, position, opened, dir, call, cursor, answer, local, used>>

-----------------------------------------------------------------------------
ReadStep == (\E n \in 1 .. MaxRead : ReadSome(n)) \/ ReadEnd \/ ReadFails
                \/ \E refuses \in BOOLEAN : ReadMend(refuses)
StageStep == NextBlock \/ WriteFails \/ Answered \/ \E closed \in BOOLEAN : EndStage(closed)

Next ==
    \/ Drop \/ Return \/ ReadStep \/ StageStep
    \/ \E n \in Asks : Read(n)
    \/ Close \/ OpenDir \/ CloseDir
    \/ \E offset \in -1 .. 1, whence \in {"set", "cur", "end"} :
          Seek(offset, whence) \/ \E refuses \in BOOLEAN : SeekMend(refuses, offset, whence)
    \/ \E refuses \in BOOLEAN : Open(refuses) \/ \E creates \in BOOLEAN : Stage(refuses, creates)

\* The caller's thread runs its call to the end.
Fairness == WF_vars(ReadStep) /\ WF_vars(StageStep)

Spec == Init /\ [][Next]_vars /\ Fairness

-----------------------------------------------------------------------------
(* The properties *)

\* Wherever the connection broke and whatever was mended, a reader gets the bytes a
\* local file would have given it at the same offset (ps5_smb_read, mend: "open the
\* file at the position the reader had reached").
ReadsAsLocal ==
    /\ call.out = SubSeq(File, cursor + 1, cursor + Len(call.out))
    /\ opened => position = cursor + Len(call.out)

\* A staged copy the loader may give a core is the whole file, and nothing of a copy
\* that failed stays where a game could be loaded from it (ps5_smb_stage).
StagedIsWhole ==
    /\ stage.pc = "whole" => local = File
    /\ Idle => local \in {File, Absent}

\* No context of libsmb2 outlives the file or folder it was made for, whatever failed
\* on the way (open_file, mend, ps5_smb_close).
NothingLeaks == contexts = (IF context = "none" THEN 0 ELSE 1) + (IF dir THEN 1 ELSE 0)

\* A read, and a staged copy, end however often the server goes.
SmbCallsReturn == []((call # NoRead \/ stage.pc # "none") => <>Idle)

\* ps5_smb_vfs.c:158: "a caller asking for more must not take a short read for the end
\* of the file".
ShortIsTheEnd == [][call.who = "core" /\ call' = NoRead /\ answer' \in 0 .. call.want - 1
                        => position' >= Length]_vars
=============================================================================

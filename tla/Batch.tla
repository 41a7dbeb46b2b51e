--------------------------------- MODULE Batch ---------------------------------
(***************************************************************************)
(* The uploads of one request (src/src/webui_ps5.cpp, src/src/webui_transfer.cpp): *)
(* a batch, whose body is a stream of small files cut in whatever pieces it      *)
(* arrives in, and single files, all writing through a block buffer under a       *)
(* hidden name and renamed to their own when whole.  Requests run on a pool of    *)
(* threads; a write may fail (the storage is full) and a connection may be lost.   *)
(***************************************************************************)
EXTENDS Naturals, Sequences, FiniteSets

CONSTANTS
    Requests,   \* the requests
    Names,      \* the names they write
    Bodies,     \* Requests -> the bodies it may send: sequences of [name, size]
    Batches,    \* the requests that are batches; the others send one file each
    Replaces,   \* the requests that ask to replace what exists
    Block,      \* write_block, in bytes
    MaxFailed,  \* 64: the failed files a batch remembers
    MaxSkipped, \* 1024: the skipped ones
    MaxPiece,   \* bound: the bytes that arrive at once
    MaxFaults   \* bound: the calls that fail and the connections lost

BatchAssumption ==
    /\ {Block, MaxPiece} \subseteq Nat \ {0} /\ {MaxSkipped, MaxFaults} \subseteq Nat
    /\ MaxFailed \in Nat \ {0}
    /\ Batches \cup Replaces \subseteq Requests

VARIABLES
    files,   \* what each final name holds, <<>> when it is not there
    pc,      \* where each request is
    body,    \* what it sends
    rec,     \* the record its reader is in
    state,   \* the reader's state
    have,    \* the bytes it has of the field it is in
    piece,   \* the bytes of the piece it has not consumed
    takes,   \* whether the sink takes the record's data
    temp,    \* whether the request's hidden file is there
    out,     \* what was written to it
    buf,     \* what the block buffer holds
    result,  \* the names of the files it failed and skipped, and (ghost) what became of each record
    faults

vars == <<files, pc, body, rec, state, have, piece, takes, temp, out, buf, result, faults>>

NoFile == <<>>
File(bytes) == <<<<"", 0, 0>>>> \o bytes
Old  == File(<<<<"old", 0, 0>>>>)
Bytes(r, i) == [k \in 1 .. body[r][i].size |-> <<r, i, k>>]
Fates(r, what) == Cardinality({i \in DOMAIN result[r].fates : result[r].fates[i] = what})

\* The bytes of a field: a record's name length, name, size and data; the end is a length of 0.
Width(r, s) == CASE s = "length" -> 2 [] s = "name" -> 1 [] s = "size" -> 2
                 [] s = "data" -> body[r][rec[r]].size [] OTHER -> 0

TypeOK ==
    /\ DOMAIN files = Names /\ temp \in [Requests -> BOOLEAN] /\ takes \in [Requests -> BOOLEAN]
    /\ pc \in [Requests -> {"out", "receive", "ending", "commit", "answer", "over"}]
    /\ state \in [Requests -> {"length", "name", "size", "data", "done", "bad"}]
    /\ piece \in [Requests -> 0 .. MaxPiece] /\ faults \in 0 .. MaxFaults
    /\ \A r \in Requests :
        /\ Len(buf[r]) <= Block
        /\ Len(result[r].failed) <= MaxFailed /\ Len(result[r].skipped) <= MaxSkipped

Init ==
    /\ files \in [Names -> {NoFile, Old}]
    /\ body \in [Requests -> UNION {Bodies[r] : r \in Requests}] /\ \A r \in Requests : body[r] \in Bodies[r]
    /\ pc = [r \in Requests |-> "out"] /\ rec = [r \in Requests |-> 1]
    /\ state = [r \in Requests |-> IF r \in Batches THEN "length" ELSE "data"]
    /\ have = [r \in Requests |-> 0] /\ piece = have
    /\ takes = [r \in Requests |-> FALSE] /\ temp = takes
    /\ out = [r \in Requests |-> <<>>] /\ buf = out
    /\ result = [r \in Requests |-> [failed |-> <<>>, skipped |-> <<>>, fates |-> <<>>]]
    /\ faults = 0

Set(f, r, v) == [f EXCEPT ![r] = v]
Goto(r, p) == pc' = Set(pc, r, p)
Fault == faults < MaxFaults /\ faults' = faults + 1
reader == <<rec, state, have, piece>>
writer == <<temp, out, buf>>

--------------------------------------------------------------------------------
(* The hidden file of a record. *)

Exists(n) == files[n] # NoFile
Named(r) == body[r][rec[r]].name
RememberLess(names, most, n) == IF Len(names) < most - 1 THEN Append(names, n) ELSE names    \* mutant
\* fail() and skip(): a file is named until as many are; what is over is forgotten.
Remember(names, most, n) == IF Len(names) < most THEN Append(names, n) ELSE names
Count(r, what) ==
    result' = [result EXCEPT ![r].fates = Append(@, what),
        ![r].failed  = IF what = "failed" THEN Remember(@, MaxFailed, Named(r)) ELSE @,
        ![r].skipped = IF what = "skipped" THEN Remember(@, MaxSkipped, Named(r)) ELSE @]
\* create() opens a new file; the buffer keeps what a failed flush left in it.
Create(r) == temp' = Set(temp, r, TRUE) /\ out' = Set(out, r, <<>>) /\ UNCHANGED buf
\* fail(): the descriptor is released, which tries the flush again, and the file deleted;
\* a single file's is, when its request is freed.
Close(r, there) == temp' = Set(temp, r, there) /\ out' = Set(out, r, <<>>)
Drop(r) == Close(r, r \notin Batches)
Left(all) == {<<>>, all}

\* BatchUpload::begin, prepare_upload: the name is free, or is to be replaced.
Begin(r) ==
    IF r \notin Replaces /\ Exists(Named(r))
    THEN Count(r, "skipped") /\ takes' = Set(takes, r, FALSE) /\ UNCHANGED <<writer, faults>>
    ELSE \/ Create(r) /\ takes' = Set(takes, r, TRUE) /\ UNCHANGED <<result, faults>>
         \/ Fault /\ Count(r, "failed") /\ takes' = Set(takes, r, FALSE) /\ UNCHANGED writer

\* Writer::write: whole blocks go to the file, the rest waits in the buffer.
Whole(all) == Len(all) - (Len(all) % Block)
Write(r, data) ==
    LET all == buf[r] \o data IN
    /\ out' = Set(out, r, out[r] \o SubSeq(all, 1, Whole(all)))
    /\ buf' = Set(buf, r, SubSeq(all, Whole(all) + 1, Len(all)))
\* It fails: the record is given up, and its other bytes are drained.
WriteFails(r, data) ==
    LET all == buf[r] \o data IN
    /\ Whole(all) > 0 /\ Fault /\ Drop(r) /\ Count(r, "failed")
    /\ \E rest \in (IF buf[r] = <<>> THEN {<<>>} ELSE Left(SubSeq(all, 1, Block))) : buf' = Set(buf, r, rest)
    /\ takes' = Set(takes, r, FALSE)

--------------------------------------------------------------------------------
(* The reader: BatchReader::feed. *)

\* A piece of the body arrives.
Receive(r) ==
    /\ pc[r] = "receive" /\ piece[r] = 0 /\ state[r] \notin {"bad"}
    /\ \E n \in 1 .. MaxPiece : piece' = Set(piece, r, n)
    /\ UNCHANGED <<files, pc, body, rec, state, have, takes, writer, result, faults>>

Min(a, b) == IF a < b THEN a ELSE b
Consume(r, n) == piece' = Set(piece, r, piece[r] - n)
\* A field is whole: the next one starts.
Enter(r, s) == state' = Set(state, r, s) /\ have' = Set(have, r, 0)

\* The name's length, the name and the size, any of which a piece may cut in two.
Header(r) ==
    /\ pc[r] = "receive" /\ state[r] \in {"length", "name", "size"} /\ piece[r] > 0
    /\ LET n == Min(piece[r], Width(r, state[r]) - have[r]) IN
        /\ Consume(r, n)
        /\ IF have[r] + n < Width(r, state[r])
           THEN have' = Set(have, r, have[r] + n) /\ UNCHANGED <<state, takes, writer, result, faults>>
           ELSE CASE state[r] = "length" /\ rec[r] > Len(body[r])
                        -> Enter(r, "done") /\ UNCHANGED <<takes, writer, result, faults>>
                  [] state[r] = "length" /\ rec[r] <= Len(body[r]) -> Enter(r, "name") /\ UNCHANGED <<takes, writer, result, faults>>
                  [] state[r] = "name" -> Enter(r, "size") /\ UNCHANGED <<takes, writer, result, faults>>
                  [] OTHER -> Enter(r, "data") /\ Begin(r)
    /\ UNCHANGED <<files, pc, body, rec>>

\* A record's data.
Due(r, n) == SubSeq(Bytes(r, rec[r]), have[r] + 1, have[r] + n)
DataArrives(r) ==
    /\ pc[r] = "receive" /\ state[r] = "data" /\ piece[r] > 0 /\ have[r] < Width(r, "data")
    /\ LET n == Min(piece[r], Width(r, "data") - have[r]) IN
        /\ Consume(r, n) /\ have' = Set(have, r, have[r] + n)
        /\ IF ~takes[r] THEN UNCHANGED <<takes, writer, result, faults>>
           ELSE \/ Write(r, Due(r, n)) /\ UNCHANGED <<takes, temp, result, faults>>
                \/ WriteFails(r, Due(r, n))
    /\ UNCHANGED <<files, pc, body, rec, state>>
\* Its last byte: the sink ends it, unless it was given up.
EndsAlways(r) == TRUE                                                    \* mutant
Ends(r) == takes[r]
Last(r) ==
    /\ pc[r] = "receive" /\ state[r] = "data" /\ have[r] = Width(r, "data") /\ r \in Batches
    /\ IF Ends(r) THEN Goto(r, "ending") /\ UNCHANGED reader
       ELSE rec' = Set(rec, r, rec[r] + 1) /\ Enter(r, "length") /\ UNCHANGED <<pc, piece>>
    /\ UNCHANGED <<files, body, takes, writer, result, faults>>
\* Data after the end marker.
Trailing(r) ==
    /\ pc[r] = "receive" /\ state[r] = "done" /\ piece[r] > 0
    /\ state' = Set(state, r, "bad") /\ piece' = Set(piece, r, 0)
    /\ UNCHANGED <<files, pc, body, rec, have, takes, writer, result, faults>>

--------------------------------------------------------------------------------
(* A file's end: BatchUpload::end, and transfer_route for a single one. *)

Next1(r) == IF r \in Batches
            THEN rec' = Set(rec, r, rec[r] + 1) /\ Enter(r, "length") /\ Goto(r, "receive")
            ELSE Goto(r, "answer") /\ UNCHANGED <<rec, state, have>>
GiveUp(r, what) == Close(r, r \notin Batches /\ what # "written") /\ Count(r, what) /\ takes' = Set(takes, r, FALSE) /\ Next1(r)

\* The flush; then the file must have every byte of its size.
CompleteOrNot(r, got) == TRUE                                        \* mutant
Complete(r, got) == Len(got) = body[r][rec[r]].size
Flush(r) ==
    /\ pc[r] = "ending"
    /\ LET got == out[r] \o buf[r] IN
        \/ /\ Complete(r, got) /\ out' = Set(out, r, got) /\ buf' = Set(buf, r, <<>>)
           /\ Goto(r, "commit") /\ UNCHANGED <<rec, state, have, takes, temp, result, faults>>
        \/ ~Complete(r, got) /\ buf' = Set(buf, r, <<>>) /\ GiveUp(r, "failed") /\ UNCHANGED faults
        \/ /\ buf[r] # <<>> /\ Fault /\ GiveUp(r, "failed")
           /\ \E rest \in Left(buf[r]) : buf' = Set(buf, r, rest)
    /\ UNCHANGED <<files, body, piece>>

\* commit(): under one lock, the name looked at again and the file renamed.
MayRenameAnyway(r) == TRUE                                               \* mutant
MayRename(r) == r \in Replaces \/ ~Exists(Named(r))
Commit(r) ==
    /\ pc[r] = "commit"
    /\ \/ /\ MayRename(r) /\ files' = [files EXCEPT ![Named(r)] = File(out[r])]
          /\ GiveUp(r, "written") /\ UNCHANGED faults
       \/ ~MayRename(r) /\ GiveUp(r, "skipped") /\ UNCHANGED <<files, faults>>
       \/ Fault /\ GiveUp(r, "failed") /\ UNCHANGED files
    /\ UNCHANGED <<body, piece, buf>>

--------------------------------------------------------------------------------
(* The request. *)

\* handle()'s first call: a single file's is prepared before its body is read.
Arrive(r) ==
    /\ pc[r] = "out"
    /\ IF r \in Batches THEN Goto(r, "receive") /\ UNCHANGED <<takes, writer, result, faults>>
       ELSE /\ Begin(r)
            /\ Goto(r, IF takes'[r] THEN "receive" ELSE "answer")
    /\ UNCHANGED <<files, body, reader>>
\* The body is at its end: a batch's is whole only at its end marker, and what it was in
\* the middle of goes before the answer.
AbandonNot(r) == UNCHANGED <<temp, out>>                                 \* mutant
Abandon(r) == Close(r, FALSE)
BodyEnds(r) ==
    /\ pc[r] = "receive" /\ piece[r] = 0
    /\ IF r \in Batches
       THEN /\ ~(state[r] = "data" /\ have[r] = Width(r, "data"))
            /\ Goto(r, "answer")
            /\ IF state[r] = "done" THEN UNCHANGED <<temp, out>> ELSE Abandon(r)
       ELSE /\ have[r] = Width(r, "data")
            /\ Goto(r, IF takes[r] THEN "ending" ELSE "answer") /\ UNCHANGED <<temp, out>>
    /\ UNCHANGED <<files, body, reader, takes, buf, result, faults>>
\* The answer, or a lost connection: the request is freed, and its hidden file with it.
Free(r) ==
    /\ \/ pc[r] = "answer" /\ UNCHANGED faults
       \/ pc[r] = "receive" /\ piece[r] = 0 /\ Fault
    /\ Goto(r, "over") /\ Close(r, FALSE)
    /\ UNCHANGED <<files, body, reader, takes, buf, result>>

Step(r) == \/ Arrive(r) \/ Receive(r) \/ Header(r) \/ DataArrives(r) \/ Last(r) \/ Trailing(r)
           \/ Flush(r) \/ Commit(r) \/ BodyEnds(r) \/ Free(r)
Next == \E r \in Requests : Step(r)

Spec == Init /\ [][Next]_vars

--------------------------------------------------------------------------------
(* Properties *)

\* A file under its own name is what was there, or every byte of one record and no other,
\* whatever failed before it (src/src/webui_transfer.h:4).
WholeFiles ==
    \A n \in Names : files[n] \in {NoFile, Old} \cup
        UNION {{File(Bytes(r, i)) : i \in {j \in DOMAIN body[r] : body[r][j].name = n}} : r \in Requests}

\* What the page says of a record of a batch, from the names in the answer (app.js, runBatch).
Tells(r, i) == CASE \E k \in DOMAIN result[r].skipped : result[r].skipped[k] = body[r][i].name -> "exists"
                 [] \E k \in DOMAIN result[r].failed : result[r].failed[k] = body[r][i].name -> "failed"
                 [] OTHER -> IF state[r] = "done" THEN "uploaded" ELSE "failed"

\* A file the page calls uploaded was written, and whole: no record of an answered batch is missed
\* or told twice over (src/webui/app.js:308).  Not so past the names it remembers: the page then
\* calls a file uploaded that failed (src/src/webui_ps5.cpp:1138).
Forgets(r) == Fates(r, "failed") > MaxFailed \/ Fates(r, "skipped") > MaxSkipped
ToldAsItWas ==
    \A r \in Batches : pc[r] = "answer" /\ ~Forgets(r) =>
        \A i \in DOMAIN body[r] : Tells(r, i) = "uploaded" => i \in DOMAIN result[r].fates /\ result[r].fates[i] = "written"
AlwaysToldAsItWas ==
    \A r \in Batches : pc[r] = "answer" =>
        \A i \in DOMAIN body[r] : Tells(r, i) = "uploaded" => i \in DOMAIN result[r].fates /\ result[r].fates[i] = "written"

\* A request that does not ask to replace never writes over a file, though the name was
\* free when it began (src/src/webui_transfer.h:80).
NotOver ==
    \A n \in Names : (files'[n] # files[n] /\ Exists(n)) => \E r \in Replaces : pc[r] = "commit"

\* A request leaves no hidden file, a batch not even when it is answered
\* (src/src/webui_ps5.cpp:2075).
NoPartLeft ==
    \A r \in Requests : (pc[r] = "over" \/ (pc[r] = "answer" /\ r \in Batches)) => ~temp[r]

\* A record whose own calls all succeed is not failed for what failed before it.
OwnFaultsOnly == [][\A r \in Requests : Fates(r, "failed")' > Fates(r, "failed") => faults' > faults]_vars
================================================================================

------------------------------ MODULE CoreImage ------------------------------
(* src/src/core_loader_ps5.cpp: one core's file brought into memory by load() and   *)
(* given back by release().  The file is checked as it is read: a part of it is *)
(* chosen when the loader comes to it.  A word is the unit, a page has two.     *)
EXTENDS Naturals, Sequences, FiniteSets

CONSTANTS
    Limit,      \* words of the largest image
    Segments,   \* the load segments a file may have: [at, words, file, flags]
    Arrays,     \* where its callbacks may be: [at, words]
    Tables,     \* its unwind tables' addresses
    Symbols,    \* its dynamic symbols: [at, weak, provided]; at = Limit for an import
    MaxRelocs   \* bound: relocations of one file

CoreImageAssumption ==
    /\ {Limit, MaxRelocs} \subseteq Nat
    /\ \A s \in Segments : s.at \in Nat /\ s.file \in Nat /\ s.words \in Nat /\ s.flags \subseteq {"R", "W", "X"}
    /\ \A a \in Arrays : a.at \in Nat /\ a.words \in Nat

VARIABLES
    segments,  \* the file's load segments, in order
    init, fini, \* DT_INIT_ARRAY and DT_FINI_ARRAY
    pc,        \* the part of load() under way
    at,        \* its loop's index
    held,      \* what release() has to give back: "file", "image", "frames"
    image,     \* the words of the image
    fixed,     \* the words relocations wrote
    code,      \* the pages that are read-execute
    ran        \* the callbacks that ran, in order

file == <<segments, init, fini>>
vars == <<file, pc, at, held, image, fixed, code, ran>>

Page == 2
Words == 0 .. Limit - 1
Zero == <<"zero", 0>>
Stages == <<"open", "headers", "reserve", "imports", "relocate", "callbacks", "protect", "frames",
            "initialize", "loaded", "finalize">>

TypeOK ==
    /\ pc \in {Stages[i] : i \in DOMAIN Stages} \cup {"failed", "released"} /\ at \in Nat
    /\ held \subseteq {"file", "image", "frames"} /\ DOMAIN image = Words
    /\ fixed \subseteq Words /\ code \subseteq 0 .. Limit \div Page

Pairs(S) == {<<>>} \cup {<<a>> : a \in S} \cup {<<a, b>> : a \in S, b \in S}
Init ==
    /\ segments \in Pairs(Segments) /\ init \in Arrays /\ fini \in Arrays /\ pc = "open" /\ at = 1
    /\ held = {} /\ image = [a \in Words |-> Zero] /\ fixed = {} /\ code = {} /\ ran = <<>>

Go(stage) == pc' = stage /\ at' = 1
Fail == pc' = "failed" /\ UNCHANGED at

--------------------------------------------------------------------------------
(* The checks. *)

RangeIn(offset, size, limit) == offset <= limit /\ size <= limit - offset
End(s) == ((s.at + s.words + Page - 1) \div Page) * Page
PagesOf(s) == {a \div Page : a \in s.at .. End(s) - 1}
Mapped(a, n, flags) ==
    \E i \in DOMAIN segments : LET s == segments[i] IN
        flags \subseteq s.flags /\ a >= s.at /\ RangeIn(a - s.at, n, s.words)

OverlapNever(s, q) == FALSE  \* mutant
Overlap(s, q) == s.at < End(q) /\ q.at < End(s)
SegmentFits(s) ==
    /\ s.file <= s.words /\ RangeIn(s.at, s.words, Limit) /\ s.at % Page = 0
    /\ ~({"W", "X"} \subseteq s.flags)
SegmentsFit ==
    /\ segments # <<>> /\ \A i \in DOMAIN segments : SegmentFits(segments[i])
    /\ \A i \in DOMAIN segments : \A j \in 1 .. i - 1 : ~Overlap(segments[i], segments[j])
ArrayFits(a) == a.words = 0 \/ Mapped(a.at, a.words, {"R"})

Undefined(s) == s.at = Limit
Resolves(s) == IF Undefined(s) THEN s.provided \/ s.weak ELSE Mapped(s.at, 1, {})
Address(s) == IF ~Undefined(s) THEN <<"base", s.at>> ELSE IF s.provided THEN <<"import", 0>> ELSE Zero

InCode(w) == w[1] = "base" /\ Mapped(w[2], 1, {"X"})
Callbacks(a) == [i \in 1 .. a.words |-> image[a.at + i - 1]]
InitializersFit == \A i \in 1 .. init.words : InCode(Callbacks(init)[i])  \* mutant
CallbacksFit == \A a \in {init, fini} : \A i \in 1 .. a.words : InCode(Callbacks(a)[i])

--------------------------------------------------------------------------------
(* load(), part by part. *)

\* Opening, measuring, the buffer, the reading; each may fail.
Open ==
    /\ pc = "open"
    /\ \/ Fail /\ held' \in SUBSET {"file"}
       \/ Go("headers") /\ held' = {"file"}
    /\ UNCHANGED <<file, image, fixed, code, ran>>

\* The headers, the segments, the symbol table, the dynamic entries.
Headers ==
    /\ pc = "headers"
    /\ \/ Fail  \* one of the fixed fields, tables or entries is not what a core has
       \/ SegmentsFit /\ ArrayFits(init) /\ ArrayFits(fini) /\ Go("reserve")
    /\ UNCHANGED <<file, held, image, fixed, code, ran>>

Filled(a) ==
    LET of == {i \in DOMAIN segments : RangeIn(a - segments[i].at, 1, segments[i].file) /\ a >= segments[i].at}
    IN IF of = {} THEN Zero ELSE <<"file", a>>
Reserve ==
    /\ pc = "reserve"
    /\ \/ Fail /\ UNCHANGED <<held, image>>
       \/ /\ Go("imports") /\ held' = held \cup {"image"}
          /\ image' = [a \in Words |-> Filled(a)]
    /\ UNCHANGED <<file, fixed, code, ran>>

Imports ==
    /\ pc = "imports"
    /\ \/ Fail
       \/ (\A s \in Symbols : Resolves(s)) /\ Go("relocate")
    /\ UNCHANGED <<file, held, image, fixed, code, ran>>

RelocAnywhere(a) == Mapped(a, 1, {})  \* mutant
RelocFits(a) == Mapped(a, 1, {"W"})
Write(a, w) == image' = [image EXCEPT ![a] = w] /\ fixed' = fixed \cup {a}
Relative(a, n) == RelocFits(a) /\ Mapped(n, 1, {}) /\ Write(a, <<"base", n>>)
Symbolic(a, s) == RelocFits(a) /\ Resolves(s) /\ Write(a, Address(s))
Relocate ==
    /\ pc = "relocate" /\ at <= MaxRelocs
    /\ \/ Fail /\ UNCHANGED <<image, fixed>>
       \/ /\ at' = at + 1 /\ UNCHANGED pc
          /\ \E a \in Words : (\E n \in Words : Relative(a, n)) \/ (\E s \in Symbols : Symbolic(a, s))
    /\ UNCHANGED <<file, held, code, ran>>
Relocated ==
    /\ pc = "relocate" /\ Go("callbacks") /\ UNCHANGED <<file, held, image, fixed, code, ran>>

Validate ==
    /\ pc = "callbacks" /\ (IF CallbacksFit THEN Go("protect") ELSE Fail)
    /\ UNCHANGED <<file, held, image, fixed, code, ran>>

\* Code turns read-execute, to whole pages; the rest stays read-write.
Protect ==
    /\ pc = "protect" /\ at <= Len(segments)
    /\ LET s == segments[at] IN
       \/ "X" \in s.flags /\ Fail /\ UNCHANGED code
       \/ /\ at' = at + 1 /\ UNCHANGED pc
          /\ code' = IF "X" \in s.flags THEN code \cup PagesOf(s) ELSE code
    /\ UNCHANGED <<file, held, image, fixed, ran>>
Protected ==
    /\ pc = "protect" /\ at > Len(segments) /\ Go("frames")
    /\ UNCHANGED <<file, held, image, fixed, code, ran>>

\* A second unwind table, or one outside what may be read, fails the load.
Frames ==
    /\ pc = "frames"
    /\ \/ /\ \E t \in Tables : "frames" \in held \/ ~Mapped(t, 1, {"R"})
          /\ Fail /\ UNCHANGED held
       \/ /\ "frames" \notin held /\ \E t \in Tables : Mapped(t, 1, {"R"})
          /\ held' = held \cup {"frames"} /\ UNCHANGED <<pc, at>>
       \/ Go("initialize") /\ UNCHANGED held
    /\ UNCHANGED <<file, image, fixed, code, ran>>

Initialize ==
    /\ pc = "initialize"
    /\ IF at <= init.words
       THEN at' = at + 1 /\ ran' = Append(ran, Callbacks(init)[at]) /\ UNCHANGED pc
       ELSE Go("loaded") /\ UNCHANGED ran
    /\ UNCHANGED <<file, held, image, fixed, code>>

\* dlclose: the finalizers, the last one first, then release().
Close ==
    /\ pc = "loaded" /\ pc' = "finalize" /\ at' = fini.words
    /\ UNCHANGED <<file, held, image, fixed, code, ran>>
Finalize ==
    /\ pc = "finalize" /\ at > 0 /\ at' = at - 1 /\ ran' = Append(ran, Callbacks(fini)[at])
    /\ UNCHANGED <<file, pc, held, image, fixed, code>>

GivesBackNoFrames == held \cap {"frames"}  \* mutant
GivesBack == {}
Release ==
    /\ pc = "failed" \/ (pc = "finalize" /\ at = 0)
    /\ Go("released") /\ held' = GivesBack /\ image' = [a \in Words |-> Zero] /\ code' = {}
    /\ UNCHANGED <<file, fixed, ran>>

Next ==
    \/ Open \/ Headers \/ Reserve \/ Imports \/ Relocate \/ Relocated \/ Validate
    \/ Protect \/ Protected \/ Frames \/ Initialize \/ Close \/ Finalize \/ Release
Spec == Init /\ [][Next]_vars

--------------------------------------------------------------------------------
\* Once the image is protected its code is the file's, untouched by relocations, whole pages
\* of it are executable and none that the core may write (load's checks of the segments, the
\* relocations and the protection together).
Flagged(f) == UNION {PagesOf(segments[i]) : i \in {j \in DOMAIN segments : f \in segments[j].flags}}
CodeIsFixed ==
    pc \in {"frames", "initialize", "loaded", "finalize"} =>
        /\ code = Flagged("X") /\ code \cap Flagged("W") = {}
        /\ \A a \in Words : a \div Page \in code => a \notin fixed /\ image[a][1] \in {"file", "zero"}

\* Only the core's own executable code is ever called, as an initializer or as a finalizer.
OnlyCodeRuns == \A i \in DOMAIN ran : InCode(ran[i])

\* A load that failed, and a core that is closed, leave nothing: no file, image or frames.
NothingHeld == pc = "released" => held = {}
==============================================================================

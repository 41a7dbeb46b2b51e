------------------------------- MODULE Memory -------------------------------
(* src/src/memory_ps5.cpp: the title's malloc, calloc, realloc and free, the menu's  *)
(* and the cores', each block served by one of four allocators (direct memory,  *)
(* libc's heap, an anonymous mapping, a slot of a menu slab), and given back to *)
(* it by its address alone.                                                     *)
EXTENDS Naturals, FiniteSets

CONSTANTS
    Threads,
    Spans,     \* where the console can map memory: an address unmapped is given again
    Ids,       \* blocks of direct memory, and of libc's heap
    Slots,     \* slots of a slab
    Sizes,     \* at most 128 bytes: 1; at most 1024: 2; below the threshold: 3; large: 4; more than
               \* there is: 5
    MaxCalls,  \* bound: calls in one behavior
    Callocs    \* calloc is called too

MemoryAssumption == Slots \in Nat \ {0} /\ Sizes \subseteq 1 .. 5 /\ MaxCalls \in Nat /\ Callocs \in BOOLEAN

MenuMax == 2
Large == 4
Huge == 5

VARIABLES
    os,        \* span -> what is mapped there: "free", "mapping" or the slab's stride
    mappings,  \* the list of mappings: span -> requested, 0 for those not in it
    slabs,     \* the list of menu slabs: spans
    slots,     \* span -> slot -> requested, 0 for a free one
    direct, native, \* the two heaps: id -> size, 0 for free
    blocks,    \* what the program holds: pointer -> its size (0 for none), how much of what was
               \* written to it is due and is there, and whether its calloc came zeroed
    call,      \* thread -> its call, Idle for none
    calls      \* how many were made

lists == <<mappings, slabs, slots>>
heaps == <<direct, native>>
vars  == <<os, lists, heaps, blocks, call, calls>>

None == <<"none", 0, 0>>
Pointers == {<<"direct", i, 0>> : i \in Ids} \cup {<<"native", i, 0>> : i \in Ids} \cup
            {<<"span", k, i>> : k \in Spans, i \in 0 .. Slots}
NoBlock == [size |-> 0, due |-> 0, kept |-> 0, zero |-> TRUE]
Fresh(size, zero) == [size |-> size, due |-> size, kept |-> size, zero |-> zero]
\* at: the step; old, was: the block given up; has: its size as resize() finds it; new: the one
\* the call gets; wipe: it is a calloc; unmap: the span to unmap.
Idle == [at |-> "idle", route |-> "title", size |-> 0, old |-> None, was |-> NoBlock, has |-> 0,
         new |-> None, wipe |-> FALSE, unmap |-> None]

Smaller(a, b) == IF a < b THEN a ELSE b
Live(p) == blocks[p].size # 0

TypeOK ==
    /\ os \in [Spans -> {"free", "mapping", "small", "big"}] /\ slabs \subseteq Spans
    /\ DOMAIN mappings = Spans /\ DOMAIN blocks = Pointers /\ calls \in 0 .. MaxCalls
    /\ \A t \in Threads : call[t].at \in {"idle", "allocate", "link", "resize", "copy", "release", "unmap"}

Init ==
    /\ os = [k \in Spans |-> "free"] /\ mappings = [k \in Spans |-> 0] /\ slabs = {}
    /\ slots = [k \in Spans |-> [i \in 1 .. Slots |-> 0]]
    /\ direct = [i \in Ids |-> 0] /\ native = [i \in Ids |-> 0]
    /\ blocks = [p \in Pointers |-> NoBlock] /\ call = [t \in Threads |-> Idle] /\ calls = 0

Step(t, c) == call' = [call EXCEPT ![t] = c]
Begins(t, c) == call[t].at = "idle" /\ calls < MaxCalls /\ calls' = calls + 1 /\ Step(t, c)

--------------------------------------------------------------------------------
(* The calls. *)

Malloc(t, size, route) ==
    /\ Begins(t, [Idle EXCEPT !.at = "allocate", !.route = route, !.size = size])
    /\ UNCHANGED <<os, lists, heaps, blocks>>

Calloc(t, size, route) ==
    /\ Callocs /\ Begins(t, [Idle EXCEPT !.at = "allocate", !.route = route, !.size = size, !.wipe = TRUE])
    /\ UNCHANGED <<os, lists, heaps, blocks>>

Free(t, p) ==
    /\ Live(p) /\ blocks' = [blocks EXCEPT ![p] = NoBlock]
    /\ Begins(t, [Idle EXCEPT !.at = "release", !.old = p])
    /\ UNCHANGED <<os, lists, heaps>>

Realloc(t, p, size) ==
    /\ Live(p) /\ blocks' = [blocks EXCEPT ![p] = NoBlock]
    /\ Begins(t, [Idle EXCEPT !.at = "resize", !.size = size, !.old = p, !.was = blocks[p]])
    /\ UNCHANGED <<os, lists, heaps>>

\* A strdup of a library hands the program a block of libc's own heap.
Library(t, i, size) ==
    /\ native[i] = 0 /\ size < Large /\ call[t].at = "idle" /\ calls < MaxCalls /\ calls' = calls + 1
    /\ native' = [native EXCEPT ![i] = size]
    /\ blocks' = [blocks EXCEPT ![<<"native", i, 0>>] = Fresh(size, TRUE)]
    /\ UNCHANGED <<os, lists, direct, call>>

--------------------------------------------------------------------------------
(* allocate, allocate_menu and the heaps. *)

\* A call that ends: with the block p, or as it was when nothing could be had.
Gets(t, p, zero) ==
    LET c == call[t] IN
    IF c.old = None
    THEN Step(t, Idle) /\ blocks' = [blocks EXCEPT ![p] = Fresh(c.size, c.wipe => zero)]
    ELSE Step(t, [c EXCEPT !.at = "copy", !.new = p]) /\ UNCHANGED blocks
GetsNothing(t) ==
    LET c == call[t] IN
    Step(t, Idle) /\ blocks' = IF c.old = None THEN blocks ELSE [blocks EXCEPT ![c.old] = c.was]

Allocates(t) == call[t].at = "allocate"
Menu(t) == call[t].route = "menu"
FromHeap(t) == Allocates(t) /\ ~Menu(t) /\ call[t].size # Huge

\* Direct memory first.  It holds what it last held, unless it comes from the heap's own calloc:
\* a small one, or a core's.
Zeroed(t) == call[t].wipe /\ (call[t].size < Large \/ call[t].route = "core")
Direct(t, i) ==
    /\ FromHeap(t) /\ direct[i] = 0 /\ direct' = [direct EXCEPT ![i] = call[t].size]
    /\ \E zero \in BOOLEAN : Gets(t, <<"direct", i, 0>>, zero \/ Zeroed(t))
    /\ UNCHANGED <<os, lists, native, calls>>

Native(t, i) ==
    /\ FromHeap(t) /\ call[t].size < Large /\ native[i] = 0
    /\ native' = [native EXCEPT ![i] = call[t].size]
    /\ Gets(t, <<"native", i, 0>>, call[t].wipe)
    /\ UNCHANGED <<os, lists, direct, calls>>

\* A large one that direct memory refuses is mapped, then put in the list.
Map(t, k) ==
    /\ FromHeap(t) /\ call[t].size = Large /\ os[k] = "free" /\ os' = [os EXCEPT ![k] = "mapping"]
    /\ Step(t, [call[t] EXCEPT !.at = "link", !.new = <<"span", k, 0>>])
    /\ UNCHANGED <<lists, heaps, blocks, calls>>
Link(t) ==
    /\ call[t].at = "link"
    /\ mappings' = [mappings EXCEPT ![call[t].new[2]] = call[t].size]
    /\ Gets(t, call[t].new, TRUE)
    /\ UNCHANGED <<os, slabs, slots, heaps, calls>>

Stride(size) == IF size = 1 THEN "small" ELSE "big"
FirstFree(k, i) == slots[k][i] = 0 /\ \A j \in 1 .. i - 1 : slots[k][j] # 0
Full(k) == \A i \in 1 .. Slots : slots[k][i] # 0
RoomyAny(t) == {k \in slabs : ~Full(k)}  \* mutant
Roomy(t) == {k \in slabs : os[k] = Stride(call[t].size) /\ ~Full(k)}
Takes(t, k) == \E i \in 1 .. Slots :
    /\ FirstFree(k, i) /\ slots' = [slots EXCEPT ![k][i] = call[t].size]
    /\ Gets(t, <<"span", k, i>>, FALSE)
\* In a slab with room, or a new one, all under the lock.
Slot(t, k) ==
    /\ Allocates(t) /\ Menu(t) /\ call[t].size <= MenuMax
    /\ \/ k \in Roomy(t) /\ Takes(t, k) /\ UNCHANGED <<os, slabs>>
       \/ /\ Roomy(t) = {} /\ os[k] = "free" /\ os' = [os EXCEPT ![k] = Stride(call[t].size)]
          /\ slabs' = slabs \cup {k} /\ Takes(t, k)
    /\ UNCHANGED <<mappings, heaps, calls>>

\* Every route refused.
Refused(t) == Allocates(t) /\ GetsNothing(t) /\ UNCHANGED <<os, lists, heaps, calls>>

--------------------------------------------------------------------------------
(* release and resize: a pointer goes by its address. *)

InMenu(p) == p[1] = "span" /\ p[2] \in slabs /\ p[3] # 0
InList(p) == p[1] = "span" /\ mappings[p[2]] # 0 /\ p[3] = 0

Emptied(k, i) == \A j \in 1 .. Slots : j = i \/ slots[k][j] = 0
UnlinksNot == FALSE  \* mutant
Unlinks == TRUE
\* An emptied slab, or a mapping, leaves its list under the lock and is unmapped after it.
Release(t) ==
    LET p == call[t].old k == p[2] IN
    /\ call[t].at = "release"
    /\ CASE p[1] = "direct" -> direct' = [direct EXCEPT ![k] = 0] /\ Step(t, Idle) /\ UNCHANGED <<lists, native>>
         [] InMenu(p) ->
                /\ slots' = [slots EXCEPT ![k][p[3]] = 0]
                /\ slabs' = IF Emptied(k, p[3]) /\ Unlinks THEN slabs \ {k} ELSE slabs
                /\ Step(t, IF Emptied(k, p[3]) THEN [call[t] EXCEPT !.at = "unmap", !.unmap = p] ELSE Idle)
                /\ UNCHANGED <<mappings, heaps>>
         [] InList(p) ->
                /\ mappings' = IF Unlinks THEN [mappings EXCEPT ![k] = 0] ELSE mappings
                /\ Step(t, [call[t] EXCEPT !.at = "unmap", !.unmap = p])
                /\ UNCHANGED <<slabs, slots, heaps>>
         [] OTHER -> /\ native' = IF p[1] = "native" THEN [native EXCEPT ![k] = 0] ELSE native
                     /\ Step(t, Idle) /\ UNCHANGED <<lists, direct>>
    /\ UNCHANGED <<os, blocks, calls>>
Unmap(t) ==
    /\ call[t].at = "unmap" /\ os' = [os EXCEPT ![call[t].unmap[2]] = "free"] /\ Step(t, Idle)
    /\ UNCHANGED <<lists, heaps, blocks, calls>>

\* What resize() knows of the old block's size: the slot's or the mapping's, which it read under
\* the lock.
OldSizeMapping(p) == IF InList(p) THEN mappings[p[2]] ELSE 0  \* mutant
OldSize(p) == IF InMenu(p) THEN slots[p[2]][p[3]] ELSE IF InList(p) THEN mappings[p[2]] ELSE 0
ToMenu(p, size) == InMenu(p) /\ size <= MenuMax
Resize(t) ==
    LET p == call[t].old IN
    /\ call[t].at = "resize" /\ (InMenu(p) \/ InList(p))
    /\ Step(t, [call[t] EXCEPT !.at = "allocate", !.has = OldSize(p),
                               !.route = IF ToMenu(p, call[t].size) THEN "menu" ELSE "title"])
    /\ UNCHANGED <<os, lists, heaps, blocks, calls>>

\* The two heaps resize their own; a block libc cannot grow moves to direct memory, as large as
\* libc says it is.
Kept(c, n) == [size |-> c.size, due |-> Smaller(c.was.due, c.size), kept |-> Smaller(c.was.kept, n), zero |-> TRUE]
Grown(t) == Kept(call[t], call[t].size)
ResizeDirect(t, i) ==
    LET p == call[t].old IN
    /\ call[t].at = "resize" /\ p[1] = "direct" /\ call[t].size # Huge /\ (i = p[2] \/ direct[i] = 0)
    /\ direct' = [[direct EXCEPT ![p[2]] = 0] EXCEPT ![i] = call[t].size]
    /\ blocks' = [blocks EXCEPT ![<<"direct", i, 0>>] = Grown(t)]
    /\ Step(t, Idle) /\ UNCHANGED <<os, lists, native, calls>>
ResizeNative(t) ==
    LET p == call[t].old IN
    /\ call[t].at = "resize" /\ p[1] = "native" /\ call[t].size # Huge
    /\ native' = [native EXCEPT ![p[2]] = call[t].size]
    /\ blocks' = [blocks EXCEPT ![p] = Grown(t)]
    /\ Step(t, Idle) /\ UNCHANGED <<os, lists, direct, calls>>
GivesUpNone(i) == native  \* mutant
GivesUpNative(i) == [native EXCEPT ![i] = 0]
MoveNative(t, i) ==
    LET p == call[t].old IN
    /\ call[t].at = "resize" /\ p[1] = "native" /\ call[t].size # Huge /\ direct[i] = 0
    /\ direct' = [direct EXCEPT ![i] = call[t].size] /\ native' = GivesUpNative(p[2])
    /\ blocks' = [blocks EXCEPT ![<<"direct", i, 0>>] = Grown(t)]
    /\ Step(t, Idle) /\ UNCHANGED <<os, lists, calls>>
ResizeRefused(t) ==
    /\ call[t].at = "resize" /\ call[t].old[1] \in {"direct", "native"} /\ GetsNothing(t)
    /\ UNCHANGED <<os, lists, heaps, calls>>

Copy(t) ==
    LET c == call[t] IN
    /\ c.at = "copy" /\ Step(t, [c EXCEPT !.at = "release"])
    /\ blocks' = [blocks EXCEPT ![c.new] = Kept(c, Smaller(c.has, c.size))]
    /\ UNCHANGED <<os, lists, heaps, calls>>

Next == \E t \in Threads :
    \/ \E s \in Sizes : Malloc(t, s, "title") \/ Malloc(t, s, "core") \/ Malloc(t, s, "menu")
    \/ \E s \in Sizes : Calloc(t, s, "title") \/ Calloc(t, s, "core")
    \/ \E p \in Pointers : Free(t, p) \/ \E s \in Sizes : Realloc(t, p, s)
    \/ \E i \in Ids : Direct(t, i) \/ Native(t, i) \/ ResizeDirect(t, i) \/ MoveNative(t, i)
                      \/ \E s \in Sizes : Library(t, i, s)
    \/ \E k \in Spans : Map(t, k) \/ Slot(t, k)
    \/ Link(t) \/ Refused(t) \/ Release(t) \/ Unmap(t) \/ Resize(t) \/ ResizeNative(t) \/ ResizeRefused(t)
    \/ Copy(t)
Spec == Init /\ [][Next]_vars

--------------------------------------------------------------------------------
\* What every lookup walks is there: an entry of either list is memory that is mapped, and for
\* what the list says (release() unlinks before it unmaps, allocate() maps before it links).
ListsAreMapped ==
    \A k \in Spans : (k \in slabs => os[k] \in {"small", "big"}) /\ (mappings[k] # 0 => os[k] = "mapping")

\* A block the program holds is one its allocator has given out, of its size, and fits the place it
\* has, so that no two blocks share memory and each goes back to where it came from.
Home(p) == CASE p[1] = "direct" -> direct[p[2]] [] p[1] = "native" -> native[p[2]] [] OTHER -> OldSize(p)
Fits(p) == InMenu(p) => Stride(blocks[p].size) = os[p[2]]
BlocksAreTheirs == \A p \in Pointers : Live(p) => Home(p) = blocks[p].size /\ Fits(p)

\* A block that was resized, whichever allocator it went to and came from, holds what it held,
\* and one that could not be is as it was (resize).
ContentsKept == \A p \in Pointers : blocks[p].kept = blocks[p].due

\* Between calls no memory is taken but by the blocks that are held, an emptied slab included.
NothingLeaks ==
    (\A t \in Threads : call[t].at = "idle") =>
        /\ \A i \in Ids : (direct[i] # 0 => Live(<<"direct", i, 0>>)) /\ (native[i] # 0 => Live(<<"native", i, 0>>))
        /\ \A k \in Spans : os[k] # "free" => \E i \in 0 .. Slots : Live(<<"span", k, i>>)

\* calloc's block is zeroed.  A large one of the title's is what direct memory last held.
CallocIsZeroed == \A p \in Pointers : blocks[p].zero
==============================================================================

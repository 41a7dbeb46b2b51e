-------------------------------- MODULE Cores --------------------------------
(* src/src/core_loader_ps5.cpp and src/src/core_threads_ps5.cpp: the libretro cores  *)
(* the title maps by itself, the threads their code starts, which one factory   *)
(* thread creates for them, and the unmapping of a core that is closed while    *)
(* threads of it may still run.                                                 *)
EXTENDS Naturals, FiniteSets

CONSTANTS
    Paths,      \* core files
    Threads,    \* threads the cores may start, each once
    MaxLoads,   \* bound: images mapped in one behavior
    Capacity,   \* how many modules the loader keeps
    Retries,    \* pthread_create's refusals of one thread before it is given up
    MaxRefused, \* bound: refusals in one behavior
    Main        \* the thread that opens, runs and closes the cores

CoresAssumption ==
    /\ {MaxLoads, Capacity, Retries, MaxRefused} \subseteq Nat /\ IsFiniteSet(Threads)
    /\ Main \notin Threads

VARIABLES
    factory,   \* the factory thread runs
    modules,   \* path -> [image, references]: the loader's list; image 0 for none
    mapped,    \* the images whose memory is mapped
    loads,     \* how many were mapped
    pc,        \* where the main thread is in ps5_core_dlopen or ps5_core_dlclose
    closing,   \* the image being loaded or closed
    live,      \* live_core_threads
    waited,    \* dlclose found threads alive and waited for them
    seen,      \* what dlclose last read of live
    thread,    \* thread -> where it is
    image,     \* thread -> the image its code is of
    counts,    \* thread -> its count's end was registered with its destructors
    callers,   \* who holds callers: in ps5_core_pthread_create
    request,   \* the Request: who asked, which thread for, pending, done, the result
    maker,     \* who is inside create_core_thread
    tries, refused, \* refusals of this thread, and of all
    answer     \* caller -> the thread its last call gave it

loader  == <<modules, mapped, loads, pc, closing, waited, seen>>
runs    == <<thread, image, counts>>
making  == <<callers, request, maker, tries, refused, answer>>
vars    == <<factory, live, loader, runs, making>>

Callers == {Main} \cup Threads
Quiet == [by |-> Main, thread |-> Main, pending |-> FALSE, done |-> FALSE, result |-> "none"]
InCode == {"born", "run", "destructors"}  \* a thread that counts as running the core's code

TypeOK ==
    /\ modules \in [Paths -> [image : 0 .. MaxLoads, references : Nat]]
    /\ mapped \subseteq 1 .. loads /\ loads \in 0 .. MaxLoads
    /\ pc \in {"idle", "initializers", "wait", "settle", "finalizers"} /\ live \in 0 .. Cardinality(Threads)
    /\ thread \in [Threads -> {"none", "asked", "made", "gone", "keys"} \cup InCode]
    /\ image \in [Threads -> 0 .. MaxLoads] /\ callers \subseteq Callers /\ Cardinality(callers) <= 1
    /\ maker \in {"none", "factory", "caller"} /\ tries \in 0 .. Retries

Init ==
    /\ factory \in BOOLEAN /\ modules = [p \in Paths |-> [image |-> 0, references |-> 0]]
    /\ mapped = {} /\ loads = 0 /\ pc = "idle" /\ closing = 0 /\ waited = FALSE /\ seen = 0
    /\ live = 0 /\ thread = [t \in Threads |-> "none"] /\ image = [t \in Threads |-> 0]
    /\ counts = [t \in Threads |-> TRUE] /\ callers = {} /\ request = Quiet /\ maker = "none"
    /\ tries = 0 /\ refused = 0 /\ answer = [c \in Callers |-> "none"]

--------------------------------------------------------------------------------
(* Threads: ps5_core_pthread_create and the factory. *)

\* Whose code a caller runs: the main thread's is the core being initialised, or any open one.
CodeOf(c) ==
    IF c # Main THEN {image[c]}
    ELSE CASE pc = "initializers" -> {closing}
           [] pc = "idle"         -> {modules[p].image : p \in Paths} \ {0}
           [] OTHER               -> {}
RunsCode(c) == IF c = Main THEN CodeOf(c) # {} ELSE thread[c] = "run"

\* The caller waits until the thread is created: it does nothing else.
Busy(c) == c \in callers

CleanNot == request.done  \* mutant
Clean == FALSE      \* request.done
Ask(c, t) ==
    /\ RunsCode(c) /\ callers = {} /\ thread[t] = "none" /\ callers' = {c}
    /\ thread' = [thread EXCEPT ![t] = "asked"]
    /\ \E i \in CodeOf(c) : image' = [image EXCEPT ![t] = i]
    /\ request' = [request EXCEPT !.by = c, !.thread = t, !.pending = TRUE, !.done = Clean]
    /\ UNCHANGED <<factory, live, loader, counts, maker, tries, refused, answer>>

\* create_core_thread counts the thread before it exists.
CountedNot == live  \* mutant
Counted == live + 1
Make ==
    /\ request.pending /\ maker = "none"
    /\ maker' = IF factory THEN "factory" ELSE "caller"
    /\ request' = [request EXCEPT !.pending = FALSE] /\ live' = Counted /\ tries' = 0
    /\ UNCHANGED <<factory, loader, runs, callers, refused, answer>>

AnswersNot == FALSE  \* mutant
Answers == TRUE
\* The result is in the request only when the factory made the thread; a caller returns its own.
Created ==
    /\ maker # "none" /\ thread' = [thread EXCEPT ![request.thread] = "born"] /\ maker' = "none"
    /\ request' = [request EXCEPT !.done = Answers, !.result = request.thread]
    /\ UNCHANGED <<factory, live, loader, image, counts, callers, tries, refused, answer>>

\* EAGAIN is tried again, and given up after so many times.
Refused ==
    /\ maker # "none" /\ refused < MaxRefused /\ refused' = refused + 1
    /\ IF tries < Retries
       THEN tries' = tries + 1 /\ UNCHANGED <<maker, request, live, runs>>
       ELSE /\ tries' = 0 /\ maker' = "none" /\ live' = live - 1
            /\ thread' = [thread EXCEPT ![request.thread] = "gone"]
            /\ request' = [request EXCEPT !.done = TRUE, !.result = "EAGAIN"]
            /\ UNCHANGED <<image, counts>>
    /\ UNCHANGED <<factory, loader, callers, answer>>

Return(c) ==
    /\ callers = {c} /\ request.done /\ callers' = {}
    /\ answer' = [answer EXCEPT ![c] = request.result]
    /\ UNCHANGED <<factory, live, loader, runs, request, maker, tries, refused>>

\* core_thread_trampoline: the count's end is registered before any of the thread's own
\* destructors, so that it runs last; where that fails, it comes before them.
Begin(t) ==
    /\ thread[t] = "born" /\ thread' = [thread EXCEPT ![t] = "run"]
    /\ \E ok \in BOOLEAN : counts' = [counts EXCEPT ![t] = ok]
    /\ UNCHANGED <<factory, live, loader, image, making>>

Finish(t) ==
    /\ thread[t] = "run" /\ ~Busy(t)
    /\ thread' = [thread EXCEPT ![t] = "destructors"]
    /\ live' = IF counts[t] THEN live ELSE live - 1
    /\ UNCHANGED <<factory, loader, image, counts, making>>

LastTwice(t) == live - 1  \* mutant
Last(t) == IF counts[t] THEN live - 1 ELSE live
Destructed(t) ==
    /\ thread[t] = "destructors" /\ thread' = [thread EXCEPT ![t] = "keys"]
    /\ live' = Last(t)
    /\ UNCHANGED <<factory, loader, image, counts, making>>

\* libkernel's key destructors, after which the thread is gone.
Gone(t) ==
    /\ thread[t] = "keys" /\ thread' = [thread EXCEPT ![t] = "gone"]
    /\ UNCHANGED <<factory, live, loader, image, counts, making>>

--------------------------------------------------------------------------------
(* ps5_core_dlopen and ps5_core_dlclose, on the main thread. *)

Known(p) == modules[p].image # 0
Held == {p \in Paths : Known(p)}

Reopen(p) ==
    /\ pc = "idle" /\ ~Busy(Main) /\ Known(p) /\ modules[p].references < 2
    /\ modules' = [modules EXCEPT ![p].references = @ + 1]
    /\ UNCHANGED <<factory, live, mapped, loads, pc, closing, waited, seen, runs, making>>

\* The image is reserved and filled (CoreImage); a load that fails gives everything back.
Open(p) ==
    /\ pc = "idle" /\ ~Busy(Main) /\ ~Known(p) /\ Cardinality(Held) < Capacity /\ loads < MaxLoads
    /\ loads' = loads + 1 /\ pc' = "initializers" /\ closing' = loads + 1
    /\ mapped' = mapped \cup {loads + 1}
    /\ UNCHANGED <<factory, live, modules, waited, seen, runs, making>>

\* The module is in the list once its initializers have run.
Opened(p) ==
    /\ pc = "initializers" /\ ~Busy(Main) /\ ~Known(p) /\ pc' = "idle" /\ closing' = 0
    /\ modules' = [modules EXCEPT ![p] = [image |-> closing, references |-> 1]]
    /\ UNCHANGED <<factory, live, mapped, loads, waited, seen, runs, making>>

Unreferenced(p) ==
    /\ pc = "idle" /\ ~Busy(Main) /\ Known(p) /\ modules[p].references > 1
    /\ modules' = [modules EXCEPT ![p].references = @ - 1]
    /\ UNCHANGED <<factory, live, mapped, loads, pc, closing, waited, seen, runs, making>>

LooksAtNone == 0  \* mutant
Looks == live
Close(p) ==
    /\ pc = "idle" /\ ~Busy(Main) /\ Known(p) /\ modules[p].references = 1
    /\ modules' = [modules EXCEPT ![p] = [image |-> 0, references |-> 0]]
    /\ closing' = modules[p].image /\ seen' = Looks /\ waited' = (Looks # 0)
    /\ pc' = IF Looks = 0 THEN "finalizers" ELSE "wait"
    /\ UNCHANGED <<factory, live, mapped, loads, runs, making>>

\* Every 10 ms, for two seconds.
Waits == pc = "wait" /\ live = 0
WaitsNoLonger ==
    /\ Waits /\ seen' = 0 /\ pc' = "settle"
    /\ UNCHANGED <<factory, live, modules, mapped, loads, closing, waited, runs, making>>
TimesOut ==
    /\ pc = "wait" /\ live # 0 /\ seen' = live /\ pc' = "finalizers"
    /\ UNCHANGED <<factory, live, modules, mapped, loads, closing, waited, runs, making>>

\* The moment given to the threads that have just counted themselves out is taken to be enough.
Settled == \A t \in Threads : thread[t] # "keys"
Settle ==
    /\ pc = "settle" /\ Settled /\ pc' = "finalizers"
    /\ UNCHANGED <<factory, live, modules, mapped, loads, closing, waited, seen, runs, making>>

\* The finalizers, which start no thread, then the memory, which stays when threads outlived the wait.
UnmapsAlways == TRUE  \* mutant
Unmaps == seen = 0
Finalize ==
    /\ pc = "finalizers" /\ pc' = "idle" /\ closing' = 0 /\ waited' = FALSE /\ seen' = 0
    /\ mapped' = IF Unmaps THEN mapped \ {closing} ELSE mapped
    /\ UNCHANGED <<factory, live, modules, loads, runs, making>>

Next ==
    \/ \E c \in Callers : Return(c) \/ \E t \in Threads : Ask(c, t)
    \/ Make \/ Created \/ Refused
    \/ \E t \in Threads : Begin(t) \/ Finish(t) \/ Destructed(t) \/ Gone(t)
    \/ \E p \in Paths : Reopen(p) \/ Open(p) \/ Opened(p) \/ Unreferenced(p) \/ Close(p)
    \/ WaitsNoLonger \/ TimesOut \/ Settle \/ Finalize

\* The factory, the callers and the closing thread go on; a core's thread may run for ever.
Closing == WaitsNoLonger \/ TimesOut \/ Settle \/ Finalize
Serving == Make \/ Created \/ \E c \in Callers : Return(c)
Ending == \E t \in Threads : Begin(t) \/ Destructed(t) \/ Gone(t)
Fairness == WF_vars(Closing) /\ WF_vars(Serving) /\ WF_vars(Ending)
Spec == Init /\ [][Next]_vars /\ Fairness

--------------------------------------------------------------------------------
\* The code of a thread stays mapped for as long as the thread runs it, its thread_local
\* destructors included (ps5_core_dlclose's wait, core_thread_trampoline's order).
CodeStaysMapped ==
    \A t \in Threads :
        (thread[t] \in {"born", "run"} \/ (thread[t] = "destructors" /\ counts[t])) => image[t] \in mapped

\* live_core_threads is the number of threads made, or being made, that have not finished.
Unfinished(t) ==
    \/ thread[t] \in {"born", "run"}
    \/ thread[t] = "destructors" /\ counts[t]
    \/ thread[t] = "asked" /\ maker # "none" /\ request.thread = t
LiveIsExact == live = Cardinality({t \in Threads : Unfinished(t)})

\* A caller is given the thread it asked for, or a refusal of that one: no answer of another
\* call (ps5_core_pthread_create's done).
OwnAnswer ==
    \A c \in callers : request.done =>
        /\ request.by = c /\ request.result \in {request.thread, "EAGAIN"}
        /\ thread[request.thread] \notin {"none", "asked"}

\* A core is closed, and a thread created or refused, within a bounded time, whatever the
\* core's threads do.
CoreCallsReturn ==
    /\ pc \in {"wait", "settle", "finalizers"} ~> pc = "idle"
    /\ \A c \in Callers : c \in callers ~> c \notin callers

\* Where the first look finds no thread there is no settling, although one may have counted
\* itself out just before it: its key destructors run in code that is unmapped under them.
KeysStayMapped == \A t \in Threads : thread[t] = "keys" => image[t] \in mapped
\* A count that could not be registered ends before the destructors, which are then not waited for.
DestructorsStayMapped == \A t \in Threads : thread[t] = "destructors" => image[t] \in mapped
\* The count is of every core's threads: one core kept mapped keeps those closed after it.
KeptForItsThreads ==
    \A i \in mapped : \/ i = closing \/ \E p \in Paths : modules[p].image = i
                      \/ \E t \in Threads : image[t] = i
==============================================================================

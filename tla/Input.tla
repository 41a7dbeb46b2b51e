------------------------------- MODULE Input -------------------------------
(* src/src/input_ps5.cpp: the frontend's thread scans the signed-in users,      *)
(* polls their controllers, tells RetroArch who comes and goes, sets the rumble *)
(* and gives the touchpad's motion to a stylus; each controller's haptic thread *)
(* plays the rumble, and falls back to its motors when its port goes dead.      *)
EXTENDS Integers, FiniteSets

CONSTANTS
    Users,      \* the users, Starter the one who started the title
    Starter,
    LastPort,   \* max_pads - 1
    MaxLevel,   \* the levels of a motor
    Width,      \* the touchpad's, in points
    Limit,      \* what a frame's motion is clamped to
    None,
    Bounds,     \* bounds: how often users sign in or out, binds are reset, haptic ports die, the
                \* driver is closed, the finger moves, and the rumble is set
    Parts       \* the parts of the driver exercised: subsets of {"users", "touch", "rumble"}

InputAssumption ==
    /\ Starter \in Users /\ None \notin Users /\ {LastPort, MaxLevel, Width, Limit} \subseteq Nat
    /\ Bounds \in [{"sign", "reset", "dead", "close", "touch", "rumble"} -> Nat]

Ports  == 0 .. LastPort
Motors == {"strong", "weak"}

VARIABLES
    signed,     \* the users signed in
    pads,       \* the controller on each port
    main,       \* where the frontend's thread is, and the port it is at
    leaving,    \* the controller being closed
    told,       \* the ports RetroArch was told have a controller
    finger,     \* the finger on the touchpad: which contact, and where
    stylus,     \* stylus_enabled(): a stylus core runs, its menu closed
    part,       \* the part of the driver this behaviour exercises
    left        \* what is left of the bounds

vars == <<signed, pads, main, leaving, told, finger, stylus, part, left>>

NoFinger == [id |-> 0, x |-> 0]
\* Touchpad, with what it gave and was moved since it was last cleared.
NoTouch  == [active |-> FALSE, id |-> 0, x |-> 0, pending |-> 0, frame |-> 0, given |-> 0, moved |-> 0, cut |-> FALSE]
NoPad    == [user |-> None]
Opened(u, haptic) ==
    [user |-> u, connected |-> FALSE, sampled |-> FALSE, announced |-> FALSE, touch |-> NoTouch,
     level |-> [m \in Motors |-> 0], motors |-> [m \in Motors |-> 0], lock |-> "free",
     read |-> [m \in Motors |-> 0], haptic |-> haptic, stop |-> FALSE, thread |-> IF haptic THEN "plays" ELSE "none"]

Held(p) == pads[p].user # None

TypeOK ==
    /\ signed \subseteq Users /\ told \subseteq Ports /\ DOMAIN pads = Ports
    /\ \A p \in Ports : pads[p].user \in Users \cup {None}
    /\ main.pc \in {"off", "out", "leave", "enter", "read", "rumble", "destroy"} /\ finger.x \in 0 .. Width
    /\ leaving.user \in Users \cup {None} /\ stylus \in BOOLEAN
    /\ \A p \in Ports : Held(p) =>
        /\ pads[p].level \in [Motors -> 0 .. MaxLevel] /\ pads[p].motors \in [Motors -> 0 .. MaxLevel]
        /\ pads[p].touch.pending \in -Limit .. Limit /\ pads[p].lock \in {"free", "main", "thread"}

Out == [pc |-> "out", port |-> 0, left |-> {}, list |-> {}]
Scan == [pc |-> "leave", port |-> 1, left |-> signed, list |-> signed]
At(pc) == main.pc = pc

Init ==
    /\ part \in Parts
    /\ signed \in {S \in SUBSET Users : Starter \in S /\ (part # "users" => S = {Starter})}
    /\ pads = [p \in Ports |-> NoPad]
    /\ main = [Out EXCEPT !.pc = "off"] /\ leaving = NoPad /\ told = {}
    /\ finger = NoFinger /\ stylus = FALSE
    /\ left = Bounds

Spend(b) == left[b] > 0 /\ left' = [left EXCEPT ![b] = @ - 1]
Pad(p, v) == pads' = [pads EXCEPT ![p] = v]

-------------------------------------------------------------------------------
(* Users and ports: joypad_init, scan_users, release_port, joypad_destroy. *)

\* open_pad: no controller, one with a haptic stream, or one with motors only.
Opens(u) == (IF part = "users" THEN {NoPad} ELSE {Opened(u, TRUE)}) \cup {Opened(u, FALSE)}

\* joypad_init: the user who started the title takes port 0; then the users are scanned.
JoypadInit ==
    /\ At("off") /\ \E c \in Opens(Starter) : Pad(0, c)
    /\ main' = Scan
    /\ UNCHANGED <<signed, leaving, told, finger, stylus, part, left>>

Closing == leaving.user # None

\* release_port: RetroArch is told, the port is free, and the controller is closed.
Releases(p) == Held(p) /\ pads[p].user \notin main.list
TellGoneNot(p) == told  \* mutant
TellGone(p) == IF pads[p].announced THEN told \ {p} ELSE told

ScanLeave ==
    /\ At("leave") /\ ~Closing
    /\ IF main.port > LastPort
       THEN main' = [main EXCEPT !.pc = "enter", !.port = 0] /\ UNCHANGED <<pads, told, leaving>>
       ELSE /\ main' = [main EXCEPT !.port = @ + 1]
            /\ IF Releases(main.port)
               THEN /\ told' = TellGone(main.port)
                    /\ leaving' = [pads[main.port] EXCEPT !.stop = TRUE] /\ Pad(main.port, NoPad)
               ELSE UNCHANGED <<pads, told, leaving>>
    /\ UNCHANGED <<signed, finger, stylus, part, left>>

\* close_pad: it waits for the haptic thread, then closes the controller.
CloseEnds ==
    /\ Closing /\ leaving.thread \in {"none", "ended"} /\ leaving' = NoPad
    /\ UNCHANGED <<signed, pads, main, told, finger, stylus, part, left>>

Known(u) == \E p \in Ports : pads[p].user = u
FreePort == {p \in Ports : ~Held(p) /\ \A q \in 0 .. p - 1 : Held(q)}

\* A user whose controller no port has takes the first free port; the users are read in order.
ScanEnter ==
    /\ At("enter")
    /\ IF main.left = {} THEN main' = [Out EXCEPT !.pc = "read", !.list = main.list] /\ UNCHANGED pads
       ELSE LET u == CHOOSE u \in main.left : TRUE IN
            /\ main' = [main EXCEPT !.left = @ \ {u}]
            /\ IF Known(u) \/ FreePort = {} THEN UNCHANGED pads
               ELSE \E p \in FreePort, c \in Opens(u) : Pad(p, c)
    /\ UNCHANGED <<signed, leaving, told, finger, stylus, part, left>>

\* joypad_poll: the users are read again when a second has passed.
Poll ==
    /\ At("out")
    /\ main' = IF part = "users" THEN Scan ELSE [Out EXCEPT !.pc = "read"]
    /\ UNCHANGED <<signed, pads, leaving, told, finger, stylus, part, left>>

\* joypad_destroy closes every controller; RetroArch forgets what a driver that ends had.
Destroy ==
    /\ At("out") /\ Spend("close") /\ main' = [Out EXCEPT !.pc = "destroy"] /\ told' = {}
    /\ UNCHANGED <<signed, pads, leaving, finger, stylus, part>>
DestroyPort ==
    /\ At("destroy") /\ ~Closing
    /\ IF main.port > LastPort THEN main' = [Out EXCEPT !.pc = "off"] /\ UNCHANGED <<pads, leaving>>
       ELSE /\ main' = [main EXCEPT !.port = @ + 1] /\ Pad(main.port, NoPad)
            /\ leaving' = IF Held(main.port) THEN [pads[main.port] EXCEPT !.stop = TRUE] ELSE leaving
    /\ UNCHANGED <<signed, told, finger, stylus, part, left>>

-------------------------------------------------------------------------------
(* One controller's poll: poll_pad, then what RetroArch is told. *)

Clamp(n) == IF n > Limit THEN Limit ELSE IF n < -Limit THEN -Limit ELSE n

\* The motion of a finger that stays is added to what no frame has given yet.
PendingLast(t, d) == Clamp(d)  \* mutant
Pending(t, d) == Clamp(t.pending + d)
Touched(t) ==
    LET same == t.active /\ finger.id = t.id
        d    == IF same THEN finger.x - t.x ELSE 0 IN
    IF finger = NoFinger THEN [t EXCEPT !.active = FALSE, !.id = 0, !.x = 0]
    ELSE [t EXCEPT !.active = TRUE, !.id = finger.id, !.x = finger.x,
            !.pending = IF same THEN Pending(t, d) ELSE @, !.moved = @ + d,
            !.cut = @ \/ Clamp(t.pending + d) # t.pending + d]

\* scePadRead: nothing new, a refusal, or samples, the newest with its user's controller there
\* or not, the console's menus over the game or not.
Reads(p) == IF part = "rumble" THEN {[kind |-> "none"]} ELSE
            {[kind |-> "none"], [kind |-> "refused"]} \cup
            [kind : {"samples"}, there : BOOLEAN, intercepted : IF part = "touch" THEN BOOLEAN ELSE {FALSE}]
Read(p, r) ==
    LET c == IF p # 0 \/ ~stylus THEN [pads[p] EXCEPT !.touch = NoTouch] ELSE pads[p] IN
    CASE r.kind = "none"    -> c
      [] r.kind = "refused" -> [c EXCEPT !.sampled = FALSE, !.touch = NoTouch]
      [] r.kind = "samples" ->
            [c EXCEPT !.sampled = TRUE, !.connected = r.there,
                      !.touch = IF r.there /\ ~r.intercepted /\ p = 0 /\ stylus THEN Touched(@) ELSE NoTouch]

\* The shell's interception is no disconnection.
Connected(c) == c.sampled /\ c.connected

ReadPad(p, r) ==
    /\ At("read") /\ main.port = p
    /\ main' = IF p = LastPort THEN [Out EXCEPT !.list = main.list] ELSE [main EXCEPT !.port = p + 1]
    /\ IF ~Held(p) THEN UNCHANGED <<pads, told>>
       ELSE LET c == Read(p, r) IN
            /\ Pad(p, [c EXCEPT !.announced = Connected(c)])
            /\ told' = IF Connected(c) = c.announced THEN told
                       ELSE IF Connected(c) THEN told \cup {p} ELSE told \ {p}
    /\ UNCHANGED <<signed, leaving, finger, stylus, part, left>>

\* ps5_input_reset_autoconfig: RetroArch's binds are gone; the next poll tells of each again.
ResetAutoconfig ==
    /\ At("out") /\ part = "users" /\ Spend("reset")
    /\ pads' = [p \in Ports |-> IF Held(p) THEN [pads[p] EXCEPT !.announced = FALSE] ELSE NoPad]
    /\ UNCHANGED <<signed, main, leaving, told, finger, stylus, part>>

\* ps5_input_poll: a frame's motion is what has come since the last one.
InputPoll ==
    /\ At("out") /\ Held(0) /\ part = "touch"
    /\ LET t == IF stylus THEN pads[0].touch ELSE NoTouch IN
       Pad(0, [pads[0] EXCEPT !.touch = [t EXCEPT !.frame = t.pending, !.pending = 0, !.given = @ + t.pending]])
    /\ UNCHANGED <<signed, main, leaving, told, finger, stylus, part, left>>

-------------------------------------------------------------------------------
(* Rumble: joypad_set_rumble, and haptic_worker when its port goes dead. *)

\* Under the controller's lock: the level, ...
SetRumble(p, m, v) ==
    /\ At("out") /\ part = "rumble" /\ Held(p) /\ pads[p].lock = "free" /\ Spend("rumble")
    /\ Pad(p, [pads[p] EXCEPT !.lock = "main", !.level[m] = v])
    /\ main' = [Out EXCEPT !.pc = "rumble", !.port = p]
    /\ UNCHANGED <<signed, leaving, told, finger, stylus, part>>
\* ... then both motors' levels, unless the haptic stream plays them.
SendRumble ==
    /\ At("rumble") /\ main' = Out
    /\ Pad(main.port, [pads[main.port] EXCEPT !.lock = "free",
                                              !.motors = IF pads[main.port].haptic THEN @ ELSE pads[main.port].level])
    /\ UNCHANGED <<signed, leaving, told, finger, stylus, part, left>>

\* The port did not answer forty times: under the lock the motors are the rumble's again, ...
TakesAnyway(c) == TRUE  \* mutant
TakesLock(c) == c.lock = "free"
Falls(c) == [c EXCEPT !.lock = "thread", !.haptic = FALSE, !.read = c.level, !.thread = "falls"]
\* ... with the levels it reads there,
Fallen(c) == [c EXCEPT !.lock = "free", !.motors = c.read, !.thread = "ended"]

HapticDies(p) ==
    /\ Held(p) /\ pads[p].thread = "plays" /\ part = "rumble" /\ TakesLock(pads[p]) /\ Spend("dead")
    /\ Pad(p, Falls(pads[p])) /\ UNCHANGED <<signed, main, leaving, told, finger, stylus, part>>
HapticFalls(p) ==
    /\ Held(p) /\ pads[p].thread = "falls" /\ Pad(p, Fallen(pads[p]))
    /\ UNCHANGED <<signed, main, leaving, told, finger, stylus, part, left>>
\* and the thread of a controller that is closed ends.
HapticEnds ==
    /\ Closing /\ leaving.stop
    /\ \/ leaving.thread = "plays" /\ leaving' = [leaving EXCEPT !.thread = "ended"]
       \/ leaving.thread = "falls" /\ leaving' = Fallen(leaving)
    /\ UNCHANGED <<signed, pads, main, told, finger, stylus, part, left>>

-------------------------------------------------------------------------------
(* The users, the finger and the core. *)

SignIn(u)  == u \notin signed /\ signed' = signed \cup {u}
SignOut(u) == u \in signed /\ signed' = signed \ {u}
Sign ==
    /\ part = "users" /\ Spend("sign") /\ (\E u \in Users : SignIn(u) \/ SignOut(u))
    /\ UNCHANGED <<pads, main, leaving, told, finger, stylus, part>>

\* A new contact has a new number.
Finger ==
    /\ part = "touch" /\ Spend("touch")
    /\ finger' \in {NoFinger} \cup [id : {left.touch}, x : 0 .. Width] \cup [id : {finger.id} \ {0}, x : 0 .. Width]
    /\ UNCHANGED <<signed, pads, main, leaving, told, stylus, part>>
Stylus ==
    /\ part = "touch" /\ stylus' = ~stylus
    /\ UNCHANGED <<signed, pads, main, leaving, told, finger, part, left>>

Next ==
    \/ JoypadInit \/ ScanLeave \/ CloseEnds \/ ScanEnter \/ Poll \/ Destroy \/ ResetAutoconfig
    \/ \E p \in Ports : \E r \in Reads(p) : ReadPad(p, r)
    \/ DestroyPort \/ InputPoll \/ SendRumble \/ HapticEnds \/ Sign \/ Finger \/ Stylus
    \/ \E p \in Ports : HapticDies(p) \/ HapticFalls(p)
    \/ \E p \in Ports, m \in Motors, v \in 0 .. MaxLevel : SetRumble(p, m, v)

Spec == Init /\ [][Next]_vars

-------------------------------------------------------------------------------
(* Properties *)

\* A controller's motors or its haptic stream have the levels set last, whichever of the two
\* threads ran when its port went dead (src/src/input_ps5.cpp:664).
RumbleIsFelt == \A p \in Ports : Held(p) /\ pads[p].lock = "free" =>
    \/ pads[p].haptic /\ pads[p].thread = "plays"
    \/ ~pads[p].haptic /\ pads[p].motors = pads[p].level

\* The stylus is given every point the finger moved, once: "binding polls lose no motion",
\* and a new contact adds no jump (src/src/input_ps5.cpp:1471).
MotionKept == LET t == pads[0].touch IN Held(0) /\ ~t.cut => t.given + t.pending = t.moved

\* A user has one port, and after a scan no port but the first has a user who signed out;
\* RetroArch knows the controllers on the ports, unless its binds were just cleared.
PortsAreUsers ==
    /\ \A p, q \in Ports : Held(p) /\ pads[p].user = pads[q].user => p = q
    /\ At("read") /\ part = "users" => \A p \in Ports \ {0} : Held(p) => pads[p].user \in main.list
    /\ (~At("destroy")) /\ left.reset = Bounds.reset => told = {p \in Ports : Held(p) /\ pads[p].announced}

\* What the documents say and the code does not keep: port 0 is the user's who started the title
\* (src/src/input_ps5.cpp:21), and RetroArch is told of a controller let go (:862).
StarterIsFirst == Held(0) => pads[0].user = Starter
GoneIsTold == At("out") => \A p \in told : Held(p)
=============================================================================

------------------------------- MODULE Settings -------------------------------
(***************************************************************************)
(* The settings the WebUI edits and RetroArch reads (src/src/webui_ps5.cpp,  *)
(* src/src/ps5_cheevos.c, src/src/main.cpp).  The server runs in the daemon,   *)
(* beside the title: it keeps its edits in files of its own, which the title   *)
(* applies at its next start, and RetroArch saves its own files when it quits.  *)
(* Three settings stand for the rest: a quick one, a core's option, and the      *)
(* RetroAchievements account, whose name and password a page saves together, with *)
(* its token.  A core's own settings (.cfg) go the way of its options, without the *)
(* marker.                                                                        *)
(***************************************************************************)
EXTENDS Naturals, TLC

CONSTANTS
    Accounts,   \* the RetroAchievements accounts
    Pages,      \* the browser pages that edit
    MaxEdits,   \* bound: the edits the server accepts
    MaxStarts,  \* bound: the starts of the title
    MaxCores,   \* bound: how often the core is removed or put back
    MaxFails,   \* bound: the failures to write a core's marker, or to forget a password
    EarlyCrash, \* bound: the crashes before RetroArch runs
    LateCrash   \* bound: the crashes once it runs

Unset == "unset"
Empty == ""
SettingsAssumption ==
    /\ {MaxEdits, MaxStarts, MaxFails, MaxCores, EarlyCrash, LateCrash} \subseteq Nat
    /\ Accounts # {} /\ Unset \notin Accounts /\ Empty \notin Accounts

VARIABLES
    web,       \* config/webui.cfg
    ra,        \* retroarch.cfg
    pending,   \* config/webui-cores/<core>.opt: the option, NoValue when it is not there
    profile,   \* config/<core>/<core>.opt
    installed, \* the core's binary is in cores/, with its catalog
    marker,    \* config/<core>/ps5-default-profile-v1
    pc,        \* where the title is
    held,      \* what it read from the file it is about to write
    mem,       \* RetroArch's settings
    option,    \* the core's option in the running core, NoValue when none is loaded
    request,   \* the server's request: what it read, and will write
    seen,      \* what each page shows
    wanted,    \* the last account, the last option the server said it saved
    saved,     \* a password was saved that RetroArch has not yet signed in with, or forgotten
    disturbed, \* an account was saved over one not signed in yet, or a crash lost the token
    met,       \* the server and the title each read a file the other was about to write
    left       \* what remains of each bound

title == <<pc, held, mem, option>>
notes == <<saved, disturbed, met>>
files == <<web, ra, pending, profile, marker, installed>>
vars  == <<web, ra, pending, profile, marker, installed, pc, held, mem, option, request, seen, wanted, notes, left>>

Keys  == {"vol", "user", "pass", "token"}
NoValue == MaxEdits + 1
Void(k) == IF k = "vol" THEN NoValue ELSE Unset
Nothing == [k \in Keys |-> Void(k)]
NotHeld == [file |-> Nothing, option |-> NoValue]
Idle == [kind |-> "none"]
Values == 0 .. NoValue

TypeOK ==
    /\ \A f \in {web, ra, mem} :
        /\ DOMAIN f = Keys /\ f.vol \in Values /\ f.user \in Accounts \cup {Unset}
        /\ {f.pass, f.token} \subseteq Accounts \cup {Unset, Empty}
    /\ {pending, profile, option, wanted.option} \subseteq Values
    /\ {marker, installed, saved, disturbed, met} \subseteq BOOLEAN /\ wanted.account \in Accounts
    /\ pc \in {"off", "apply", "write", "mark", "clear", "start", "menu",
                "forget", "forgetting", "forget ra", "play"}
    /\ request.kind \in {"none", "account", "quick", "options"}
    /\ \A b \in DOMAIN left : left[b] \in Nat

\* overlay: the values of the second file win.
Over(under, over) == [k \in Keys |-> IF over[k] = Void(k) THEN under[k] ELSE over[k]]
\* global_values: the defaults, retroarch.cfg, webui.cfg.
Global == Over(Over([Nothing EXCEPT !.vol = 0, !.user = Empty, !.pass = Empty], ra), web)
\* config_editor's baseline for a core's options: the profile under what is pending.
Option == IF pending = NoValue THEN profile ELSE pending
\* core_profiles: the cores installed, and those with a profile of their own.
Known == installed \/ profile # NoValue
Baseline == [global |-> Global, option |-> Option]

Init ==
    /\ \E a \in Accounts : LET kept == [Nothing EXCEPT !.user = a, !.token = a] IN
        /\ web = Nothing /\ ra = kept /\ mem = Nothing
        /\ wanted = [account |-> a, option |-> NoValue]
    /\ pending = NoValue /\ profile = NoValue /\ marker = FALSE /\ installed = TRUE
    /\ pc = "off" /\ held = NotHeld /\ option = NoValue
    /\ request = Idle /\ seen = [p \in Pages |-> Baseline]
    /\ saved = FALSE /\ disturbed = FALSE /\ met = FALSE
    /\ left = [edits |-> MaxEdits, starts |-> MaxStarts, fails |-> MaxFails, cores |-> MaxCores,
                early |-> EarlyCrash, late |-> LateCrash]

Spend(b) == left[b] > 0 /\ left' = [left EXCEPT ![b] = @ - 1]

--------------------------------------------------------------------------------
(* The server: one request at a time under state_lock, in another process. *)

\* A page loads a scope: config_editor answers a GET with its values and their revision.
Load(p, scope) ==
    /\ request = Idle /\ seen[p][scope] # Baseline[scope] /\ (scope = "option" => Known)
    /\ seen' = [seen EXCEPT ![p][scope] = Baseline[scope]]
    /\ UNCHANGED <<files, title, request, wanted, notes, left>>

SigningKept(file, a) == [file EXCEPT !.user = a, !.pass = a]          \* mutant
\* A new account, or a new password, takes the old account's token away.
Signing(file, a) == [file EXCEPT !.user = a, !.pass = a,
                        !.token = IF Global.user # a \/ Global.pass # a THEN Empty ELSE @]

\* The title has read the file a request of this kind is about to write.
TitleHolds(kind) == IF kind = "options" THEN pc \in {"write", "mark", "clear"} ELSE pc = "forgetting"

\* The editor's POST is refused (409) when anything of the scope has changed since.
MayEdit(p, scope) == seen[p][scope] = Baseline[scope]
Read(kind, to, account, value) ==
    /\ request = Idle /\ Spend("edits")
    /\ request' = [kind |-> kind, to |-> to, account |-> account, option |-> value]
    /\ met' = (met \/ TitleHolds(kind))
    /\ UNCHANGED <<files, title, seen, wanted, saved, disturbed>>
EditAccount(p, a) == MayEdit(p, "global") /\ Read("account", Signing(web, a), a, wanted.option)
\* save_settings, which asks for no revision and keeps webui.cfg's other values.
EditQuick == Read("quick", [web EXCEPT !.vol = left.edits], wanted.account, wanted.option)
\* The core's option goes to its pending file.
EditOption(p) == Known /\ MayEdit(p, "option") /\ Read("options", left.edits, wanted.account, left.edits)

\* RetroArch has read a password it has yet to sign in with and forget.
Signs == pc \in {"forget", "forgetting", "forget ra"} \/ (pc = "menu" /\ mem.token \notin Accounts)
\* write_config: whole, by a rename; then the answer.
Answer ==
    /\ request # Idle
    /\ \/ request.kind \in {"account", "quick"} /\ web' = request.to /\ UNCHANGED pending
       \/ request.kind = "options" /\ pending' = request.to /\ UNCHANGED web
    /\ wanted' = [account |-> request.account, option |-> request.option]
    /\ LET account == request.kind = "account" IN
        /\ saved' = (saved \/ account)
        /\ disturbed' = (disturbed \/ (account /\ Signs))
    /\ request' = Idle
    /\ UNCHANGED <<ra, profile, marker, installed, title, seen, met, left>>
\* The write failed: 500, and the file is as it was.
Refuse ==
    /\ request # Idle /\ request' = Idle
    /\ UNCHANGED <<files, title, seen, wanted, notes, left>>

--------------------------------------------------------------------------------
(* The title's start: ps5_webui_prepare, then RetroArch reads its files. *)

Goto(p) == pc' = p

Start ==
    /\ pc = "off" /\ Spend("starts") /\ Goto("apply")
    /\ UNCHANGED <<files, held, mem, option, request, seen, wanted, notes>>

\* apply_core_settings: what is pending goes over the core's own options,
Apply ==
    /\ pc = "apply"
    /\ held' = [NotHeld EXCEPT !.option = pending] /\ Goto(IF pending = NoValue \/ ~Known THEN "start" ELSE "write")
    /\ met' = (met \/ request.kind = "options")
    /\ UNCHANGED <<files, mem, option, request, seen, wanted, saved, disturbed, left>>
\* which a failed write leaves pending;
ApplyWrite ==
    /\ pc = "write"
    /\ \/ profile' = held.option /\ Goto("mark")
       \/ profile' = profile /\ Goto("start")
    /\ UNCHANGED <<web, ra, pending, marker, installed, held, mem, option, request, seen, wanted, notes, left>>
\* the core's own first use must not set the edit aside: without the marker it stays pending.
Marked == "clear"
UnmarkedCleared == "clear"                                              \* mutant
Unmarked == "start"
ApplyMark ==
    /\ pc = "mark"
    /\ \/ marker' = TRUE /\ Goto(Marked) /\ UNCHANGED left
       \/ ~marker /\ Spend("fails") /\ Goto(Unmarked) /\ UNCHANGED marker
    /\ UNCHANGED <<web, ra, pending, profile, installed, held, mem, option, request, seen, wanted, notes>>
ApplyClear ==
    /\ pc = "clear"
    /\ pending' \in {NoValue, pending} /\ Goto("start")
    /\ UNCHANGED <<web, ra, profile, marker, installed, held, mem, option, request, seen, wanted, notes, left>>

\* --appendconfig: webui.cfg is read over retroarch.cfg.
ReadConfig ==
    /\ pc = "start" /\ mem' = Over(ra, web) /\ held' = NotHeld /\ Goto("menu")
    /\ UNCHANGED <<files, option, request, seen, wanted, notes, left>>

--------------------------------------------------------------------------------
(* RetroArch. *)

\* With a token it signs in with the token, else with the password, for which it gets a token.
SignIn ==
    /\ pc = "menu"
    /\ mem.token \in {Empty, Unset} /\ mem.pass \in Accounts /\ mem.pass = mem.user
    /\ mem' = [mem EXCEPT !.token = mem.pass, !.pass = Empty]
    /\ Goto("forget") /\ saved' = FALSE
    /\ UNCHANGED <<files, held, option, request, seen, wanted, disturbed, met, left>>

\* ps5_cheevos_forget_password: the lines leave webui.cfg, then retroarch.cfg's password; a file
\* that cannot be rewritten is left as it is.
ForgetRead ==
    /\ pc = "forget" /\ held' = [NotHeld EXCEPT !.file = web] /\ Goto("forgetting")
    /\ met' = (met \/ request.kind \in {"account", "quick"})
    /\ UNCHANGED <<files, mem, option, request, seen, wanted, saved, disturbed, left>>
Without(f, gone) == [k \in Keys |-> IF k \in gone THEN Void(k) ELSE f[k]]
KeptBoth(f) == f                                                       \* mutant
Kept(f) == Without(f, {"pass", "token"})
ForgetWrite ==
    /\ pc = "forgetting" /\ held' = NotHeld /\ Goto("forget ra")
    /\ \/ web' = Kept(held.file) /\ UNCHANGED <<saved, left>>
       \/ UNCHANGED web /\ saved' = TRUE /\ Spend("fails")
    /\ UNCHANGED <<ra, pending, profile, marker, installed, mem, option, request, seen, wanted, disturbed, met>>
ForgetOwn ==
    /\ pc = "forget ra" /\ Goto("play")
    /\ \/ ra' = Without(ra, {"pass"}) /\ UNCHANGED <<saved, left>>
       \/ UNCHANGED ra /\ saved' = TRUE /\ Spend("fails")
    /\ UNCHANGED <<web, pending, profile, marker, installed, held, mem, option, request, seen, wanted, disturbed, met>>

\* A core is loaded. Until its marker is there it sets the options of an earlier core aside, by a
\* rename that may fail, as may the marker; RetroArch then reads the options that are left.
SetAside ==
    IF marker THEN UNCHANGED <<profile, marker, left>>
    ELSE /\ profile' \in {NoValue, profile}
         /\ \/ marker' = TRUE /\ UNCHANGED left
            \/ UNCHANGED marker /\ Spend("fails")
LoadCore ==
    /\ pc \in {"menu", "play"} /\ option = NoValue /\ installed
    /\ SetAside
    /\ option' = IF profile' = NoValue THEN 0 ELSE profile'
    /\ UNCHANGED <<web, ra, pending, installed, pc, held, mem, request, seen, wanted, notes>>
\* It quits: the core's options and its own settings are saved.
Quit ==
    /\ pc \in {"menu", "play"} /\ Goto("off")
    /\ profile' = (IF option = NoValue THEN profile ELSE option)
    /\ ra' = mem /\ mem' = Nothing /\ option' = NoValue
    /\ UNCHANGED <<web, pending, marker, installed, held, request, seen, wanted, notes, left>>

\* A deploy removes the core, or puts it back.
CoreChanges ==
    /\ pc = "off" /\ Spend("cores") /\ installed' = ~installed
    /\ UNCHANGED <<web, ra, pending, profile, marker, title, request, seen, wanted, notes>>

Crash ==
    /\ pc # "off" /\ Spend(IF pc \in {"forget", "forgetting", "forget ra", "play"} THEN "late" ELSE "early")
    /\ Goto("off") /\ held' = NotHeld /\ mem' = Nothing /\ option' = NoValue
    /\ disturbed' = (disturbed \/ pc \in {"forgetting", "forget ra", "play"})
    /\ saved' = (saved \/ pc \in {"forget", "forgetting", "forget ra"})
    /\ UNCHANGED <<files, request, seen, wanted, met>>

Edit == \/ EditQuick
        \/ \E p \in Pages : (\E scope \in {"global", "option"} : Load(p, scope)) \/ EditOption(p) \/ \E a \in Accounts : EditAccount(p, a)
Next == \/ Edit \/ Answer \/ Refuse
        \/ Start \/ Apply \/ ApplyWrite \/ ApplyMark \/ ApplyClear \/ ReadConfig
        \/ SignIn \/ ForgetRead \/ ForgetWrite \/ ForgetOwn \/ LoadCore \/ Quit \/ CoreChanges \/ Crash

Spec == Init /\ [][Next]_vars

--------------------------------------------------------------------------------
(* Properties *)

\* An option the page was told is saved is what the next start gives the core: it is
\* pending, or in the core's own file and safe from the core's first use, although
\* RetroArch saves that file when it quits (src/src/webui_ps5.cpp:884). Two processes that
\* read one file and both write it lose one of the edits: met says they did.
EditKept ==
    \/ met
    \/ wanted.option \in {NoValue, pending}
    \/ pending = NoValue /\ profile = wanted.option /\ marker

\* Between two runs of the title the files hold what it needs to sign in with the account
\* saved last: its token, or its password with the other account's token out of the way
\* (src/src/ps5_cheevos.c:3, src/src/webui_ps5.cpp:830).
AccountAlwaysKept ==
    LET next == Over(ra, web) IN
    (pc = "off" /\ request = Idle) =>
        /\ next.user = wanted.account
        /\ next.token = wanted.account \/ (next.token \in {Empty, Unset} /\ next.pass = wanted.account)
AccountKept == disturbed \/ met \/ AccountAlwaysKept

\* Once RetroArch has signed in, the password it used stays in neither file, whatever its own
\* saves and the page's edits do meanwhile (src/src/ps5_cheevos.c:9).
PasswordForgotten ==
    (pc \in {"off", "play"} /\ request = Idle /\ ~saved /\ ~met) => {ra.pass, web.pass} \cap Accounts = {}
================================================================================

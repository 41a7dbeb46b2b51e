-------------------------------- MODULE Link --------------------------------
(***************************************************************************)
(* The link (src/webui_link.cpp) between the title's programs and the      *)
(* WebUI's daemon (daemon/webui_daemon.cpp): one program of the title runs *)
(* at a time, finds a daemon or has one started, and stays connected to    *)
(* it; the daemon serves the WebUI, asks for the title to close before it  *)
(* installs an update, and gives way to the daemon of another build.  With *)
(* no daemon, RetroArch serves the WebUI itself (src/main.cpp).            *)
(*                                                                         *)
(* Delays are choices, save the ones that Budget bounds.  The folder is    *)
(* its build; what install() does to it is in Update.                      *)
(***************************************************************************)
EXTENDS Integers, Sequences, FiniteSets

CONSTANTS
    Daemons, Conns,   \* bounds: the daemons alive, and the connections open, at once
    MaxBuild,         \* bound: the builds the folder may hold, 1..MaxBuild
    Budget,           \* bound: how often each of Events may happen
    Title, None

Events == {"launch", "late", "upload", "fetch", "replace", "crash"}

ASSUME LinkAssumption ==
    /\ IsFiniteSet(Daemons) /\ IsFiniteSet(Conns)
    /\ MaxBuild \in Nat \ {0}
    /\ Budget \in [Events -> Nat]
    /\ None \notin Daemons \cup Conns \cup {Title} /\ Title \notin Daemons

VARIABLES
    at, cur, tried, told,  \* the link's thread: its next step, link_fd, loader_tried, install
    server,                \* main(): whether it may serve the WebUI itself
    conn,                  \* each connection: its two ends, what is sent and not read
    loading,               \* the daemons given to the loader and not run yet
    listening, http,       \* who has ports 6770 and 6769
    life, root, web,       \* each daemon: its loop, the build it began with, start_state
    stale, wanted, sent, installed,        \* the daemons whose flag of that name is set
    busy, updating,                        \* transfers in flight; downloads and scraping
    build,                 \* webui/version.json
    budget

program == <<at, cur, tried, told, server>>
daemon  == <<life, root, web, stale, wanted, sent, installed, busy, updating>>
vars    == <<program, conn, loading, listening, http, daemon, build, budget>>

NoConn == [d |-> None, open |-> FALSE, here |-> FALSE, hello |-> "none", out |-> <<>>]

TypeOK ==
    /\ at \in {"off", "connect", "start", "wait", "hello", "reply", "stale",
               "linked", "alone"}
    /\ cur \in Conns \cup {None}
    /\ (cur # None) = (at \in {"hello", "reply", "linked"})
    /\ tried \in BOOLEAN /\ told \in BOOLEAN
    /\ server \in {"never", "waiting", "decided"}
    /\ conn \in [Conns -> [d : Daemons \cup {None}, open : BOOLEAN, here : BOOLEAN,
                           hello : {"none", "sent", "counted"},
                           out : Seq({"ok", "stale", "unknown", "install"})]]
    /\ loading \in Nat
    /\ listening \in Daemons \cup {None}
    /\ http \in Daemons \cup {Title, None}
    /\ life \in [Daemons -> {"off", "up", "installing", "stopping", "leaving"}]
    /\ root \in [Daemons -> 0..MaxBuild]
    /\ web \in [Daemons -> {"no", "starting", "yes"}]
    /\ \A flag \in {stale, wanted, sent, installed, busy, updating} : flag \subseteq Daemons
    /\ build \in 1..MaxBuild
    /\ budget \in [Events -> Nat]

Init ==
    /\ at = "off" /\ cur = None /\ tried = FALSE /\ told = FALSE /\ server = "never"
    /\ conn = [c \in Conns |-> NoConn]
    /\ loading = 0 /\ listening = None /\ http = None
    /\ life = [d \in Daemons |-> "off"]
    /\ root = [d \in Daemons |-> 0]
    /\ web = [d \in Daemons |-> "no"]
    /\ stale = {} /\ wanted = {} /\ sent = {} /\ installed = {}
    /\ busy = {} /\ updating = {}
    /\ build = 1
    /\ budget = Budget

Spend(event) == /\ budget[event] > 0
                /\ budget' = [budget EXCEPT ![event] = @ - 1]

\* One end of a connection closes; what was sent before can still be read.
ProgramEnd(k) == IF k.here THEN [k EXCEPT !.open = FALSE, !.out = <<>>] ELSE NoConn
DaemonEnd(k)  == IF k.open THEN [k EXCEPT !.here = FALSE, !.hello = "none"] ELSE NoConn
Send(k, line) == IF k.open THEN [k EXCEPT !.out = Append(@, line)] ELSE k

Counted(d) == {c \in Conns : conn[c].d = d /\ conn[c].hello = "counted"}

-----------------------------------------------------------------------------
(* A program of the title: its life, and the thread of run().              *)

\* RetroArch waits for the link before it serves; the other programs do not.
Launch ==
    /\ at = "off"
    /\ Spend("launch")
    /\ at' = "connect" /\ tried' = FALSE /\ told' = FALSE
    /\ server' \in {"never", "waiting"}
    /\ UNCHANGED <<cur, conn, loading, listening, http, daemon, build>>

\* The title closes, or a LoadExec leaves the program, or it crashes.
Exit ==
    /\ at # "off"
    /\ at' = "off" /\ cur' = None /\ tried' = FALSE /\ told' = FALSE /\ server' = "never"
    /\ conn' = IF cur = None THEN conn ELSE [conn EXCEPT ![cur] = ProgramEnd(@)]
    /\ http' = IF http = Title THEN None ELSE http
    /\ UNCHANGED <<loading, listening, daemon, build, budget>>

Connected ==
    /\ listening # None
    /\ \E c \in Conns :
        /\ conn[c] = NoConn
        /\ conn' = [conn EXCEPT ![c] = [NoConn EXCEPT !.d = listening, !.open = TRUE,
                                                      !.here = TRUE]]
        /\ cur' = c
    /\ at' = "hello"
    /\ UNCHANGED tried

Connect ==
    /\ at = "connect"
    /\ \/ Connected
       \/ /\ listening = None
          /\ at' = IF tried THEN "alone" ELSE "start"
          /\ tried' = TRUE
          /\ UNCHANGED <<cur, conn>>
    /\ UNCHANGED <<told, server, loading, listening, http, daemon, build, budget>>

\* start_daemon(): the ELF loader, else the launcher, takes the daemon or not.
StartDaemon ==
    /\ at = "start"
    /\ \/ at' = "wait" /\ loading' = loading + 1
       \/ at' = "alone" /\ UNCHANGED loading
    /\ UNCHANGED <<cur, tried, told, server, conn, listening, http, daemon, build, budget>>

\* Six seconds of connecting, every 100 ms.
AwaitDaemon ==
    /\ at = "wait"
    /\ \/ Connected
       \/ listening = None /\ at' = "alone" /\ UNCHANGED <<cur, tried, conn>>
    /\ UNCHANGED <<told, server, loading, listening, http, daemon, build, budget>>

HangDangling(next) == /\ at' = next /\ UNCHANGED cur   \* mutant: closed twice
                      /\ conn' = [conn EXCEPT ![cur] = ProgramEnd(@)]
Hang(next) == /\ at' = next /\ cur' = None
              /\ conn' = [conn EXCEPT ![cur] = ProgramEnd(@)]

SayHello ==
    /\ at = "hello"
    /\ \/ /\ conn[cur].here
          /\ conn' = [conn EXCEPT ![cur].hello = "sent"]
          /\ at' = "reply" /\ UNCHANGED cur
       \/ ~conn[cur].here /\ Hang("connect")
    /\ UNCHANGED <<tried, told, server, loading, listening, http, daemon, build, budget>>

NextLine == conn[cur].out # <<>>
Read(k)  == [k EXCEPT !.out = Tail(@)]

AfterReply(reply) ==
    CASE reply = "ok"      -> /\ at' = "linked" /\ tried' = FALSE /\ UNCHANGED cur
                              /\ conn' = [conn EXCEPT ![cur] = Read(@)]
      [] reply = "stale"   -> Hang("stale") /\ UNCHANGED tried
      [] reply = "unknown" -> Hang("alone") /\ UNCHANGED tried

\* No answer in five seconds, or the end of the connection: asked again.
HearReply ==
    /\ at = "reply"
    /\ \/ /\ NextLine /\ AfterReply(Head(conn[cur].out))
          /\ UNCHANGED budget
       \/ /\ ~NextLine
          /\ IF conn[cur].here THEN Spend("late") ELSE UNCHANGED budget
          /\ Hang("connect") /\ UNCHANGED tried
    /\ UNCHANGED <<told, server, loading, listening, http, daemon, build>>

\* Until nobody listens, or for 300 s.
AwaitStale ==
    /\ at = "stale"
    /\ at' = "connect" /\ tried' = FALSE
    /\ UNCHANGED <<cur, told, server, conn, loading, listening, http, daemon,
                   build, budget>>

Linked ==
    /\ at = "linked"
    /\ \/ /\ NextLine
          /\ told' = (told \/ Head(conn[cur].out) = "install")
          /\ conn' = [conn EXCEPT ![cur] = Read(@)]
          /\ UNCHANGED <<at, cur>>
       \/ /\ ~NextLine /\ ~conn[cur].here
          /\ Hang("connect") /\ UNCHANGED told
    /\ UNCHANGED <<tried, server, loading, listening, http, daemon, build, budget>>

\* ps5_webui_link_wait(8000) ends, and with no daemon ps5_webui_start() follows:
\* the port may be another server's.  A connection and a hello take no 8 s.
Decide ==
    /\ server = "waiting" /\ at \notin {"connect", "hello"}
    /\ server' = "decided"
    /\ http' = IF at # "linked" /\ http = None THEN Title ELSE http
    /\ UNCHANGED <<at, cur, tried, told, conn, loading, listening, daemon, build, budget>>

LinkThread == \/ Connect \/ StartDaemon \/ AwaitDaemon \/ SayHello \/ HearReply
              \/ AwaitStale \/ Linked

-----------------------------------------------------------------------------
(* The daemon's loop: each turn accepts, reads what the programs sent, then *)
(* does what is due.                                                        *)

\* The loader runs a daemon; it stops at once when another has its port.
RunDaemon ==
    /\ loading > 0 /\ loading' = loading - 1
    /\ \/ /\ listening = None
          /\ \E d \in Daemons :
              /\ life[d] = "off"
              /\ life' = [life EXCEPT ![d] = "up"]
              /\ listening' = d
       \/ listening # None /\ UNCHANGED <<life, listening>>
    /\ UNCHANGED <<program, conn, http, root, web, stale, wanted, sent, installed,
                   busy, updating, build, budget>>

AcceptSilently(d, k) == Send([k EXCEPT !.hello = "counted"], "ok")   \* mutant
Accept(d, k) == LET ok == Send([k EXCEPT !.hello = "counted"], "ok")
                IN IF d \in sent THEN Send(ok, "install") ELSE ok
Refuse(k, line) == DaemonEnd(Send(k, line))

\* The connections are read in the order they came in: the one of the program
\* that runs, if it is there, is the last.
Reads(d, c) == /\ conn[c].d = d /\ conn[c].hello = "sent"
               /\ \A e \in Conns \ {c} : conn[e].d = d /\ conn[e].hello = "sent"
                                           => conn[e].open \/ ~conn[c].open

CurrentAlways(d) == TRUE                   \* mutant: any build's hello is welcome
Current(d) == d \notin stale /\ root[d] \in {0, build}

\* A hello is answered once the folder is known, and by its build only.
Answer(d, c) ==
    /\ life[d] = "up"
    /\ Reads(d, c)
    /\ \/ /\ Current(d)
          /\ root' = [root EXCEPT ![d] = IF @ = 0 THEN build ELSE @]
          /\ conn' = [conn EXCEPT ![c] = Accept(d, @)]
          /\ UNCHANGED stale
       \/ /\ d \notin stale /\ root[d] = 0
          /\ conn' = [conn EXCEPT ![c] = Refuse(@, "unknown")]
          /\ UNCHANGED <<root, stale>>
       \/ /\ ~Current(d)
          /\ stale' = stale \cup {d}
          /\ conn' = [conn EXCEPT ![c] = Refuse(@, "stale")]
          /\ UNCHANGED root
    /\ UNCHANGED <<program, loading, listening, http, life, web, wanted, sent,
                   installed, busy, updating, build, budget>>

Drop(d, c) ==
    /\ life[d] = "up"
    /\ conn[c].d = d /\ ~conn[c].open /\ conn[c].hello # "sent"
    /\ conn' = [conn EXCEPT ![c] = NoConn]
    /\ UNCHANGED <<program, loading, listening, http, daemon, build, budget>>

\* Everything that came was read before the loop decides.
Drained(d) == \A c \in Conns : conn[c].d = d =>
                  conn[c].hello # "sent" /\ (conn[c].open \/ ~conn[c].here)

\* The thread that starts the server, tried again every second.
BeginServing(d) ==
    /\ life[d] = "up" /\ web[d] = "no" /\ root[d] # 0 /\ d \notin stale
    /\ web' = [web EXCEPT ![d] = "starting"]
    /\ UNCHANGED <<program, conn, loading, listening, http, life, root, stale,
                   wanted, sent, installed, busy, updating, build, budget>>

BusyForGood(d) == web' = [web EXCEPT ![d] = "failed"]   \* mutant: not tried again
Busy(d)        == web' = [web EXCEPT ![d] = "no"]

Serve(d) ==
    /\ web[d] = "starting"
    /\ \/ http = None /\ http' = d /\ web' = [web EXCEPT ![d] = "yes"]
       \/ http # None /\ UNCHANGED http /\ Busy(d)
    /\ UNCHANGED <<program, conn, loading, listening, life, root, stale, wanted,
                   sent, installed, busy, updating, build, budget>>

TellNobody(d) == UNCHANGED conn            \* mutant: only later hellos are answered so
Tell(d) == conn' = [c \in Conns |-> IF c \in Counted(d) THEN Send(conn[c], "install")
                                                         ELSE conn[c]]

AskPrograms(d) ==
    /\ life[d] = "up" /\ web[d] = "yes" /\ d \in wanted \ sent
    /\ sent' = sent \cup {d}
    /\ Tell(d)
    /\ UNCHANGED <<program, loading, listening, http, life, root, web, stale,
                   wanted, installed, busy, updating, build, budget>>

NoneLinkedIgnored(d) == TRUE               \* mutant
NoneLinked(d) == Counted(d) = {}

\* No program linked for five seconds; the loop stands still meanwhile.
BeginInstall(d) ==
    /\ life[d] = "up" /\ Drained(d)
    /\ d \in sent \ installed /\ NoneLinked(d)
    /\ life' = [life EXCEPT ![d] = "installing"]
    /\ installed' = installed \cup {d}
    /\ UNCHANGED <<program, conn, loading, listening, http, root, web, stale,
                   wanted, sent, busy, updating, build, budget>>

\* Done, or failed and undone; this daemon is the old build's either way.
EndInstall(d) ==
    /\ life[d] = "installing"
    /\ life' = [life EXCEPT ![d] = "up"]
    /\ build' \in {build, build + 1} \cap 1..MaxBuild
    /\ stale' = stale \cup {d}
    /\ UNCHANGED <<program, conn, loading, listening, http, root, web, wanted,
                   sent, installed, busy, updating, budget>>

CloseListener(d) ==
    /\ life[d] = "up" /\ listening = d
    /\ d \in stale \ installed
    /\ listening' = None
    /\ UNCHANGED <<program, conn, loading, http, daemon, build, budget>>

DueUnlessSent(d) == d \notin busy \cup updating \cup sent   \* mutant: stale is idle

\* No hello for 30 s; another build's daemon is due; the title is closed.
Due(d) == \/ root[d] = 0
          \/ d \in stale \ busy
          \/ root[d] # 0 /\ d \notin busy \cup updating \cup sent

Stop(d) ==
    /\ life[d] = "up" /\ Drained(d) /\ NoneLinked(d)
    /\ Due(d)
    /\ life' = [life EXCEPT ![d] = "stopping"]
    /\ UNCHANGED <<program, conn, loading, listening, http, root, web, stale,
                   wanted, sent, installed, busy, updating, build, budget>>

Unlink(d) ==
    /\ conn' = [c \in Conns |-> IF conn[c].d = d THEN DaemonEnd(conn[c]) ELSE conn[c]]
    /\ listening' = IF listening = d THEN None ELSE listening

\* A start under way ends before the links do.
CloseLinks(d) ==
    /\ life[d] = "stopping" /\ web[d] # "starting"
    /\ life' = [life EXCEPT ![d] = "leaving"]
    /\ Unlink(d)
    /\ UNCHANGED <<program, loading, http, root, web, stale, wanted, sent, installed,
                   busy, updating, build, budget>>

Gone(d) ==
    /\ life' = [life EXCEPT ![d] = "off"]
    /\ root' = [root EXCEPT ![d] = 0]
    /\ web' = [web EXCEPT ![d] = "no"]
    /\ stale' = stale \ {d} /\ wanted' = wanted \ {d} /\ sent' = sent \ {d}
    /\ installed' = installed \ {d} /\ busy' = busy \ {d}
    /\ updating' = updating \ {d}
    /\ http' = IF http = d THEN None ELSE http
    /\ UNCHANGED <<program, loading, build>>

\* ps5_webui_stop(), and the end of the process.
Stopped(d) ==
    /\ life[d] = "leaving"
    /\ Gone(d)
    /\ UNCHANGED <<conn, listening, budget>>

Crash(d) ==
    /\ life[d] # "off"
    /\ Spend("crash")
    /\ Unlink(d) /\ Gone(d)

-----------------------------------------------------------------------------
(* Who uses the WebUI, and who changes the title's files behind its back.  *)

\* request_install(), of an update that is ready.
Want(d) ==
    /\ http = d /\ d \notin wanted /\ build < MaxBuild
    /\ wanted' = wanted \cup {d}
    /\ UNCHANGED <<program, conn, loading, listening, http, life, root, web, stale,
                   sent, installed, busy, updating, build, budget>>

BeginTransfer(d) ==
    /\ http = d /\ d \notin busy
    /\ Spend("upload")
    /\ busy' = busy \cup {d}
    /\ UNCHANGED <<program, conn, loading, listening, http, life, root, web, stale,
                   wanted, sent, installed, updating, build>>

BeginUpdating(d) ==
    /\ http = d /\ d \notin updating
    /\ Spend("fetch")
    /\ updating' = updating \cup {d}
    /\ UNCHANGED <<program, conn, loading, listening, http, life, root, web, stale,
                   wanted, sent, installed, busy, build>>

EndTransfer(d) ==
    /\ \/ d \in busy /\ busy' = busy \ {d} /\ UNCHANGED updating
       \/ d \in updating /\ updating' = updating \ {d} /\ UNCHANGED busy
    /\ UNCHANGED <<program, conn, loading, listening, http, life, root, web, stale,
                   wanted, sent, installed, build, budget>>

\* Another build copied over the folder, by FTP.
Replace ==
    /\ build < MaxBuild
    /\ Spend("replace")
    /\ build' = build + 1
    /\ UNCHANGED <<program, conn, loading, listening, http, daemon>>

Loop(d) == AskPrograms(d) \/ BeginInstall(d) \/ EndInstall(d) \/ CloseListener(d)
           \/ Stop(d) \/ CloseLinks(d) \/ Stopped(d)

Next == \/ Launch \/ Exit \/ LinkThread \/ Decide \/ RunDaemon \/ Replace
        \/ \E d \in Daemons :
            \/ \E c \in Conns : Answer(d, c) \/ Drop(d, c)
            \/ Loop(d) \/ BeginServing(d) \/ Serve(d)
            \/ Crash(d) \/ Want(d) \/ BeginTransfer(d) \/ BeginUpdating(d)
            \/ EndTransfer(d)

\* Threads run on, the loader runs what it was sent, a transfer ends, and a
\* program told to close closes.  A turn of the loop, every 250 ms at most, does
\* all that is due: it does not miss a state that lasts for seconds.
Fairness ==
    /\ WF_vars(LinkThread) /\ WF_vars(Decide) /\ WF_vars(RunDaemon)
    /\ WF_vars(told /\ Exit)
    /\ \A d \in Daemons :
        /\ WF_vars(\E c \in Conns : Answer(d, c))
        /\ WF_vars(\E c \in Conns : Drop(d, c))
        /\ SF_vars(Loop(d))
        /\ WF_vars(BeginServing(d)) /\ WF_vars(Serve(d))
        /\ WF_vars(EndTransfer(d))

Spec == Init /\ [][Next]_vars /\ Fairness

-----------------------------------------------------------------------------
LinkedTo(d) == at = "linked" /\ conn[cur].d = d /\ conn[cur].here

\* The daemon's account of its programs is right: one that knows itself linked
\* is counted, so neither an install nor a stop happens under it.
LinkedIsCounted ==
    \A d \in Daemons : LinkedTo(d) =>
        conn[cur].hello = "counted" /\ life[d] = "up"

\* Once a daemon has asked for the title to close, every program linked to it
\* knows or is about to, one that linked after the request included.
InstallIsHeard ==
    \A d \in sent : LinkedTo(d) =>
        told \/ \E i \in DOMAIN conn[cur].out : conn[cur].out[i] = "install"

\* A program that knows itself linked is counted, and hears of an install it must close for.
LinkIsKept == TypeOK /\ LinkedIsCounted /\ InstallIsHeard

\* A program is never served by a daemon of the build before the one it was
\* started from, if only the WebUI's updates change the folder.
LinkedToItsBuild ==
    \A d \in Daemons : LinkedTo(d) => root[d] = build

\* "no daemon; the WebUI is eboot.bin's own while RetroArch runs"
AloneIsServed == (at = "alone" /\ server = "decided") ~> (at = "off" \/ http # None)

\* An update that was asked for is installed, or its daemon is gone.
InstallHappens ==
    \A d \in Daemons : d \in wanted ~> (d \in installed \/ life[d] = "off")

\* The link's thread does not retry forever.
LinkSettles == at \notin {"off", "linked", "alone"} ~> at \in {"off", "linked", "alone"}

\* While a program stays linked the WebUI is served.
LinkedIsServed == at = "linked" ~> (at # "linked" \/ http # None)
=============================================================================

------------------------------ MODULE Link_proofs ------------------------------
(* Theorems and their proofs about what MCLink puts together: the link, for any *)
(* daemons, connections, builds and bounds; and the updater in the daemon and   *)
(* in RetroArch over one folder, for any files and releases.                    *)
EXTENDS MCLink, TLAPS, SequenceTheorems

Lines == {"ok", "stale", "unknown", "install"}
ConnType ==
    [d : Daemons \cup {None}, open : BOOLEAN, here : BOOLEAN,
     hello : {"none", "sent", "counted"}, out : Seq(Lines)]

-----------------------------------------------------------------------------
(* The two ends of a connection *)

LEMMA NoConnType == NoConn \in ConnType
  BY DEF NoConn, ConnType

\* The program's end closes: the daemon's side stays, with nothing for the program to read.
LEMMA ProgramEndType ==
  ASSUME NEW k \in ConnType
  PROVE  /\ ProgramEnd(k) \in ConnType /\ ProgramEnd(k).open = FALSE
         /\ ProgramEnd(k).hello # "none" =>
                ProgramEnd(k).hello = k.hello /\ ProgramEnd(k).d = k.d /\ ProgramEnd(k).here = k.here
  <1>1. CASE k.here
    <2>1. ProgramEnd(k) = [k EXCEPT !.open = FALSE, !.out = <<>>]
      BY <1>1 DEF ProgramEnd
    <2>2. <<>> \in Seq(Lines)
      BY EmptySeq
    <2> QED
      BY <2>1, <2>2 DEF ConnType
  <1>2. CASE ~k.here
    BY <1>2, NoConnType DEF ProgramEnd, NoConn
  <1> QED
    BY <1>1, <1>2

\* The daemon's end closes: what it sent can still be read, and it counts the link no more.
LEMMA DaemonEndType ==
  ASSUME NEW k \in ConnType
  PROVE  /\ DaemonEnd(k) \in ConnType /\ DaemonEnd(k).hello = "none" /\ DaemonEnd(k).here = FALSE
         /\ DaemonEnd(k).open = k.open
         /\ k.open => DaemonEnd(k).d = k.d /\ DaemonEnd(k).out = k.out
  <1>1. CASE k.open
    <2>1. DaemonEnd(k) = [k EXCEPT !.here = FALSE, !.hello = "none"]
      BY <1>1 DEF DaemonEnd
    <2> QED
      BY <1>1, <2>1 DEF ConnType
  <1>2. CASE ~k.open
    <2>1. k.open = FALSE
      BY <1>2 DEF ConnType
    <2> QED
      BY <1>2, <2>1, NoConnType DEF DaemonEnd, NoConn
  <1> QED
    BY <1>1, <1>2

LEMMA SendType ==
  ASSUME NEW k \in ConnType, NEW line \in Lines
  PROVE  /\ Send(k, line) \in ConnType
         /\ Send(k, line).open = k.open /\ Send(k, line).here = k.here
         /\ Send(k, line).hello = k.hello /\ Send(k, line).d = k.d
         /\ Send(k, line).out = IF k.open THEN Append(k.out, line) ELSE k.out
  BY DEF Send, ConnType

LEMMA CountType ==
  ASSUME NEW k \in ConnType
  PROVE  /\ [k EXCEPT !.hello = "counted"] \in ConnType
         /\ [k EXCEPT !.hello = "counted"].open = k.open /\ [k EXCEPT !.hello = "counted"].here = k.here
         /\ [k EXCEPT !.hello = "counted"].hello = "counted" /\ [k EXCEPT !.hello = "counted"].d = k.d
         /\ [k EXCEPT !.hello = "counted"].out = k.out
  BY DEF ConnType

\* A hello that is welcome is counted and answered; one that comes after the request to
\* install was sent is told of it with its answer.
LEMMA AcceptType ==
  ASSUME NEW d, NEW k \in ConnType
  PROVE  /\ Accept(d, k) \in ConnType /\ Accept(d, k).hello = "counted"
         /\ Accept(d, k).open = k.open /\ Accept(d, k).here = k.here /\ Accept(d, k).d = k.d
         /\ k.open => Accept(d, k).out = IF d \in sent THEN Append(Append(k.out, "ok"), "install")
                                                       ELSE Append(k.out, "ok")
  <1> DEFINE counted == [k EXCEPT !.hello = "counted"]
             ok == Send(counted, "ok")
  <1>1. /\ counted \in ConnType /\ counted.open = k.open /\ counted.here = k.here
        /\ counted.hello = "counted" /\ counted.d = k.d /\ counted.out = k.out
    BY CountType
  <1>2. Accept(d, k) = IF d \in sent THEN Send(ok, "install") ELSE ok
    BY DEF Accept
  <1> HIDE DEF counted
  <1>3. /\ ok \in ConnType /\ ok.open = k.open /\ ok.here = k.here
        /\ ok.hello = "counted" /\ ok.d = k.d
        /\ ok.out = IF k.open THEN Append(k.out, "ok") ELSE k.out
    BY <1>1, SendType DEF Lines
  <1> HIDE DEF ok
  <1>4. "install" \in Lines
    BY DEF Lines
  <1> QED
    BY <1>2, <1>3, <1>4, SendType

LEMMA RefuseType ==
  ASSUME NEW k \in ConnType, NEW line \in Lines
  PROVE  /\ Refuse(k, line) \in ConnType /\ Refuse(k, line).hello = "none"
         /\ Refuse(k, line).here = FALSE /\ Refuse(k, line).open = k.open
         /\ k.open => Refuse(k, line).out = Append(k.out, line)
  <1> DEFINE k2 == Send(k, line)
  <1>1. k2 \in ConnType /\ k2.open = k.open /\ (k.open => k2.out = Append(k.out, line))
    BY SendType
  <1> HIDE DEF k2
  <1>2. Refuse(k, line) = DaemonEnd(k2)
    BY DEF Refuse, k2
  <1> QED
    BY <1>1, <1>2, DaemonEndType

LEMMA ReadType ==
  ASSUME NEW k \in ConnType, k.out # <<>>
  PROVE  /\ Read(k) \in ConnType /\ Read(k).out = Tail(k.out) /\ Read(k).open = k.open
         /\ Read(k).here = k.here /\ Read(k).hello = k.hello /\ Read(k).d = k.d
  <1>1. k.out \in Seq(Lines)
    BY DEF ConnType
  <1>2. Tail(k.out) \in Seq(Lines)
    BY <1>1, HeadTailProperties
  <1> QED
    BY <1>2 DEF Read, ConnType

-----------------------------------------------------------------------------
(* The invariant *)

\* The types of what the link's state is read from.
Types ==
    /\ at \in {"off", "connect", "start", "wait", "hello", "reply", "stale", "linked", "alone"}
    /\ cur \in Conns \cup {None}
    /\ cur # None <=> at \in {"hello", "reply", "linked"}
    /\ conn \in [Conns -> ConnType]
    /\ listening \in Daemons \cup {None}
    /\ DOMAIN life = Daemons

\* The program's end is open on its current connection only.
OneEnd ==
    /\ cur # None => conn[cur].open
    /\ \A c \in Conns : conn[c].open => c = cur

\* What a program may have to read before it is linked, while its daemon holds the link: nothing
\* until it is counted, then its welcome first.
Welcome ==
    /\ at = "hello" => conn[cur].out = <<>> /\ conn[cur].hello = "none"
    /\ (at = "reply" /\ conn[cur].here) =>
        IF conn[cur].hello = "counted" THEN conn[cur].out # <<>> /\ Head(conn[cur].out) = "ok"
        ELSE conn[cur].out = <<>>
    /\ (at = "reply" /\ conn[cur].out # <<>>) => Head(conn[cur].out) # "install"
    /\ (at = "linked" /\ conn[cur].here) => conn[cur].hello = "counted"

\* A daemon hears on an end it has open, and counts nobody while it installs, stops or leaves.
CountedIsUp ==
    \A c \in Conns :
        /\ conn[c].hello # "none" => conn[c].here = TRUE
        /\ conn[c].hello = "counted" => conn[c].d \in Daemons /\ life[conn[c].d] = "up"

Says(s, line) == \E i \in 1 .. Len(s) : s[i] = line

\* A program that is counted by a daemon that asked for the title to close knows, or has it to read.
Heard ==
    (cur # None /\ conn[cur].here /\ conn[cur].hello = "counted" /\ conn[cur].d \in sent)
        => told \/ Says(conn[cur].out, "install")

Inv == Types /\ OneEnd /\ Welcome /\ CountedIsUp /\ Heard

LEMMA InvInit == Init => Inv
  <1> SUFFICES ASSUME Init PROVE Inv
    OBVIOUS
  <1>1. \A c \in Conns : conn[c] = NoConn
    BY DEF Init
  <1>2. Types
    BY NoConnType DEF Init, Types
  <1>3. OneEnd /\ CountedIsUp
    BY <1>1 DEF Init, OneEnd, CountedIsUp, NoConn
  <1>4. Welcome /\ Heard
    BY DEF Init, Welcome, Heard
  <1> QED
    BY <1>2, <1>3, <1>4 DEF Inv

-----------------------------------------------------------------------------
(* The program's steps *)

\* The program's end of its connection closes, if it has one.
LEMMA EndKeeps ==
  ASSUME Inv, at' \in {"off", "connect", "stale", "alone"}, cur' = None,
         conn' = IF cur = None THEN conn ELSE [conn EXCEPT ![cur] = ProgramEnd(@)],
         UNCHANGED <<life, sent, listening>>
  PROVE  Inv'
  <1>1. \A c \in Conns : /\ conn'[c] = IF c = cur THEN ProgramEnd(conn[c]) ELSE conn[c]
                         /\ conn[c] \in ConnType
    BY LinkAssumption DEF Inv, Types
  <1>2. \A c \in Conns : /\ conn'[c] \in ConnType
                         /\ conn'[c].open => c # cur /\ conn[c].open
                         /\ conn'[c].hello # "none" =>
                              conn'[c].hello = conn[c].hello /\ conn'[c].d = conn[c].d /\ conn'[c].here = conn[c].here
    <2> TAKE c \in Conns
    <2>1. CASE c = cur
      <3> DEFINE k == ProgramEnd(conn[c])
      <3>1. /\ k \in ConnType /\ k.open = FALSE
            /\ k.hello # "none" => k.hello = conn[c].hello /\ k.d = conn[c].d /\ k.here = conn[c].here
        BY <1>1, ProgramEndType
      <3>2. conn'[c] = k
        BY <1>1, <2>1
      <3> HIDE DEF k
      <3> QED
        BY <3>1, <3>2
    <2>2. CASE c # cur
      BY <1>1, <2>2 DEF Inv, OneEnd
    <2> QED
      BY <2>1, <2>2
  <1>3. Types'
    <2>1. conn' \in [Conns -> ConnType]
      BY <1>2 DEF Inv, Types
    <2> QED
      BY <2>1 DEF Inv, Types
  <1>4. OneEnd'
    BY <1>2 DEF Inv, OneEnd
  <1>5. CountedIsUp'
    BY <1>2 DEF Inv, CountedIsUp
  <1> QED
    BY <1>3, <1>4, <1>5 DEF Inv, Welcome, Heard

LEMMA HangKeeps ==
  ASSUME Inv, cur # None, NEW next \in {"connect", "stale", "alone"}, Hang(next),
         UNCHANGED <<life, sent, listening>>
  PROVE  Inv'
  BY EndKeeps DEF Hang

\* One connection changes, its daemon's account of it no more than the step says.
LEMMA OneChanges ==
  ASSUME Inv, NEW c \in Conns, NEW k \in ConnType, conn' = [conn EXCEPT ![c] = k]
  PROVE  conn' \in [Conns -> ConnType] /\ \A e \in Conns : conn'[e] = IF e = c THEN k ELSE conn[e]
  BY DEF Inv, Types

LEMMA ConnectedKeeps ==
  ASSUME Inv, cur = None, Connected, UNCHANGED <<told, life, sent, listening>>
  PROVE  Inv'
  <1> PICK c \in Conns :
        /\ conn[c] = NoConn
        /\ conn' = [conn EXCEPT ![c] = [NoConn EXCEPT !.d = listening, !.open = TRUE, !.here = TRUE]]
        /\ cur' = c
    BY DEF Connected
  <1> DEFINE k == [NoConn EXCEPT !.d = listening, !.open = TRUE, !.here = TRUE]
  <1>1. k \in ConnType /\ k.open = TRUE /\ k.hello = "none" /\ k.out = <<>>
    BY DEF Inv, Types, ConnType, NoConn
  <1> HIDE DEF k
  <1>2. conn' \in [Conns -> ConnType] /\ \A e \in Conns : conn'[e] = IF e = c THEN k ELSE conn[e]
    BY <1>1, OneChanges DEF k
  <1>3. at' = "hello" /\ cur' = c /\ c # None
    BY LinkAssumption DEF Connected
  <1>4. Types'
    BY <1>2, <1>3 DEF Inv, Types
  <1>5. OneEnd'
    BY <1>1, <1>2, <1>3, LinkAssumption DEF Inv, OneEnd
  <1>6. Welcome' /\ CountedIsUp' /\ Heard'
    BY <1>1, <1>2, <1>3 DEF Inv, Welcome, CountedIsUp, Heard
  <1> QED
    BY <1>4, <1>5, <1>6 DEF Inv

LEMMA SayHelloKeeps == ASSUME Inv, SayHello PROVE Inv'
  <1>1. at = "hello" /\ cur # None /\ cur \in Conns /\ conn[cur] \in ConnType
    BY DEF SayHello, Inv, Types
  <1>2. ASSUME conn[cur].here, conn' = [conn EXCEPT ![cur].hello = "sent"], at' = "reply", UNCHANGED cur
        PROVE  Inv'
    <2> DEFINE k == [conn[cur] EXCEPT !.hello = "sent"]
    <2>1. /\ k \in ConnType /\ k.open = conn[cur].open /\ k.hello = "sent" /\ k.out = conn[cur].out /\ k.here = TRUE
          /\ conn' = [conn EXCEPT ![cur] = k]
      BY <1>1, <1>2 DEF ConnType
    <2> HIDE DEF k
    <2>2. conn' \in [Conns -> ConnType] /\ \A e \in Conns : conn'[e] = IF e = cur THEN k ELSE conn[e]
      BY <1>1, <2>1, OneChanges
    <2>3. UNCHANGED <<told, life, sent, listening>>
      BY DEF SayHello, daemon
    <2>4. Types'
      BY <1>1, <1>2, <2>2, <2>3 DEF Inv, Types
    <2>5. OneEnd' /\ CountedIsUp'
      BY <1>1, <1>2, <2>1, <2>2, <2>3 DEF Inv, OneEnd, CountedIsUp
    <2>6. Welcome' /\ Heard'
      BY <1>1, <1>2, <2>1, <2>2 DEF Inv, Welcome, Heard
    <2> QED
      BY <2>4, <2>5, <2>6 DEF Inv
  <1>3. CASE Hang("connect")
    BY <1>1, <1>3, HangKeeps DEF SayHello, daemon
  <1> QED
    BY <1>2, <1>3 DEF SayHello

\* A line is read: what the others were is still to be read.
LEMMA TailSays ==
  ASSUME NEW s \in Seq(Lines), s # <<>>, Says(s, "install"), Head(s) # "install"
  PROVE  Says(Tail(s), "install")
  <1>1. PICK i \in 1 .. Len(s) : s[i] = "install"
    BY DEF Says
  <1>2. i # 1 /\ Len(s) \in Nat
    BY <1>1
  <1>3. i - 1 \in 1 .. Len(Tail(s)) /\ Tail(s)[i - 1] = "install"
    BY <1>1, <1>2
  <1> QED
    BY <1>3 DEF Says

\* A line that is sent is read after those before it.
LEMMA AppendSays ==
  ASSUME NEW s \in Seq(Lines), NEW line \in Lines
  PROVE  /\ Append(s, line) \in Seq(Lines) /\ Append(s, line) # <<>> /\ Says(Append(s, line), line)
         /\ Head(Append(s, line)) = IF s = <<>> THEN line ELSE Head(s)
  <1>1. Len(s) + 1 \in 1 .. Len(Append(s, line)) /\ Append(s, line)[Len(s) + 1] = line
    OBVIOUS
  <1> QED
    BY <1>1, HeadTailAppend, EmptySeq DEF Says

LEMMA ReadKeeps ==
  ASSUME Inv, at \in {"reply", "linked"}, conn[cur].out # <<>>,
         at = "reply" => Head(conn[cur].out) = "ok",
         at' = "linked", cur' = cur, told \/ Head(conn[cur].out) = "install" => told',
         conn' = [conn EXCEPT ![cur] = Read(@)], UNCHANGED <<life, sent, listening>>
  PROVE  Inv'
  <1>1. cur # None /\ cur \in Conns /\ conn[cur] \in ConnType
    BY DEF Inv, Types
  <1> DEFINE k == Read(conn[cur])
  <1>2. /\ k \in ConnType /\ k.out = Tail(conn[cur].out) /\ k.open = conn[cur].open
        /\ k.here = conn[cur].here /\ k.hello = conn[cur].hello /\ k.d = conn[cur].d
    BY <1>1, ReadType
  <1> HIDE DEF k
  <1>3. conn' \in [Conns -> ConnType] /\ \A e \in Conns : conn'[e] = IF e = cur THEN k ELSE conn[e]
    BY <1>1, <1>2, OneChanges DEF k
  <1>4. Types'
    BY <1>1, <1>3 DEF Inv, Types
  <1>5. OneEnd' /\ CountedIsUp'
    BY <1>1, <1>2, <1>3 DEF Inv, OneEnd, CountedIsUp
  <1>6. Welcome'
    BY <1>1, <1>2, <1>3 DEF Inv, Welcome
  <1>7. Heard'
    <2>1. conn[cur].out \in Seq(Lines)
      BY <1>1 DEF ConnType
    <2> QED
      BY <1>1, <1>2, <1>3, <2>1, TailSays DEF Inv, Heard
  <1> QED
    BY <1>4, <1>5, <1>6, <1>7 DEF Inv

LEMMA HearReplyKeeps == ASSUME Inv, HearReply PROVE Inv'
  <1>1. at = "reply" /\ cur # None /\ UNCHANGED <<told, life, sent, listening>>
    BY DEF HearReply, Inv, Types, daemon
  <1>2. CASE Hang("connect")
    BY <1>1, <1>2, HangKeeps
  <1>3. ASSUME NextLine, AfterReply(Head(conn[cur].out)) PROVE Inv'
    <2>1. CASE Head(conn[cur].out) = "ok"
      BY <1>1, <1>3, <2>1, ReadKeeps DEF AfterReply, NextLine
    <2>2. CASE Head(conn[cur].out) = "stale"
      BY <1>1, <1>3, <2>2, HangKeeps DEF AfterReply
    <2>3. CASE Head(conn[cur].out) = "unknown"
      BY <1>1, <1>3, <2>3, HangKeeps DEF AfterReply
    <2>4. Head(conn[cur].out) \in Lines /\ Head(conn[cur].out) # "install"
      BY <1>1, <1>3 DEF Inv, Types, Welcome, ConnType, NextLine
    <2> QED
      BY <2>1, <2>2, <2>3, <2>4 DEF Lines
  <1> QED
    BY <1>1, <1>2, <1>3 DEF HearReply

LEMMA LinkThreadKeeps == ASSUME Inv, LinkThread PROVE Inv'
  <1>1. CASE Connect
    <2>1. cur = None /\ UNCHANGED <<told, life, sent, listening>>
      BY <1>1 DEF Connect, Inv, Types, daemon
    <2>2. CASE Connected
      BY <2>1, <2>2, ConnectedKeeps
    <2>3. CASE at' \in {"alone", "start"} /\ UNCHANGED <<cur, conn>>
      BY <2>1, <2>3 DEF Inv, Types, OneEnd, Welcome, CountedIsUp, Heard
    <2> QED
      BY <1>1, <2>2, <2>3 DEF Connect
  <1>2. CASE AwaitDaemon
    <2>1. cur = None /\ UNCHANGED <<told, life, sent, listening>>
      BY <1>2 DEF AwaitDaemon, Inv, Types, daemon
    <2>2. CASE Connected
      BY <2>1, <2>2, ConnectedKeeps
    <2>3. CASE at' = "alone" /\ UNCHANGED <<cur, conn>>
      BY <2>1, <2>3 DEF Inv, Types, OneEnd, Welcome, CountedIsUp, Heard
    <2> QED
      BY <1>2, <2>2, <2>3 DEF AwaitDaemon
  <1>3. CASE StartDaemon
    <2>1. at' \in {"wait", "alone"} /\ at = "start" /\ UNCHANGED <<cur, told, conn, life, sent, listening>>
      BY <1>3 DEF StartDaemon, daemon
    <2> QED
      BY <2>1 DEF Inv, Types, OneEnd, Welcome, CountedIsUp, Heard
  <1>4. CASE AwaitStale
    <2>1. at' = "connect" /\ at = "stale" /\ UNCHANGED <<cur, told, conn, life, sent, listening>>
      BY <1>4 DEF AwaitStale, daemon
    <2> QED
      BY <2>1 DEF Inv, Types, OneEnd, Welcome, CountedIsUp, Heard
  <1>5. CASE SayHello
    BY <1>5, SayHelloKeeps
  <1>6. CASE HearReply
    BY <1>6, HearReplyKeeps
  <1>7. CASE Linked
    <2>1. at = "linked" /\ cur # None /\ UNCHANGED <<life, sent, listening>>
      BY <1>7 DEF Linked, Inv, Types, daemon
    <2>2. CASE Hang("connect")
      BY <2>1, <2>2, HangKeeps
    <2>3. ASSUME NextLine, told' = (told \/ Head(conn[cur].out) = "install"),
                 conn' = [conn EXCEPT ![cur] = Read(@)], UNCHANGED <<at, cur>>
          PROVE  Inv'
      BY <2>1, <2>3, ReadKeeps DEF NextLine
    <2> QED
      BY <1>7, <2>2, <2>3 DEF Linked
  <1> QED
    BY <1>1, <1>2, <1>3, <1>4, <1>5, <1>6, <1>7 DEF LinkThread

-----------------------------------------------------------------------------
(* The daemon's steps *)

\* A daemon's answer: it counts the program, or closes its end.
LEMMA AnswerKeeps == ASSUME Inv, NEW d \in Daemons, NEW c \in Conns, Answer(d, c) PROVE Inv'
  <1>1. /\ life[d] = "up" /\ conn[c].d = d /\ conn[c].hello = "sent" /\ conn[c] \in ConnType
        /\ UNCHANGED <<at, cur, told, life, sent, listening>>
    BY DEF Answer, Reads, Inv, Types, program
  <1>2. conn[c].here = TRUE /\ (conn[c].open => c = cur /\ cur # None)
    BY <1>1, LinkAssumption DEF Inv, CountedIsUp, OneEnd
  <1>3. c = cur => at = "reply" /\ conn[c].open /\ conn[c].out = <<>>
    BY <1>1, <1>2, LinkAssumption DEF Inv, Types, Welcome, OneEnd
  <1>4. ASSUME conn' = [conn EXCEPT ![c] = Accept(d, @)] PROVE Inv'
    <2> DEFINE k == Accept(d, conn[c])
    <2>1. /\ k \in ConnType /\ k.hello = "counted" /\ k.open = conn[c].open /\ k.here = TRUE /\ k.d = d
          /\ conn[c].open => k.out = IF d \in sent THEN Append(Append(conn[c].out, "ok"), "install")
                                                   ELSE Append(conn[c].out, "ok")
      BY <1>1, <1>2, AcceptType
    <2> HIDE DEF k
    <2>2. conn' \in [Conns -> ConnType] /\ \A e \in Conns : conn'[e] = IF e = c THEN k ELSE conn[e]
      BY <1>4, <2>1, OneChanges DEF k
    <2>3. Types'
      BY <1>1, <2>2 DEF Inv, Types
    <2>4. OneEnd' /\ CountedIsUp'
      BY <1>1, <2>1, <2>2 DEF Inv, Types, OneEnd, CountedIsUp
    <2>5. c = cur => k.out # <<>> /\ Head(k.out) = "ok" /\ (d \in sent => Says(k.out, "install"))
      <3> SUFFICES ASSUME c = cur PROVE k.out # <<>> /\ Head(k.out) = "ok" /\ (d \in sent => Says(k.out, "install"))
        OBVIOUS
      <3> DEFINE welcome == Append(<<>>, "ok")
      <3>1. <<>> \in Seq(Lines) /\ {"ok", "install"} \subseteq Lines
        BY EmptySeq DEF Lines
      <3>2. welcome \in Seq(Lines) /\ welcome # <<>> /\ Head(welcome) = "ok"
        BY <3>1, AppendSays
      <3> HIDE DEF welcome
      <3>3. k.out = IF d \in sent THEN Append(welcome, "install") ELSE welcome
        BY <1>3, <2>1 DEF welcome
      <3> QED
        BY <3>1, <3>2, <3>3, AppendSays
    <2>6. Welcome'
      BY <1>1, <1>3, <2>1, <2>2, <2>5 DEF Inv, Types, Welcome
    <2>7. Heard'
      BY <1>1, <2>1, <2>2, <2>5 DEF Inv, Types, Heard
    <2> QED
      BY <2>3, <2>4, <2>6, <2>7 DEF Inv
  <1>5. ASSUME NEW line \in {"unknown", "stale"}, conn' = [conn EXCEPT ![c] = Refuse(@, line)] PROVE Inv'
    <2> DEFINE k == Refuse(conn[c], line)
    <2>1. /\ k \in ConnType /\ k.hello = "none" /\ k.open = conn[c].open /\ k.here = FALSE
          /\ conn[c].open => k.out = Append(conn[c].out, line)
      <3>1. line \in Lines
        BY DEF Lines
      <3> QED
        BY <1>1, <3>1, RefuseType
    <2> HIDE DEF k
    <2>2. conn' \in [Conns -> ConnType] /\ \A e \in Conns : conn'[e] = IF e = c THEN k ELSE conn[e]
      BY <1>5, <2>1, OneChanges DEF k
    <2>3. Types'
      BY <1>1, <2>2 DEF Inv, Types
    <2>4. OneEnd' /\ CountedIsUp'
      BY <1>1, <2>1, <2>2 DEF Inv, Types, OneEnd, CountedIsUp
    <2>5. c = cur => Head(k.out) = line
      BY <1>3, <2>1
    <2>6. Welcome' /\ Heard'
      BY <1>1, <1>3, <2>1, <2>2, <2>5 DEF Inv, Types, Welcome, Heard
    <2> QED
      BY <2>3, <2>4, <2>6 DEF Inv
  <1> QED
    BY <1>4, <1>5 DEF Answer

LEMMA DropKeeps == ASSUME Inv, NEW d \in Daemons, NEW c \in Conns, Drop(d, c) PROVE Inv'
  <1>1. conn' \in [Conns -> ConnType] /\ \A e \in Conns : conn'[e] = IF e = c THEN NoConn ELSE conn[e]
    BY NoConnType, OneChanges DEF Drop
  <1>2. c # cur /\ UNCHANGED <<at, cur, told, life, sent, listening>>
    BY LinkAssumption DEF Drop, Inv, OneEnd, program, daemon
  <1>3. Types'
    BY <1>1, <1>2 DEF Inv, Types
  <1>4. OneEnd' /\ CountedIsUp'
    BY <1>1, <1>2 DEF Inv, Types, OneEnd, CountedIsUp, NoConn
  <1>5. Welcome' /\ Heard'
    BY <1>1, <1>2 DEF Inv, Types, Welcome, Heard
  <1> QED
    BY <1>3, <1>4, <1>5 DEF Inv

\* The request to install goes to every program that is counted.
LEMMA AskProgramsKeeps == ASSUME Inv, NEW d \in Daemons, AskPrograms(d) PROVE Inv'
  <1>1. sent' = sent \cup {d} /\ UNCHANGED <<at, cur, told, life, listening>>
    BY DEF AskPrograms, program
  <1>2. \A c \in Conns : /\ conn'[c] = IF c \in Counted(d) THEN Send(conn[c], "install") ELSE conn[c]
                         /\ conn[c] \in ConnType
    BY DEF AskPrograms, Tell, Inv, Types
  <1>3. \A c \in Conns : /\ conn'[c] \in ConnType /\ conn'[c].open = conn[c].open
                         /\ conn'[c].here = conn[c].here /\ conn'[c].hello = conn[c].hello
                         /\ conn'[c].d = conn[c].d
                         /\ conn'[c].out = IF c \in Counted(d) /\ conn[c].open THEN Append(conn[c].out, "install")
                                           ELSE conn[c].out
    BY <1>2, SendType DEF Lines
  <1>4. Types'
    <2>1. conn' \in [Conns -> ConnType]
      BY <1>3 DEF AskPrograms, Tell
    <2> QED
      BY <1>1, <2>1 DEF Inv, Types
  <1>5. OneEnd' /\ CountedIsUp'
    BY <1>1, <1>3, <1>4 DEF Inv, Types, OneEnd, CountedIsUp
  <1>6. ASSUME cur # None
        PROVE  /\ cur \in Conns /\ conn[cur].out \in Seq(Lines) /\ conn[cur].open = TRUE
               /\ cur \in Counted(d) <=> conn[cur].d = d /\ conn[cur].hello = "counted"
    BY <1>2, <1>6 DEF Inv, Types, OneEnd, Counted, ConnType
  <1>7. Welcome'
    <2>1. "install" \in Lines
      BY DEF Lines
    <2>2. CASE cur = None
      BY <1>1, <2>2 DEF Inv, Types, Welcome
    <2>3. CASE cur # None /\ cur \notin Counted(d)
      <3>1. /\ conn'[cur].out = conn[cur].out /\ conn'[cur].hello = conn[cur].hello
            /\ conn'[cur].here = conn[cur].here
        BY <1>3, <1>6, <2>3
      <3> QED
        BY <1>1, <3>1 DEF Inv, Welcome
    <2>4. CASE cur # None /\ cur \in Counted(d)
      <3>1. conn[cur].hello = "counted" /\ conn[cur].here = TRUE
        BY <1>6, <2>4 DEF Inv, CountedIsUp
      <3>2. /\ conn'[cur].out = Append(conn[cur].out, "install")
            /\ conn'[cur].hello = "counted" /\ conn'[cur].here = TRUE
        BY <1>3, <1>6, <2>4, <3>1
      <3>3. at = "reply" => conn[cur].out # <<>> /\ Head(conn[cur].out) = "ok"
        BY <3>1 DEF Inv, Welcome
      <3>4. /\ conn'[cur].out # <<>>
            /\ Head(conn'[cur].out) = IF conn[cur].out = <<>> THEN "install" ELSE Head(conn[cur].out)
        BY <1>6, <2>1, <2>4, <3>2, AppendSays
      <3>5. at # "hello"
        BY <3>1 DEF Inv, Welcome
      <3> QED
        BY <1>1, <3>2, <3>3, <3>4, <3>5 DEF Welcome
    <2> QED
      BY <2>2, <2>3, <2>4
  <1>8. Heard'
    <2>1. "install" \in Lines
      BY DEF Lines
    <2> QED
      BY <1>1, <1>3, <1>6, <2>1, AppendSays DEF Inv, Heard
  <1> QED
    BY <1>4, <1>5, <1>7, <1>8 DEF Inv

\* A daemon that counts nobody goes on to what it does alone, and back.
LEMMA LifeKeeps ==
  ASSUME Inv, NEW d \in Daemons, NEW l, life' = [life EXCEPT ![d] = l], Counted(d) = {} \/ l = "up",
         sent' \subseteq sent, listening' \in Daemons \cup {None}, UNCHANGED <<at, cur, told, conn>>
  PROVE  Inv'
  <1>1. Types' /\ OneEnd' /\ Welcome' /\ Heard'
    BY DEF Inv, Types, OneEnd, Welcome, Heard
  <1>2. CountedIsUp'
    BY DEF Inv, Types, CountedIsUp, Counted
  <1> QED
    BY <1>1, <1>2 DEF Inv

\* Its ends close: whoever was linked to it has still to read what it sent, and is not counted.
LEMMA UnlinkKeeps ==
  ASSUME Inv, NEW d \in Daemons, Unlink(d), NEW l, life' = [life EXCEPT ![d] = l], sent' \subseteq sent,
         UNCHANGED <<at, cur, told>>
  PROVE  Inv'
  <1>1. \A c \in Conns : /\ conn'[c] = IF conn[c].d = d THEN DaemonEnd(conn[c]) ELSE conn[c]
                         /\ conn[c] \in ConnType
    BY DEF Unlink, Inv, Types
  <1>2. \A c \in Conns :
          /\ conn'[c] \in ConnType /\ conn'[c].open = conn[c].open
          /\ conn'[c].hello # "none" => conn'[c] = conn[c] /\ conn[c].d # d
          /\ conn[c].open => conn'[c].out = conn[c].out
          /\ conn'[c].here => conn'[c] = conn[c]
    BY <1>1, DaemonEndType
  <1>3. Types'
    <2>1. conn' \in [Conns -> ConnType]
      BY <1>2 DEF Unlink
    <2> QED
      BY <2>1 DEF Inv, Types, Unlink
  <1>4. OneEnd'
    BY <1>2 DEF Inv, Types, OneEnd
  <1>5. CountedIsUp'
    BY <1>2 DEF Inv, Types, CountedIsUp
  <1>6. Welcome' /\ Heard'
    BY <1>2 DEF Inv, Types, OneEnd, Welcome, Heard
  <1> QED
    BY <1>3, <1>4, <1>5, <1>6 DEF Inv

LEMMA InvStep == ASSUME Inv, [Next]_vars PROVE Inv'
  <1> USE DEF program, daemon
  <1>1. CASE Launch
    <2>1. at = "off" /\ at' = "connect" /\ UNCHANGED <<cur, conn, life, sent, listening>>
      BY <1>1 DEF Launch
    <2> QED
      BY <2>1 DEF Inv, Types, OneEnd, Welcome, CountedIsUp, Heard
  <1>2. CASE Exit
    BY <1>2, EndKeeps DEF Exit
  <1>3. CASE LinkThread
    BY <1>3, LinkThreadKeeps
  <1>4. CASE Decide \/ Replace \/ UNCHANGED vars
    <2>1. UNCHANGED <<at, cur, told, conn, life, sent, listening>>
      BY <1>4 DEF Decide, Replace, vars
    <2> QED
      BY <2>1 DEF Inv, Types, OneEnd, Welcome, CountedIsUp, Heard
  <1>5. CASE RunDaemon
    <2>1. CASE UNCHANGED <<life, listening>>
      BY <1>5, <2>1 DEF RunDaemon, Inv, Types, OneEnd, Welcome, CountedIsUp, Heard
    <2>2. ASSUME NEW d \in Daemons, life' = [life EXCEPT ![d] = "up"], listening' = d PROVE Inv'
      BY <1>5, <2>2, LifeKeeps DEF RunDaemon
    <2> QED
      BY <1>5, <2>1, <2>2 DEF RunDaemon
  <1>6. ASSUME NEW d \in Daemons, NEW c \in Conns, Answer(d, c) \/ Drop(d, c) PROVE Inv'
    BY <1>6, AnswerKeeps, DropKeeps
  <1>7. ASSUME NEW d \in Daemons, Loop(d) PROVE Inv'
    <2>1. CASE AskPrograms(d)
      BY <2>1, AskProgramsKeeps
    <2>2. CASE BeginInstall(d)
      BY <2>2, LifeKeeps DEF BeginInstall, NoneLinked, Inv, Types
    <2>3. CASE EndInstall(d)
      BY <2>3, LifeKeeps DEF EndInstall, Inv, Types
    <2>4. CASE CloseListener(d)
      BY <2>4 DEF CloseListener, Inv, Types, OneEnd, Welcome, CountedIsUp, Heard
    <2>5. CASE Stop(d)
      BY <2>5, LifeKeeps DEF Stop, NoneLinked, Inv, Types
    <2>6. CASE CloseLinks(d)
      BY <2>6, UnlinkKeeps DEF CloseLinks
    <2>7. CASE Stopped(d)
      <3>1. Counted(d) = {}
        BY <2>7 DEF Stopped, Inv, CountedIsUp, Counted
      <3>2. /\ life' = [life EXCEPT ![d] = "off"] /\ sent' \subseteq sent
            /\ UNCHANGED <<at, cur, told, conn, listening>>
        BY <2>7 DEF Stopped, Gone
      <3> QED
        BY <3>1, <3>2, LifeKeeps DEF Inv, Types
    <2> QED
      BY <1>7, <2>1, <2>2, <2>3, <2>4, <2>5, <2>6, <2>7 DEF Loop
  <1>8. ASSUME NEW d \in Daemons, BeginServing(d) \/ Serve(d) \/ Want(d) \/ BeginTransfer(d)
                                  \/ BeginUpdating(d) \/ EndTransfer(d)
        PROVE  Inv'
    <2>1. UNCHANGED <<at, cur, told, conn, life, sent, listening>>
      BY <1>8 DEF BeginServing, Serve, Want, BeginTransfer, BeginUpdating, EndTransfer
    <2> QED
      BY <2>1 DEF Inv, Types, OneEnd, Welcome, CountedIsUp, Heard
  <1>9. ASSUME NEW d \in Daemons, Crash(d) PROVE Inv'
    <2>1. life' = [life EXCEPT ![d] = "off"] /\ sent' \subseteq sent /\ UNCHANGED <<at, cur, told>>
      BY <1>9 DEF Crash, Gone
    <2> QED
      BY <1>9, <2>1, UnlinkKeeps DEF Crash
  <1> QED
    BY <1>1, <1>2, <1>3, <1>4, <1>5, <1>6, <1>7, <1>8, <1>9 DEF Next

LEMMA InvHolds == Spec => []Inv
  BY InvInit, InvStep, PTL DEF Spec

\* LinkedIsCounted: a program that knows itself linked is counted by a daemon that is neither
\* installing nor on its way out (webui_daemon.cpp's loop, webui_link.cpp's run()).
THEOREM Counts == Spec => []LinkedIsCounted
  <1>1. Inv => LinkedIsCounted
    BY DEF Inv, Types, Welcome, CountedIsUp, LinkedIsCounted, LinkedTo
  <1> QED
    BY <1>1, InvHolds, PTL

\* InstallIsHeard: once a daemon has asked for the title to close, a program linked to it knows
\* or has it to read, one that linked after the request included.
THEOREM Hears == Spec => []InstallIsHeard
  <1>1. Inv => InstallIsHeard
    <2> SUFFICES ASSUME Inv, NEW d \in sent, LinkedTo(d)
                 PROVE  told \/ \E i \in DOMAIN conn[cur].out : conn[cur].out[i] = "install"
      BY DEF InstallIsHeard
    <2>1. cur # None /\ conn[cur].here /\ conn[cur].hello = "counted" /\ conn[cur].d \in sent
      BY DEF Inv, Types, Welcome, LinkedTo
    <2>2. DOMAIN conn[cur].out = 1 .. Len(conn[cur].out)
      BY <2>1 DEF Inv, Types, ConnType
    <2> QED
      BY <2>1, <2>2 DEF Inv, Heard, Says
  <1> QED
    BY <1>1, InvHolds, PTL

-----------------------------------------------------------------------------
(* The types of the rest of the state *)

\* What Inv says nothing of: the link's own flags, who has the WebUI's port, and what each
\* daemon knows of itself.
Others ==
    /\ tried \in BOOLEAN /\ told \in BOOLEAN /\ server \in {"never", "waiting", "decided"}
    /\ loading \in Nat /\ http \in Daemons \cup {Title, None}
    /\ life \in [Daemons -> {"off", "up", "installing", "stopping", "leaving"}]
    /\ root \in [Daemons -> 0..MaxBuild] /\ web \in [Daemons -> {"no", "starting", "yes"}]
    /\ stale \subseteq Daemons /\ wanted \subseteq Daemons /\ sent \subseteq Daemons
    /\ installed \subseteq Daemons /\ busy \subseteq Daemons /\ updating \subseteq Daemons
    /\ build \in 1..MaxBuild /\ budget \in [Events -> Nat]

LEMMA OthersInit == Init => Others
  <1> SUFFICES ASSUME Init PROVE Others
    OBVIOUS
  <1>1. 1 \in 1..MaxBuild /\ 0 \in 0..MaxBuild
    BY LinkAssumption
  <1>2. budget \in [Events -> Nat]
    BY LinkAssumption DEF Init
  <1> QED
    BY <1>1, <1>2 DEF Init, Others

LEMMA SpendType ==
  ASSUME Others, NEW event, Spend(event) PROVE budget' \in [Events -> Nat]
  <1>1. CASE event \in Events
    <2>1. budget[event] - 1 \in Nat
      BY <1>1 DEF Others, Spend
    <2> QED
      BY <2>1 DEF Others, Spend
  <1>2. CASE event \notin Events
    BY <1>2 DEF Others, Spend
  <1> QED
    BY <1>1, <1>2

\* What the link's thread does is all in its connection, its flags and the loader.
LEMMA ThreadOthers == ASSUME Inv, Others, LinkThread PROVE Others'
  <1> USE DEF program, daemon
  <1>1. UNCHANGED <<server, http, life, root, web, stale, wanted, sent, installed, busy, updating, build>>
    BY DEF LinkThread, Connect, StartDaemon, AwaitDaemon, SayHello, HearReply, AwaitStale, Linked
  <1>2. budget' \in [Events -> Nat]
    BY SpendType DEF LinkThread, Connect, StartDaemon, AwaitDaemon, SayHello, HearReply, AwaitStale, Linked, Others
  <1>3. loading' \in Nat
    BY DEF LinkThread, Connect, StartDaemon, AwaitDaemon, SayHello, HearReply, AwaitStale, Linked, Others
  <1>4. told' \in BOOLEAN
    BY DEF LinkThread, Connect, StartDaemon, AwaitDaemon, SayHello, HearReply, AwaitStale, Linked, Others
  <1>5. tried' \in BOOLEAN
    <2>1. CASE HearReply
      <3>1. ASSUME NextLine, AfterReply(Head(conn[cur].out)) PROVE tried' \in BOOLEAN
        <4>1. Head(conn[cur].out) \in Lines
          <5>1. conn[cur].out \in Seq(Lines) /\ conn[cur].out # <<>>
            BY <2>1, <3>1 DEF HearReply, NextLine, Inv, Types, ConnType
          <5> QED
            BY <5>1, HeadTailProperties
        <4>2. Head(conn[cur].out) \in {"ok", "stale", "unknown"}
          BY <2>1, <3>1, <4>1 DEF HearReply, NextLine, Inv, Welcome, Lines
        <4> QED
          BY <3>1, <4>2 DEF AfterReply, Others
      <3> QED
        BY <2>1, <3>1 DEF HearReply, Others
    <2>2. CASE ~HearReply
      BY <2>2 DEF LinkThread, Connect, Connected, StartDaemon, AwaitDaemon, SayHello, AwaitStale, Linked, Others
    <2> QED
      BY <2>1, <2>2
  <1> QED
    BY <1>1, <1>2, <1>3, <1>4, <1>5 DEF Others

LEMMA GoneOthers ==
  ASSUME Others, NEW d \in Daemons, Gone(d), budget' \in [Events -> Nat] PROVE Others'
  <1> USE DEF program
  <1>1. /\ life' \in [Daemons -> {"off", "up", "installing", "stopping", "leaving"}]
        /\ root' \in [Daemons -> 0..MaxBuild] /\ web' \in [Daemons -> {"no", "starting", "yes"}]
    <2>1. 0 \in 0..MaxBuild
      BY LinkAssumption
    <2> QED
      BY <2>1 DEF Gone, Others
  <1>2. /\ stale' \subseteq Daemons /\ wanted' \subseteq Daemons /\ sent' \subseteq Daemons
        /\ installed' \subseteq Daemons /\ busy' \subseteq Daemons /\ updating' \subseteq Daemons
    BY DEF Gone, Others
  <1>3. http' \in Daemons \cup {Title, None} /\ UNCHANGED <<tried, told, server, loading, build>>
    BY DEF Gone, Others
  <1> QED
    BY <1>1, <1>2, <1>3 DEF Others

LEMMA OthersStep == ASSUME Inv, Others, [Next]_vars PROVE Others'
  <1> USE DEF program, daemon
  <1>1. CASE Launch
    <2>1. budget' \in [Events -> Nat]
      BY <1>1, SpendType DEF Launch
    <2> QED
      BY <1>1, <2>1 DEF Launch, Others
  <1>2. CASE Exit
    BY <1>2 DEF Exit, Others
  <1>3. CASE LinkThread
    BY <1>3, ThreadOthers
  <1>4. CASE Decide \/ UNCHANGED vars
    BY <1>4 DEF Decide, vars, Others
  <1>5. CASE RunDaemon
    BY <1>5 DEF RunDaemon, Others
  <1>6. ASSUME NEW d \in Daemons, NEW c \in Conns, Answer(d, c) \/ Drop(d, c) PROVE Others'
    BY <1>6 DEF Answer, Drop, Others
  <1>7. ASSUME NEW d \in Daemons, Loop(d) PROVE Others'
    <2>1. CASE AskPrograms(d)
      BY <2>1 DEF AskPrograms, Others
    <2>2. CASE BeginInstall(d)
      BY <2>2 DEF BeginInstall, Others
    <2>3. CASE EndInstall(d)
      BY <2>3 DEF EndInstall, Others
    <2>4. CASE CloseListener(d) \/ Stop(d)
      BY <2>4 DEF CloseListener, Stop, Others
    <2>5. CASE CloseLinks(d)
      BY <2>5 DEF CloseLinks, Others
    <2>6. CASE Stopped(d)
      <3>1. UNCHANGED budget /\ Gone(d)
        BY <2>6 DEF Stopped
      <3> QED
        BY <3>1, GoneOthers DEF Others
    <2> QED
      BY <1>7, <2>1, <2>2, <2>3, <2>4, <2>5, <2>6 DEF Loop
  <1>8. ASSUME NEW d \in Daemons, BeginServing(d) \/ Serve(d) PROVE Others'
    BY <1>8 DEF BeginServing, Serve, Busy, Others
  <1>9. ASSUME NEW d \in Daemons, Want(d) \/ EndTransfer(d) PROVE Others'
    BY <1>9 DEF Want, EndTransfer, Others
  <1>10. ASSUME NEW d \in Daemons, BeginTransfer(d) \/ BeginUpdating(d) PROVE Others'
    <2>1. budget' \in [Events -> Nat]
      BY <1>10, SpendType DEF BeginTransfer, BeginUpdating
    <2> QED
      BY <1>10, <2>1 DEF BeginTransfer, BeginUpdating, Others
  <1>11. ASSUME NEW d \in Daemons, Crash(d) PROVE Others'
    <2>1. budget' \in [Events -> Nat]
      BY <1>11, SpendType DEF Crash
    <2> QED
      BY <1>11, <2>1, GoneOthers DEF Crash
  <1>12. CASE Replace
    <2>1. budget' \in [Events -> Nat]
      BY <1>12, SpendType DEF Replace
    <2>2. build' \in 1..MaxBuild
      BY <1>12, LinkAssumption DEF Replace, Others
    <2> QED
      BY <1>12, <2>1, <2>2 DEF Replace, Others
  <1> QED
    BY <1>1, <1>2, <1>3, <1>4, <1>5, <1>6, <1>7, <1>8, <1>9, <1>10, <1>11, <1>12 DEF Next

\* LinkIsKept: whatever is launched, killed, copied over the folder or lost, a program that knows
\* itself linked is counted and hears of an install it must close for, and the state of the two
\* processes keeps its types (webui_link.cpp's run(), webui_daemon.cpp's loop).
THEOREM LinkKept == Spec => []LinkIsKept
  <1>1. Inv /\ Others => TypeOK
    BY DEF Inv, Types, Others, ConnType, Lines, TypeOK
  <1>2. Spec => []Others
    BY OthersInit, OthersStep, InvHolds, PTL DEF Spec
  <1>3. TypeOK /\ LinkedIsCounted /\ InstallIsHeard <=> LinkIsKept
    BY DEF LinkIsKept
  <1> QED
    BY <1>1, <1>2, <1>3, InvHolds, Counts, Hears, PTL

-----------------------------------------------------------------------------
(* The build of a program's daemon, if only the WebUI's updates change the folder *)

\* The daemon that has the port is the only one that may install, so no other goes out of date
\* under the programs it counts; one that has installed is stale, and one that is stale has.
Builds ==
    /\ DOMAIN root = Daemons /\ DOMAIN budget = Events /\ budget["replace"] = 0
    /\ stale \subseteq installed
    /\ \A d \in Daemons :
        /\ life[d] \in {"up", "installing", "stopping"} => listening = d
        /\ life[d] = "installing" => d \in installed
        /\ life[d] = "up" => d \in stale \/ root[d] \in {0, build}
        /\ life[d] = "off" => root[d] = 0
    /\ \A c \in Conns : conn[c].hello = "counted" => root[conn[c].d] = build

LEMMA BuildsInit == ASSUME Budget["replace"] = 0, Init PROVE Builds
  BY LinkAssumption DEF Init, Builds, NoConn

LEMMA SpendKeeps ==
  ASSUME Builds, NEW event \in Events \ {"replace"}, Spend(event)
  PROVE  DOMAIN budget' = Events /\ budget'["replace"] = 0
  BY DEF Builds, Spend, Events

\* Nothing of it changes but who is counted, and nobody is that was not.
LEMMA BuildsKept ==
  ASSUME Inv, Builds, UNCHANGED <<life, root, stale, installed, listening, build>>,
         DOMAIN budget' = Events, budget'["replace"] = 0,
         \A c \in Conns : conn'[c].hello = "counted" => conn[c].hello = "counted" /\ conn'[c].d = conn[c].d
  PROVE  Builds'
  BY DEF Builds

\* The programs' own steps count nobody.
LEMMA OneKept ==
  ASSUME Inv, NEW c \in Conns, NEW k \in ConnType, conn' = [conn EXCEPT ![c] = k],
         k.hello = "counted" => conn[c].hello = "counted" /\ k.d = conn[c].d
  PROVE  \A e \in Conns : conn'[e].hello = "counted" => conn[e].hello = "counted" /\ conn'[e].d = conn[e].d
  BY OneChanges

LEMMA HangKept ==
  ASSUME Inv, cur \in Conns, conn' = [conn EXCEPT ![cur] = ProgramEnd(@)]
  PROVE  \A e \in Conns : conn'[e].hello = "counted" => conn[e].hello = "counted" /\ conn'[e].d = conn[e].d
  <1> DEFINE k == ProgramEnd(conn[cur])
  <1>1. k \in ConnType /\ (k.hello = "counted" => conn[cur].hello = "counted" /\ k.d = conn[cur].d)
    BY ProgramEndType DEF Inv, Types
  <1>2. conn' = [conn EXCEPT ![cur] = k]
    OBVIOUS
  <1> HIDE DEF k
  <1> QED
    BY <1>1, <1>2, OneKept

LEMMA FreshType ==
  ASSUME NEW l \in Daemons \cup {None}
  PROVE  /\ [NoConn EXCEPT !.d = l, !.open = TRUE, !.here = TRUE] \in ConnType
         /\ [NoConn EXCEPT !.d = l, !.open = TRUE, !.here = TRUE].hello = "none"
  BY NoConnType DEF ConnType, NoConn

LEMMA ConnectedKept ==
  ASSUME Inv, Connected
  PROVE  \A e \in Conns : conn'[e].hello = "counted" => conn[e].hello = "counted" /\ conn'[e].d = conn[e].d
  <1> PICK c \in Conns :
        conn' = [conn EXCEPT ![c] = [NoConn EXCEPT !.d = listening, !.open = TRUE, !.here = TRUE]]
    BY DEF Connected
  <1> DEFINE k == [NoConn EXCEPT !.d = listening, !.open = TRUE, !.here = TRUE]
  <1>1. k \in ConnType /\ k.hello = "none"
    BY FreshType DEF Inv, Types
  <1> HIDE DEF k
  <1>2. conn' = [conn EXCEPT ![c] = k]
    BY DEF k
  <1> QED
    BY <1>1, <1>2, OneKept

LEMMA ReadKept ==
  ASSUME Inv, cur \in Conns, conn[cur].out # <<>>, conn' = [conn EXCEPT ![cur] = Read(@)]
  PROVE  \A e \in Conns : conn'[e].hello = "counted" => conn[e].hello = "counted" /\ conn'[e].d = conn[e].d
  <1> DEFINE k == Read(conn[cur])
  <1>1. k \in ConnType /\ (k.hello = "counted" => conn[cur].hello = "counted" /\ k.d = conn[cur].d)
    BY ReadType DEF Inv, Types
  <1>2. conn' = [conn EXCEPT ![cur] = k]
    OBVIOUS
  <1> HIDE DEF k
  <1> QED
    BY <1>1, <1>2, OneKept

LEMMA BuildsThread == ASSUME Inv, Builds, LinkThread PROVE Builds'
  <1> DEFINE Kept == \A e \in Conns :
                 conn'[e].hello = "counted" => conn[e].hello = "counted" /\ conn'[e].d = conn[e].d
             Same == UNCHANGED <<life, root, stale, installed, listening, build>>
             Bound == DOMAIN budget' = Events /\ budget'["replace"] = 0
  <1>1. ASSUME Connect \/ AwaitDaemon PROVE Kept /\ Same /\ Bound
    <2>1. Same /\ UNCHANGED budget
      BY <1>1 DEF Connect, AwaitDaemon, daemon
    <2>2. Connected \/ UNCHANGED conn
      BY <1>1 DEF Connect, AwaitDaemon
    <2>3. Kept
      BY <2>2, ConnectedKept
    <2> QED
      BY <2>1, <2>3 DEF Builds
  <1>2. ASSUME StartDaemon \/ AwaitStale PROVE Kept /\ Same /\ Bound
    <2>1. UNCHANGED <<life, root, stale, installed, listening, build, budget, conn>>
      BY <1>2 DEF StartDaemon, AwaitStale, daemon
    <2> QED
      BY <2>1 DEF Builds
  <1>3. ASSUME SayHello PROVE Kept /\ Same /\ Bound
    <2>1. Same /\ UNCHANGED budget /\ cur \in Conns
      BY <1>3 DEF SayHello, daemon, Inv, Types
    <2>2. CASE Hang("connect")
      BY <2>1, <2>2, HangKept DEF Hang, Builds
    <2>3. ASSUME conn' = [conn EXCEPT ![cur].hello = "sent"] PROVE Kept
      <3> DEFINE k == [conn[cur] EXCEPT !.hello = "sent"]
      <3>1. k \in ConnType /\ k.hello = "sent" /\ conn' = [conn EXCEPT ![cur] = k]
        BY <2>1, <2>3 DEF Inv, Types, ConnType
      <3> HIDE DEF k
      <3> QED
        BY <2>1, <3>1, OneKept
    <2> QED
      BY <1>3, <2>1, <2>2, <2>3 DEF SayHello, Builds
  <1>4. ASSUME HearReply PROVE Kept /\ Same /\ Bound
    <2>1. Same /\ cur \in Conns
      BY <1>4 DEF HearReply, daemon, Inv, Types
    <2>2. Bound
      <3>1. UNCHANGED budget \/ Spend("late")
        BY <1>4 DEF HearReply
      <3> QED
        BY <3>1, SpendKeeps DEF Builds, Events
    <2>3. Kept
      <3>1. ASSUME NextLine, conn' = [conn EXCEPT ![cur] = Read(@)] PROVE Kept
        BY <2>1, <3>1, ReadKept DEF NextLine
      <3>2. ASSUME conn' = [conn EXCEPT ![cur] = ProgramEnd(@)] PROVE Kept
        BY <2>1, <3>2, HangKept
      <3>3. ASSUME NextLine, AfterReply(Head(conn[cur].out)) PROVE Kept
        <4>1. Head(conn[cur].out) \in {"ok", "stale", "unknown"}
          BY <1>4, <3>3 DEF HearReply, Inv, Types, Welcome, ConnType, NextLine, Lines
        <4> QED
          BY <3>1, <3>2, <3>3, <4>1 DEF AfterReply, Hang
      <3> QED
        BY <1>4, <3>2, <3>3 DEF HearReply, Hang
    <2> QED
      BY <2>1, <2>2, <2>3
  <1>5. ASSUME Linked PROVE Kept /\ Same /\ Bound
    <2>1. Same /\ UNCHANGED budget /\ cur \in Conns
      BY <1>5 DEF Linked, daemon, Inv, Types
    <2>2. Kept
      BY <1>5, <2>1, ReadKept, HangKept DEF Linked, NextLine, Hang
    <2> QED
      BY <2>1, <2>2 DEF Builds
  <1>6. Kept /\ Same /\ Bound
    BY <1>1, <1>2, <1>3, <1>4, <1>5 DEF LinkThread
  <1> QED
    BY <1>6, BuildsKept

\* A daemon's welcome is for its own build, and one whose hello was refused as another's is stale
\* already.
LEMMA BuildsAnswer == ASSUME Inv, Builds, NEW d \in Daemons, NEW c \in Conns, Answer(d, c) PROVE Builds'
  <1>1. /\ life[d] = "up" /\ conn[c].d = d /\ conn[c] \in ConnType
        /\ UNCHANGED <<life, installed, listening, build, budget>>
    BY DEF Answer, Reads, Inv, Types
  <1>2. ASSUME Current(d), root' = [root EXCEPT ![d] = IF @ = 0 THEN build ELSE @],
               conn' = [conn EXCEPT ![c] = Accept(d, @)], UNCHANGED stale
        PROVE  Builds'
    <2> DEFINE k == Accept(d, conn[c])
    <2>1. k \in ConnType /\ k.d = d
      BY <1>1, AcceptType
    <2> HIDE DEF k
    <2>2. \A e \in Conns : conn'[e] = IF e = c THEN k ELSE conn[e]
      BY <1>2, <2>1, OneChanges DEF k
    <2>3. root'[d] = build /\ DOMAIN root' = Daemons /\ \A e \in Daemons \ {d} : root'[e] = root[e]
      BY <1>2 DEF Current, Builds
    <2>4. \A e \in Conns : conn'[e].hello = "counted" => root'[conn'[e].d] = build
      BY <1>1, <2>1, <2>2, <2>3 DEF Inv, CountedIsUp, Builds
    <2> QED
      BY <1>1, <1>2, <2>3, <2>4 DEF Builds
  <1>3. ASSUME NEW line \in {"unknown", "stale"}, conn' = [conn EXCEPT ![c] = Refuse(@, line)],
               UNCHANGED <<root, stale>>
        PROVE  Builds'
    <2> DEFINE k == Refuse(conn[c], line)
    <2>1. k \in ConnType /\ k.hello = "none"
      <3>1. line \in Lines
        BY DEF Lines
      <3> QED
        BY <1>1, <3>1, RefuseType
    <2> HIDE DEF k
    <2>2. conn' = [conn EXCEPT ![c] = k]
      BY <1>3 DEF k
    <2>3. \A e \in Conns : conn'[e].hello = "counted" => conn[e].hello = "counted" /\ conn'[e].d = conn[e].d
      BY <2>1, <2>2, OneKept
    <2> QED
      BY <1>1, <1>3, <2>3, BuildsKept DEF Builds
  <1>4. ~Current(d) => stale \cup {d} = stale
    BY <1>1 DEF Builds, Current
  <1> QED
    BY <1>2, <1>3, <1>4 DEF Answer

LEMMA BuildsStep == ASSUME Inv, Builds, [Next]_vars PROVE Builds'
  <1> USE DEF program, daemon
  <1>1. CASE Launch
    <2>1. Spend("launch") /\ UNCHANGED <<conn, life, root, stale, installed, listening, build>>
      BY <1>1 DEF Launch
    <2> QED
      BY <2>1, SpendKeeps, BuildsKept DEF Events
  <1>2. CASE Exit
    <2>1. UNCHANGED <<life, root, stale, installed, listening, build, budget>>
      BY <1>2 DEF Exit
    <2>2. \A e \in Conns : conn'[e].hello = "counted" => conn[e].hello = "counted" /\ conn'[e].d = conn[e].d
      BY <1>2, HangKept DEF Exit, Inv, Types
    <2> QED
      BY <2>1, <2>2, BuildsKept DEF Builds
  <1>3. CASE LinkThread
    BY <1>3, BuildsThread
  <1>4. CASE Decide \/ UNCHANGED vars
    <2>1. UNCHANGED <<conn, life, root, stale, installed, listening, build, budget>>
      BY <1>4 DEF Decide, vars
    <2> QED
      BY <2>1, BuildsKept DEF Builds
  <1>5. CASE RunDaemon
    <2>1. UNCHANGED <<conn, root, stale, installed, build, budget>>
      BY <1>5 DEF RunDaemon
    <2>2. CASE UNCHANGED <<life, listening>>
      BY <2>1, <2>2, BuildsKept DEF Builds
    <2>3. ASSUME NEW d \in Daemons, listening = None, life[d] = "off",
                 life' = [life EXCEPT ![d] = "up"], listening' = d
          PROVE  Builds'
      BY <2>1, <2>3, LinkAssumption DEF Builds, Inv, Types
    <2> QED
      BY <1>5, <2>2, <2>3 DEF RunDaemon
  <1>6. ASSUME NEW d \in Daemons, NEW c \in Conns, Answer(d, c) \/ Drop(d, c) PROVE Builds'
    <2>1. CASE Drop(d, c)
      <3>1. NoConn \in ConnType /\ NoConn.hello = "none" /\ conn' = [conn EXCEPT ![c] = NoConn]
        BY <2>1, NoConnType DEF Drop, NoConn
      <3>2. \A e \in Conns : conn'[e].hello = "counted" => conn[e].hello = "counted" /\ conn'[e].d = conn[e].d
        BY <3>1, OneKept
      <3>3. UNCHANGED <<life, root, stale, installed, listening, build, budget>>
        BY <2>1 DEF Drop
      <3> QED
        BY <3>2, <3>3, BuildsKept DEF Builds
    <2> QED
      BY <1>6, <2>1, BuildsAnswer
  <1>7. ASSUME NEW d \in Daemons, Loop(d) PROVE Builds'
    <2>1. CASE AskPrograms(d)
      <3>1. UNCHANGED <<life, root, stale, installed, listening, build, budget>>
        BY <2>1 DEF AskPrograms
      <3>2. ASSUME NEW c \in Conns
            PROVE  conn'[c].hello = conn[c].hello /\ conn'[c].d = conn[c].d
        <4>1. conn'[c] = IF c \in Counted(d) THEN Send(conn[c], "install") ELSE conn[c]
          BY <2>1 DEF AskPrograms, Tell
        <4>2. conn[c] \in ConnType /\ "install" \in Lines
          BY DEF Inv, Types, Lines
        <4> QED
          BY <4>1, <4>2, SendType
      <3> QED
        BY <3>1, <3>2, BuildsKept DEF Builds
    <2>2. CASE BeginInstall(d)
      <3>1. /\ life[d] = "up" /\ life' = [life EXCEPT ![d] = "installing"] /\ installed' = installed \cup {d}
            /\ UNCHANGED <<conn, root, stale, listening, build, budget>>
        BY <2>2 DEF BeginInstall
      <3> QED
        BY <3>1 DEF Builds, Inv, Types
    <2>3. CASE EndInstall(d)
      <3>1. /\ life[d] = "installing" /\ life' = [life EXCEPT ![d] = "up"] /\ stale' = stale \cup {d}
            /\ UNCHANGED <<conn, root, installed, listening, budget>>
        BY <2>3 DEF EndInstall
      <3>2. listening = d /\ d \in installed
        BY <3>1 DEF Builds
      <3>3. \A c \in Conns : conn[c].hello # "counted"
        <4> SUFFICES ASSUME NEW c \in Conns, conn[c].hello = "counted" PROVE FALSE
          OBVIOUS
        <4>1. conn[c].d \in Daemons /\ life[conn[c].d] = "up"
          BY DEF Inv, CountedIsUp
        <4>2. conn[c].d = d
          BY <3>2, <4>1 DEF Builds
        <4> QED
          BY <3>1, <4>1, <4>2
      <3>4. \A e \in Daemons \ {d} : life'[e] \notin {"up", "installing", "stopping"} /\ life'[e] = life[e]
        BY <3>1, <3>2 DEF Builds, Inv, Types
      <3>5. life'[d] = "up"
        BY <3>1 DEF Inv, Types
      <3> QED
        BY <3>1, <3>2, <3>3, <3>4, <3>5 DEF Builds
    <2>4. CASE CloseListener(d)
      BY <2>4 DEF CloseListener, Builds
    <2>5. CASE Stop(d)
      <3>1. /\ life[d] = "up" /\ life' = [life EXCEPT ![d] = "stopping"]
            /\ UNCHANGED <<conn, root, stale, installed, listening, build, budget>>
        BY <2>5 DEF Stop
      <3> QED
        BY <3>1 DEF Builds, Inv, Types
    <2>6. CASE CloseLinks(d)
      <3>1. /\ life' = [life EXCEPT ![d] = "leaving"] /\ Unlink(d)
            /\ UNCHANGED <<root, stale, installed, build, budget>>
        BY <2>6 DEF CloseLinks
      <3>2. ASSUME NEW c \in Conns, conn'[c].hello = "counted" PROVE conn'[c] = conn[c]
        <4>1. conn'[c] = IF conn[c].d = d THEN DaemonEnd(conn[c]) ELSE conn[c]
          BY <3>1 DEF Unlink
        <4> QED
          BY <3>2, <4>1, DaemonEndType DEF Inv, Types
      <3>3. listening' = IF listening = d THEN None ELSE listening
        BY <3>1 DEF Unlink
      <3> QED
        BY <3>1, <3>2, <3>3 DEF Builds, Inv, Types
    <2>7. CASE Stopped(d)
      <3>1. /\ life[d] = "leaving" /\ life' = [life EXCEPT ![d] = "off"] /\ root' = [root EXCEPT ![d] = 0]
            /\ stale' = stale \ {d} /\ installed' = installed \ {d}
            /\ UNCHANGED <<conn, listening, build, budget>>
        BY <2>7 DEF Stopped, Gone
      <3>2. \A c \in Conns : conn[c].hello = "counted" => conn[c].d \in Daemons \ {d}
        BY <3>1 DEF Inv, CountedIsUp
      <3> QED
        BY <3>1, <3>2 DEF Builds, Inv, Types
    <2> QED
      BY <1>7, <2>1, <2>2, <2>3, <2>4, <2>5, <2>6, <2>7 DEF Loop
  <1>8. ASSUME NEW d \in Daemons, BeginServing(d) \/ Serve(d) \/ Want(d) \/ BeginTransfer(d)
                                  \/ BeginUpdating(d) \/ EndTransfer(d)
        PROVE  Builds'
    <2>1. UNCHANGED <<conn, life, root, stale, installed, listening, build>>
      BY <1>8 DEF BeginServing, Serve, Want, BeginTransfer, BeginUpdating, EndTransfer
    <2>2. UNCHANGED budget \/ Spend("upload") \/ Spend("fetch")
      BY <1>8 DEF BeginServing, Serve, Want, BeginTransfer, BeginUpdating, EndTransfer
    <2>3. DOMAIN budget' = Events /\ budget'["replace"] = 0
      BY <2>2, SpendKeeps DEF Builds, Events
    <2> QED
      BY <2>1, <2>3, BuildsKept
  <1>9. ASSUME NEW d \in Daemons, Crash(d) PROVE Builds'
    <2>1. /\ life' = [life EXCEPT ![d] = "off"] /\ root' = [root EXCEPT ![d] = 0]
          /\ stale' = stale \ {d} /\ installed' = installed \ {d}
          /\ Unlink(d) /\ UNCHANGED build
      BY <1>9 DEF Crash, Gone
    <2>2. DOMAIN budget' = Events /\ budget'["replace"] = 0
      BY <1>9, SpendKeeps DEF Crash, Events
    <2>3. ASSUME NEW c \in Conns, conn'[c].hello = "counted"
          PROVE  conn'[c] = conn[c] /\ conn[c].d \in Daemons \ {d}
      <3>1. conn'[c] = IF conn[c].d = d THEN DaemonEnd(conn[c]) ELSE conn[c]
        BY <2>1 DEF Unlink
      <3> QED
        BY <2>3, <3>1, DaemonEndType DEF Inv, Types, CountedIsUp
    <2>4. listening' = IF listening = d THEN None ELSE listening
      BY <2>1 DEF Unlink
    <2> QED
      BY <2>1, <2>2, <2>3, <2>4 DEF Builds, Inv, Types
  <1>10. CASE Replace
    BY <1>10 DEF Replace, Spend, Builds
  <1> QED
    BY <1>1, <1>2, <1>3, <1>4, <1>5, <1>6, <1>7, <1>8, <1>9, <1>10 DEF Next

\* LinkedToItsBuild: if only the WebUI's updates change the folder, a program is never served by
\* a daemon of another build than the folder's (webui_daemon.cpp's answer to a hello, install()).
THEOREM ServedByItsBuild == ASSUME Budget["replace"] = 0 PROVE Spec => []LinkedToItsBuild
  <1>1. Inv /\ Builds => LinkedToItsBuild
    BY DEF Inv, Types, Welcome, CountedIsUp, Builds, LinkedToItsBuild, LinkedTo
  <1>2. Init => Builds
    BY BuildsInit
  <1> QED
    BY <1>1, <1>2, InvHolds, BuildsStep, PTL DEF Spec

-----------------------------------------------------------------------------
(* The two updaters over one folder.                                         *)

\* The daemon's updater, and RetroArch's.
DP == INSTANCE Update_proofs WITH
    Files <- TwoFiles, Always <- TwoAlways, MaxRelease <- TwoReleases, InterruptRecovery <- FALSE,
    dest <- twoDest, stage <- twoStage, backup <- twoBackup, plan <- twoPlan,
    journal <- twoJournal, jfile <- twoJfile, result <- twoResult, main <- twoDmain,
    todo <- twoDtodo, ok <- twoDok, worker <- twoDworker, state <- twoDstate,
    quit <- twoDquit, cancel <- twoDcancel, release <- twoDrelease
TP == INSTANCE Update_proofs WITH
    Files <- TwoFiles, Always <- TwoAlways, MaxRelease <- TwoReleases, InterruptRecovery <- FALSE,
    dest <- twoDest, stage <- twoStage, backup <- twoBackup, plan <- twoPlan,
    journal <- twoJournal, jfile <- twoJfile, result <- twoResult, main <- twoTmain,
    todo <- twoTtodo, ok <- twoTok, worker <- twoTworker, state <- twoTstate,
    quit <- twoTquit, cancel <- twoTcancel, release <- twoTrelease

\* A step of an Update of Updaters is one of the Update the theorems of Update_proofs are about.
LEMMA DaemonIsUpdate ==
  /\ Two!D!Start => DP!Start
  /\ Two!D!RecoverPath => DP!RecoverPath
  /\ Two!D!InitDone => DP!InitDone
  /\ Two!D!Download => DP!Download
  /\ Two!D!RequestInstall => DP!RequestInstall
  /\ Two!D!Stop => DP!Stop
  /\ Two!D!WorkerClean => DP!WorkerClean
  /\ Two!D!WorkerFetch => DP!WorkerFetch
  /\ Two!D!WorkerStage => DP!WorkerStage
  /\ Two!D!WorkerPlan => DP!WorkerPlan
  /\ Two!D!InstallBegin => DP!InstallBegin
  /\ Two!D!JournalOpen => DP!JournalOpen
  /\ Two!D!JournalWrite => DP!JournalWrite
  /\ Two!D!MakeBackup => DP!MakeBackup
  /\ Two!D!MoveOld => DP!MoveOld
  /\ Two!D!PlaceNew => DP!PlaceNew
  /\ Two!D!Commit => DP!Commit
  /\ Two!D!SaveResult => DP!SaveResult
  /\ Two!D!Clean => DP!Clean
  /\ Two!D!InstallUndone => DP!InstallUndone
  /\ Two!D!Crash => DP!Crash
  <1>1. Two!D!Start => DP!Start
    BY DEF Two!D!Start, DP!Start, Two!D!Recover, DP!Recover, Two!D!disk, DP!disk
  <1>2. Two!D!RecoverPath => DP!RecoverPath
    BY DEF Two!D!RecoverPath, DP!RecoverPath, Two!D!Recovering, DP!Recovering, Two!D!Greatest, DP!Greatest, Two!D!Advance, DP!Advance, Two!D!RestorePath, DP!RestorePath, Two!D!Absent, DP!Absent
  <1>3. Two!D!InitDone => DP!InitDone
    BY DEF Two!D!InitDone, DP!InitDone, Two!D!RecoverVerdict, DP!RecoverVerdict, Two!D!StartState, DP!StartState
  <1>4. Two!D!Download => DP!Download
    BY DEF Two!D!Download, DP!Download, Two!D!Serving, DP!Serving, Two!D!MayDownload, DP!MayDownload, Two!D!Working, DP!Working, Two!D!disk, DP!disk
  <1>5. Two!D!RequestInstall => DP!RequestInstall
    BY DEF Two!D!RequestInstall, DP!RequestInstall, Two!D!Serving, DP!Serving, Two!D!disk, DP!disk
  <1>6. Two!D!Stop => DP!Stop
    BY DEF Two!D!Stop, DP!Stop, Two!D!disk, DP!disk
  <1>7. Two!D!WorkerClean => DP!WorkerClean
    BY DEF Two!D!WorkerClean, DP!WorkerClean, Two!D!WorkerFails, DP!WorkerFails, Two!D!Removed, DP!Removed, Two!D!Paths, DP!Paths, Two!D!Absent, DP!Absent
  <1>8. Two!D!WorkerFetch => DP!WorkerFetch
    BY DEF Two!D!WorkerFetch, DP!WorkerFetch, Two!D!WorkerFails, DP!WorkerFails, Two!D!disk, DP!disk
  <1>9. Two!D!WorkerStage => DP!WorkerStage
    BY DEF Two!D!WorkerStage, DP!WorkerStage, Two!D!WorkerFails, DP!WorkerFails, Two!D!Paths, DP!Paths, Two!D!Absent, DP!Absent
  <1>10. Two!D!WorkerPlan => DP!WorkerPlan
    BY DEF Two!D!WorkerPlan, DP!WorkerPlan, Two!D!WorkerFails, DP!WorkerFails, Two!D!Paths, DP!Paths, Two!D!Absent, DP!Absent
  <1>11. Two!D!InstallBegin => DP!InstallBegin
    BY DEF Two!D!InstallBegin, DP!InstallBegin, Two!D!Working, DP!Working, Two!D!disk, DP!disk
  <1>12. Two!D!JournalOpen => DP!JournalOpen
    BY DEF Two!D!JournalOpen, DP!JournalOpen
  <1>13. Two!D!JournalWrite => DP!JournalWrite
    BY DEF Two!D!JournalWrite, DP!JournalWrite
  <1>14. Two!D!MakeBackup => DP!MakeBackup
    BY DEF Two!D!MakeBackup, DP!MakeBackup, Two!D!Recover, DP!Recover, Two!D!disk, DP!disk
  <1>15. Two!D!MoveOld => DP!MoveOld
    BY DEF Two!D!MoveOld, DP!MoveOld, Two!D!Least, DP!Least, Two!D!Absent, DP!Absent, Two!D!Recover, DP!Recover
  <1>16. Two!D!PlaceNew => DP!PlaceNew
    BY DEF Two!D!PlaceNew, DP!PlaceNew, Two!D!Least, DP!Least, Two!D!Absent, DP!Absent, Two!D!Advance, DP!Advance, Two!D!Recover, DP!Recover
  <1>17. Two!D!Commit => DP!Commit
    BY DEF Two!D!Commit, DP!Commit
  <1>18. Two!D!SaveResult => DP!SaveResult
    BY DEF Two!D!SaveResult, DP!SaveResult
  <1>19. Two!D!Clean => DP!Clean
    BY DEF Two!D!Clean, DP!Clean, Two!D!Removed, DP!Removed, Two!D!Paths, DP!Paths, Two!D!Absent, DP!Absent
  <1>20. Two!D!InstallUndone => DP!InstallUndone
    BY DEF Two!D!InstallUndone, DP!InstallUndone, Two!D!RecoverVerdict, DP!RecoverVerdict
  <1>21. Two!D!Crash => DP!Crash
    BY DEF Two!D!Crash, DP!Crash, Two!D!Recovering, DP!Recovering, Two!D!disk, DP!disk
  <1> QED
    BY <1>1, <1>2, <1>3, <1>4, <1>5, <1>6, <1>7, <1>8, <1>9, <1>10, <1>11, <1>12, <1>13, <1>14, <1>15, <1>16, <1>17, <1>18, <1>19, <1>20, <1>21


LEMMA TitleIsUpdate ==
  /\ Two!T!Start => TP!Start
  /\ Two!T!RecoverPath => TP!RecoverPath
  /\ Two!T!InitDone => TP!InitDone
  /\ Two!T!Download => TP!Download
  /\ Two!T!RequestInstall => TP!RequestInstall
  /\ Two!T!Stop => TP!Stop
  /\ Two!T!WorkerClean => TP!WorkerClean
  /\ Two!T!WorkerFetch => TP!WorkerFetch
  /\ Two!T!WorkerStage => TP!WorkerStage
  /\ Two!T!WorkerPlan => TP!WorkerPlan
  /\ Two!T!InstallBegin => TP!InstallBegin
  /\ Two!T!JournalOpen => TP!JournalOpen
  /\ Two!T!JournalWrite => TP!JournalWrite
  /\ Two!T!MakeBackup => TP!MakeBackup
  /\ Two!T!MoveOld => TP!MoveOld
  /\ Two!T!PlaceNew => TP!PlaceNew
  /\ Two!T!Commit => TP!Commit
  /\ Two!T!SaveResult => TP!SaveResult
  /\ Two!T!Clean => TP!Clean
  /\ Two!T!InstallUndone => TP!InstallUndone
  /\ Two!T!Crash => TP!Crash
  <1>1. Two!T!Start => TP!Start
    BY DEF Two!T!Start, TP!Start, Two!T!Recover, TP!Recover, Two!T!disk, TP!disk
  <1>2. Two!T!RecoverPath => TP!RecoverPath
    BY DEF Two!T!RecoverPath, TP!RecoverPath, Two!T!Recovering, TP!Recovering, Two!T!Greatest, TP!Greatest, Two!T!Advance, TP!Advance, Two!T!RestorePath, TP!RestorePath, Two!T!Absent, TP!Absent
  <1>3. Two!T!InitDone => TP!InitDone
    BY DEF Two!T!InitDone, TP!InitDone, Two!T!RecoverVerdict, TP!RecoverVerdict, Two!T!StartState, TP!StartState
  <1>4. Two!T!Download => TP!Download
    BY DEF Two!T!Download, TP!Download, Two!T!Serving, TP!Serving, Two!T!MayDownload, TP!MayDownload, Two!T!Working, TP!Working, Two!T!disk, TP!disk
  <1>5. Two!T!RequestInstall => TP!RequestInstall
    BY DEF Two!T!RequestInstall, TP!RequestInstall, Two!T!Serving, TP!Serving, Two!T!disk, TP!disk
  <1>6. Two!T!Stop => TP!Stop
    BY DEF Two!T!Stop, TP!Stop, Two!T!disk, TP!disk
  <1>7. Two!T!WorkerClean => TP!WorkerClean
    BY DEF Two!T!WorkerClean, TP!WorkerClean, Two!T!WorkerFails, TP!WorkerFails, Two!T!Removed, TP!Removed, Two!T!Paths, TP!Paths, Two!T!Absent, TP!Absent
  <1>8. Two!T!WorkerFetch => TP!WorkerFetch
    BY DEF Two!T!WorkerFetch, TP!WorkerFetch, Two!T!WorkerFails, TP!WorkerFails, Two!T!disk, TP!disk
  <1>9. Two!T!WorkerStage => TP!WorkerStage
    BY DEF Two!T!WorkerStage, TP!WorkerStage, Two!T!WorkerFails, TP!WorkerFails, Two!T!Paths, TP!Paths, Two!T!Absent, TP!Absent
  <1>10. Two!T!WorkerPlan => TP!WorkerPlan
    BY DEF Two!T!WorkerPlan, TP!WorkerPlan, Two!T!WorkerFails, TP!WorkerFails, Two!T!Paths, TP!Paths, Two!T!Absent, TP!Absent
  <1>11. Two!T!InstallBegin => TP!InstallBegin
    BY DEF Two!T!InstallBegin, TP!InstallBegin, Two!T!Working, TP!Working, Two!T!disk, TP!disk
  <1>12. Two!T!JournalOpen => TP!JournalOpen
    BY DEF Two!T!JournalOpen, TP!JournalOpen
  <1>13. Two!T!JournalWrite => TP!JournalWrite
    BY DEF Two!T!JournalWrite, TP!JournalWrite
  <1>14. Two!T!MakeBackup => TP!MakeBackup
    BY DEF Two!T!MakeBackup, TP!MakeBackup, Two!T!Recover, TP!Recover, Two!T!disk, TP!disk
  <1>15. Two!T!MoveOld => TP!MoveOld
    BY DEF Two!T!MoveOld, TP!MoveOld, Two!T!Least, TP!Least, Two!T!Absent, TP!Absent, Two!T!Recover, TP!Recover
  <1>16. Two!T!PlaceNew => TP!PlaceNew
    BY DEF Two!T!PlaceNew, TP!PlaceNew, Two!T!Least, TP!Least, Two!T!Absent, TP!Absent, Two!T!Advance, TP!Advance, Two!T!Recover, TP!Recover
  <1>17. Two!T!Commit => TP!Commit
    BY DEF Two!T!Commit, TP!Commit
  <1>18. Two!T!SaveResult => TP!SaveResult
    BY DEF Two!T!SaveResult, TP!SaveResult
  <1>19. Two!T!Clean => TP!Clean
    BY DEF Two!T!Clean, TP!Clean, Two!T!Removed, TP!Removed, Two!T!Paths, TP!Paths, Two!T!Absent, TP!Absent
  <1>20. Two!T!InstallUndone => TP!InstallUndone
    BY DEF Two!T!InstallUndone, TP!InstallUndone, Two!T!RecoverVerdict, TP!RecoverVerdict
  <1>21. Two!T!Crash => TP!Crash
    BY DEF Two!T!Crash, TP!Crash, Two!T!Recovering, TP!Recovering, Two!T!disk, TP!disk
  <1> QED
    BY <1>1, <1>2, <1>3, <1>4, <1>5, <1>6, <1>7, <1>8, <1>9, <1>10, <1>11, <1>12, <1>13, <1>14, <1>15, <1>16, <1>17, <1>18, <1>19, <1>20, <1>21

Working == {"clean", "fetch", "stage", "plan"}
Installs == {"journal", "write", "backup", "move", "place", "saved", "clean", "rollback", "nobackup"}
Serves == {"up", "done"} \cup Installs

LEMMA Phases ==
  /\ DP!Working = Working /\ TP!Working = Working
  /\ DP!Installing = Installs /\ TP!Installing = Installs
  /\ Two!D!Working = Working /\ Two!T!Working = Working
  /\ Two!D!Installing = Installs /\ Two!T!Installing = Installs
  /\ DP!Recovering = {"init", "rollback", "nobackup"} /\ TP!Recovering = {"init", "rollback", "nobackup"}
  /\ DP!Mains = {"off", "init", "busy", "up", "stopping", "done"} \cup Installs
  /\ TP!Mains = {"off", "init", "busy", "up", "stopping", "done"} \cup Installs
  BY DEF DP!Working, TP!Working, Working, DP!Installing, TP!Installing, Two!D!Working, Two!T!Working,
         Two!D!Installing, Two!T!Installing, Two!D!Recovering, Two!T!Recovering, Installs, DP!Recovering,
         TP!Recovering, DP!Mains, TP!Mains

\* What initialize() found is whether the journal is there.
LEMMA FoundTells ==
  \A found, journal : found = (journal # "none") =>
      (journal = "none" => found = FALSE) /\ (journal # "none" => found = TRUE)
  <1>1. \A journal : (journal = "none" => (journal # "none") = FALSE) /\ (journal # "none" => (journal # "none") = TRUE)
    OBVIOUS
  <1> QED
    BY <1>1, Zenon

\* A process whose initialize() found no journal has nothing to undo, whatever comes of the journal.
DaemonIdle == twoDmain = "init" /\ ~twoDfound
TitleIdle  == twoTmain = "init" /\ ~twoTfound
DaemonUndoes == twoDmain \in {"init", "rollback", "nobackup"} /\ ~DaemonIdle
TitleUndoes  == twoTmain \in {"init", "rollback", "nobackup"} /\ ~TitleIdle

\* A process works on the folder, or holds an update that it is to install.
DaemonHolds == twoDworker \in Working \/ twoDmain \in Installs \/ (twoDmain = "init" /\ twoDfound) \/ DP!Before
TitleHolds  == twoTworker \in Working \/ twoTmain \in Installs \/ (twoTmain = "init" /\ twoTfound) \/ TP!Before

\* Who has the port: the daemon until it ends, RetroArch until it stops, and it installs after.
Ports ==
    /\ twoHttp \in {"none", "daemon", "title"}
    /\ twoHttp = "daemon" <=> twoDmain \in Serves
    /\ twoHttp = "title" <=> twoTmain = "up"
    /\ twoTmain = "done" => twoTstate # "ready" /\ twoTworker \notin Working

\* What recover() found is there until it is done.
FoundIs ==
    /\ twoDfound \in BOOLEAN /\ twoTfound \in BOOLEAN
    /\ twoDmain = "init" /\ twoDfound => twoJfile # "none"
    /\ twoTmain = "init" /\ twoTfound => twoJfile # "none"

\* The folder once a journal has been undone from its first path to its last, as nobody begun to.
Rest == [p \in 1..TwoFiles |->
            IF ~(twoJfile = "whole" /\ p \in twoJournal) THEN twoDest[p]
            ELSE IF twoBackup[p] # 0 THEN twoBackup[p]
            ELSE IF twoStage[p] # 0 THEN twoDest[p]
            ELSE 0]
OneRest == \A p, q \in TwoAlways : Rest[p] = Rest[q]

\* The folder is of one release, as far as a journal is undone by whoever undoes it.
Trees ==
    /\ DaemonUndoes => DP!OneTree
    /\ TitleUndoes => TP!OneTree
    /\ ~DaemonUndoes /\ ~TitleUndoes => OneRest

DaemonInv ==
    /\ DP!TypeOK /\ DP!Separate /\ DP!BeforeInv /\ DP!StagingInv /\ DP!MovedInv
    /\ DaemonIdle => twoDtodo = {}
    /\ ~DaemonIdle => DP!UndoneInv
TitleInv ==
    /\ TP!TypeOK /\ TP!Separate /\ TP!BeforeInv /\ TP!StagingInv /\ TP!MovedInv
    /\ TitleIdle => twoTtodo = {}
    /\ ~TitleIdle => TP!UndoneInv

TwoInv ==
    /\ DaemonInv /\ TitleInv /\ DP!NoPaths /\ Ports /\ FoundIs /\ Trees
    /\ ~(DaemonHolds /\ TitleHolds)

LEMMA TwoBounds == DP!UpdateAssumption
  <1>1. /\ TwoFiles \in Nat /\ TwoAlways \subseteq 1..TwoFiles /\ TwoReleases \in Nat \ {0}
    BY TwoAssumption DEF Two!UpdatersAssumption
  <1> QED
    BY <1>1 DEF DP!UpdateAssumption, DP!Paths

LEMMA SameAssumption == TP!UpdateAssumption
  BY TwoBounds DEF DP!UpdateAssumption, TP!UpdateAssumption, DP!Paths, TP!Paths

LEMMA BusyIs == \A m : Two!Busy(m) <=> m \in {"init"} \cup Installs
  BY DEF Two!Busy, Two!D!Installing, Two!D!Recovering, Installs

\* Who undoes no journal sees the folder at rest.
LEMMA TreesAre ==
  /\ twoDmain \notin {"init", "rollback", "nobackup"} => DP!Tree = Rest
  /\ twoTmain \notin {"init", "rollback", "nobackup"} => TP!Tree = Rest
  BY Phases DEF DP!Tree, TP!Tree, DP!Pending, TP!Pending, DP!Absent, TP!Absent, DP!Paths, TP!Paths, Rest

-----------------------------------------------------------------------------
(* The daemon's steps.                                                       *)

\* The daemon that found no journal to undo leaves the folder alone.
LEMMA DaemonIdles ==
  ASSUME TwoInv, DaemonIdle, Two!Daemon
  PROVE  /\ Two!DReady /\ UNCHANGED <<Two!disk, Two!game, twoDtodo, twoDok, twoDworker, twoDquit, twoDcancel, twoDrelease, twoDfound>>
         /\ twoDmain' \in {"up", "busy"} /\ twoDstate' \in {"idle", "installed", "error"}
  <1>1. twoDmain = "init" /\ ~twoDfound /\ twoDtodo = {} /\ twoDworker \notin Working
    BY Phases DEF TwoInv, DaemonInv, DaemonIdle, DP!Separate
  <1>2. ~Two!D!Start /\ ~Two!D!Stop /\ ~Two!D!InstallBegin /\ ~Two!D!RecoverPath
    BY <1>1 DEF Two!D!Start, Two!D!Stop, Two!D!InstallBegin, Two!D!RecoverPath
  <1>3. ~Two!D!Crash
    BY <1>1 DEF Two!D!Crash, Two!D!Recovering
  <1>4. ~Two!DRequests
    BY <1>1 DEF TwoInv, Ports, Serves, Installs, Two!DRequests
  <1>5. ~Two!D!Worker
    BY <1>1 DEF Two!D!Worker, Two!D!WorkerClean, Two!D!WorkerFetch, Two!D!WorkerStage, Two!D!WorkerPlan, Working
  <1>6. twoDmain \notin Two!D!Installing
    BY <1>1, Phases DEF Installs
  <1>7. Two!DReady
    BY <1>2, <1>3, <1>4, <1>5, <1>6 DEF Two!Daemon
  <1> QED
    BY <1>1, <1>7 DEF Two!DReady, Two!TakePort, Two!D!StartState, Two!Daemon

\* Otherwise it is at a step of its updater.
LEMMA DaemonActs ==
  ASSUME TwoInv, ~DaemonIdle, Two!Daemon
  PROVE  [DP!Next]_(DP!vars) /\ UNCHANGED <<Two!game, TP!memory>>
  <1>1. UNCHANGED <<Two!game, TP!memory>>
    BY DEF Two!Daemon, Two!game, TP!memory
  <1>2. CASE Two!DReady
    <2>1. CASE twoDfound /\ twoJfile # "none"
      BY <1>1, <1>2, <2>1, DaemonIsUpdate DEF Two!DReady, DP!Next
    <2>2. CASE ~(twoDfound /\ twoJfile # "none")
      BY <1>2, <2>2 DEF Two!DReady, TwoInv, FoundIs, DaemonIdle
    <2> QED
      BY <1>1, <2>1, <2>2
  <1>3. CASE Two!D!Start \/ Two!D!Stop \/ Two!D!Crash \/ Two!D!RecoverPath
    BY <1>1, <1>3, DaemonIsUpdate DEF DP!Next
  <1>4. CASE Two!DRequests
    BY <1>1, <1>4, DaemonIsUpdate DEF Two!DRequests, DP!Next
  <1>5. CASE Two!D!Worker
    BY <1>1, <1>5, DaemonIsUpdate DEF Two!D!Worker, DP!Worker, DP!Next
  <1>6. CASE Two!D!InstallBegin \/ Two!D!Install
    BY <1>1, <1>6, DaemonIsUpdate DEF Two!D!Install, DP!Install, DP!Next
  <1> QED
    BY <1>1, <1>2, <1>3, <1>4, <1>5, <1>6 DEF Two!Daemon

\* Such a step keeps what the daemon relies on, and changes in the folder what Touches says.
LEMMA DaemonSteps ==
  ASSUME DaemonInv, ~DaemonIdle, DP!NoPaths, [DP!Next]_(DP!vars)
  PROVE  DP!TypeOK' /\ DP!Separate' /\ DP!AtomicInv' /\ DP!NoPaths' /\ DP!Touches /\ (DP!OneTree => DP!OneTree')
  <1>0. DP!TypeOK /\ DP!Separate /\ DP!AtomicInv
    BY DEF DaemonInv, DP!AtomicInv
  <1>1. DP!TypeOK'
    BY <1>0, DP!TypeStep, TwoBounds
  <1>2. DP!Separate'
    BY <1>0, DP!SeparateStep, TwoBounds
  <1>3. DP!AtomicInv'
    BY <1>0, DP!AtomicStep, TwoBounds
  <1>4. DP!NoPaths'
    BY <1>0, DP!NoPathsStep, TwoBounds
  <1>5. DP!Touches
    BY <1>0, DP!StepTouches, TwoBounds
  <1>6. DP!OneTree => DP!OneTree'
    BY <1>0, DP!OneTreeStep, TwoBounds
  <1> QED
    BY <1>1, <1>2, <1>3, <1>4, <1>5, <1>6

\* It works on the folder only if it holds it.
LEMMA DaemonTouches ==
  ASSUME TwoInv, ~DaemonIdle, ~DaemonHolds, DP!Touches
  PROVE  UNCHANGED Two!disk
  BY Phases DEF TwoInv, DaemonIdle, DaemonHolds, DP!Touches, DP!disk, Two!disk

\* A step of the daemon leaves the port with whom it may be.
LEMMA DaemonPorts == ASSUME TwoInv, Two!Daemon PROVE Ports'
  <1>1. UNCHANGED <<twoTmain, twoTstate, twoTworker>> /\ Ports
    BY DEF Two!Daemon, Two!game, TwoInv
  <1>2. SUFFICES /\ twoHttp' \in {"none", "daemon", "title"}
                 /\ twoHttp' = "daemon" <=> twoDmain' \in Serves
                 /\ twoHttp' = "title" <=> twoHttp = "title"
    BY <1>1 DEF Ports
  <1>3. CASE Two!D!Start /\ UNCHANGED twoHttp
    <2>1. twoDmain \in {"off", "busy"} /\ twoDmain' = "init"
      BY <1>3 DEF Two!D!Start, Two!D!Recover
    <2> QED
      BY <1>1, <1>3, <2>1 DEF Ports, Serves, Installs
  <1>4. CASE Two!DReady
    <2>1. Two!TakePort("daemon", twoDmain')
      BY <1>4 DEF Two!DReady
    <2>2. twoDmain = "init"
      BY <1>4 DEF Two!DReady, Two!D!InitDone
    <2>3. \/ twoHttp = "none" /\ twoDmain' = "up" /\ twoHttp' = "daemon"
          \/ twoHttp # "none" /\ twoDmain' = "busy" /\ twoHttp' = twoHttp
      BY <2>1 DEF Two!TakePort
    <2> QED
      BY <1>1, <2>2, <2>3 DEF Ports, Serves, Installs
  <1>5. CASE Two!D!Stop /\ twoHttp' = "none"
    <2>1. twoDmain = "up" /\ twoDmain' = "stopping"
      BY <1>5 DEF Two!D!Stop
    <2> QED
      BY <1>1, <1>5, <2>1 DEF Ports, Serves, Installs
  <1>6. CASE Two!D!Crash /\ twoHttp' = (IF twoHttp = "daemon" THEN "none" ELSE twoHttp)
    <2>1. twoDmain' = "off"
      BY <1>6 DEF Two!D!Crash
    <2> QED
      BY <1>1, <1>6, <2>1 DEF Ports, Serves, Installs
  <1>7. CASE Two!D!InstallBegin /\ twoDmain = "up" /\ UNCHANGED twoHttp
    <2>1. twoDmain' = "journal"
      BY <1>7 DEF Two!D!InstallBegin
    <2> QED
      BY <1>1, <1>7, <2>1 DEF Ports, Serves, Installs
  <1>8. CASE (Two!D!RecoverPath \/ Two!DRequests \/ Two!D!Worker) /\ UNCHANGED twoHttp
    <2>1. twoDmain' = twoDmain
      BY <1>8 DEF Two!D!RecoverPath, Two!DRequests, Two!D!Download, Two!D!RequestInstall, Two!D!Worker,
                  Two!D!WorkerClean, Two!D!WorkerFetch, Two!D!WorkerStage, Two!D!WorkerPlan
    <2> QED
      BY <1>1, <1>8, <2>1 DEF Ports
  <1>9. CASE twoDmain \in Two!D!Installing /\ Two!D!Install /\ UNCHANGED twoHttp
    <2>1. twoDmain \in Installs
      BY <1>9, Phases
    <2>2. DP!Install
      BY <1>9, DaemonIsUpdate DEF Two!D!Install, DP!Install
    <2>3. twoDmain' \in {"done"} \cup Installs
      BY <2>1, <2>2 DEF DP!Install, DP!InstallBegin, DP!JournalOpen, DP!JournalWrite, DP!MakeBackup, DP!MoveOld,
                  DP!PlaceNew, DP!Commit, DP!SaveResult, DP!Clean, DP!InstallUndone, DP!Recover, Installs
    <2> QED
      BY <1>1, <1>9, <2>1, <2>3 DEF Serves, Ports
  <1>10. Two!DRequests => UNCHANGED twoHttp
    BY DEF Two!DRequests
  <1> QED
    BY <1>3, <1>4, <1>5, <1>6, <1>7, <1>8, <1>9, <1>10 DEF Two!Daemon

\* Unless the two come together, the daemon does not take hold of the folder while RetroArch has it.
LEMMA DaemonTakes ==
  ASSUME TwoInv, ~DaemonIdle, Two!Daemon, ~twoMet', TitleHolds, DaemonHolds'
  PROVE  FALSE
  <1>1. ~DaemonHolds /\ FoundIs /\ Ports /\ UNCHANGED <<twoTmain, twoTstate, twoTworker>>
    BY DEF TwoInv, Two!Daemon, Two!game
  <1>2. twoDworker \notin Working /\ twoDmain \notin Installs /\ ~(twoDmain = "init" /\ twoDfound) /\ ~DP!Before
    BY <1>1 DEF DaemonHolds
  <1>3. TP!BeforeInv /\ TP!Separate
    BY DEF TwoInv, TitleInv
  <1>4. CASE Two!D!Start /\ Two!Undoes(twoTmain) /\ twoDfound' = (twoJfile # "none")
    <2>1. twoDmain \in {"off", "busy"} /\ twoDmain' = "init" /\ UNCHANGED <<twoDworker, twoDstate>>
      BY <1>4 DEF Two!D!Start, Two!D!Recover
    <2>2. twoDfound'
      BY <1>2, <2>1 DEF DaemonHolds, DP!Before, Installs
    <2>3. twoTmain \notin {"init"} \cup Installs
      BY <1>4, <2>2, BusyIs DEF Two!Undoes
    <2>4. twoJfile = "none"
      BY <1>3, <2>3, Phases DEF TitleHolds, TP!BeforeInv, TP!Before, TP!Separate, Installs
    <2> QED
      <3>1. twoDfound' = FALSE
        BY <1>4, <2>4, FoundTells
      <3> QED
        BY <2>2, <3>1
  <1>5. CASE Two!DReady
    <2>1. twoDmain = "init" /\ twoDfound
      BY <1>5 DEF Two!DReady, Two!D!InitDone, DaemonIdle
    <2> QED
      BY <1>2, <2>1
  <1>6. CASE (Two!D!Stop \/ Two!D!Crash \/ Two!D!RecoverPath) /\ UNCHANGED twoDfound
    BY <1>2, <1>6 DEF Two!D!Stop, Two!D!Crash, Two!D!RecoverPath, DaemonHolds, DP!Before, Installs, Working
  <1>7. CASE Two!DRequests
    <2>1. twoHttp = "daemon" /\ UNCHANGED twoDfound
      BY <1>7 DEF Two!DRequests
    <2>2. ~Two!D!RequestInstall
      BY <1>2 DEF Two!D!RequestInstall, DP!Before
    <2>3. Two!D!Download /\ Two!Shares(twoTmain, twoTworker)
      BY <1>7, <2>2 DEF Two!DRequests
    <2>4. twoTmain \notin {"init", "stopping"} \cup Installs /\ twoTworker \notin Working
      BY <2>3, BusyIs, Phases DEF Two!Shares, Two!Quiet
    <2>5. TP!Before /\ twoTmain # "up"
      BY <1>1, <2>1, <2>4 DEF TitleHolds, Ports
    <2>6. twoTmain \notin {"off", "init", "busy"}
      BY <1>3, <2>5 DEF TP!BeforeInv, TP!Before
    <2> QED
      BY <1>1, <2>4, <2>5, <2>6, Phases DEF TwoInv, TitleInv, TP!TypeOK, TP!Before, Ports, Installs
  <1>8. CASE Two!D!Worker
    BY <1>2, <1>8 DEF Two!D!Worker, Two!D!WorkerClean, Two!D!WorkerFetch, Two!D!WorkerStage, Two!D!WorkerPlan, Working
  <1>9. CASE Two!D!InstallBegin /\ twoDmain = "up"
    BY <1>2, <1>9 DEF Two!D!InstallBegin, DP!Before
  <1>10. twoDmain \notin Two!D!Installing
    BY <1>2, Phases
  <1> QED
    BY <1>4, <1>5, <1>6, <1>7, <1>8, <1>9, <1>10 DEF Two!Daemon

\* RetroArch keeps what it relies on while nothing of it changes, whatever the daemon does to the
\* folder that RetroArch does not hold.
LEMMA TitleSame ==
  ASSUME TitleInv, Trees, TitleUndoes, UNCHANGED <<Two!disk, Two!game>>
  PROVE  TP!OneTree'
  BY DEF Trees, TP!OneTree, TP!Tree, TP!Pending, Two!disk, Two!game

LEMMA TitleIsLeft ==
  ASSUME TitleInv, FoundIs, DP!TypeOK', UNCHANGED Two!game, UNCHANGED Two!disk \/ ~TitleHolds
  PROVE  TitleInv' /\ (TitleHolds' <=> TitleHolds) /\ (TitleUndoes' <=> TitleUndoes)
  <1>1. UNCHANGED <<twoTmain, twoTtodo, twoTok, twoTworker, twoTstate, twoTquit, twoTcancel, twoTrelease, twoTfound>>
    BY DEF Two!game
  <1>2. UNCHANGED TP!memory
    BY <1>1 DEF TP!memory
  <1>3. (TitleHolds' <=> TitleHolds) /\ (TitleUndoes' <=> TitleUndoes) /\ (TitleIdle' <=> TitleIdle)
    BY <1>1 DEF TitleHolds, TitleUndoes, TitleIdle, TP!Before
  <1>4. TP!TypeOK'
    BY <1>1 DEF TitleInv, TP!TypeOK, DP!TypeOK, TP!Paths, DP!Paths, TP!Versions, DP!Versions
  <1>5. CASE ~TitleHolds
    <2>1. TP!Aside
      BY <1>5, Phases DEF TitleHolds, TP!Aside
    <2>2. TP!Separate' /\ TP!BeforeInv' /\ TP!StagingInv' /\ TP!MovedInv'
      BY <1>2, <2>1, TP!AsideKeeps, SameAssumption DEF TitleInv
    <2>3. TP!UndoneInv' \/ TitleIdle
      BY <1>1, <1>5, Phases DEF TP!UndoneInv, TitleHolds, TitleIdle, Installs
    <2> QED
      BY <1>1, <1>3, <1>4, <2>2, <2>3 DEF TitleInv, TitleIdle
  <1>6. CASE UNCHANGED Two!disk
    <2>1. UNCHANGED <<twoDest, twoStage, twoBackup, twoPlan, twoJournal, twoJfile, twoResult>>
      BY <1>6 DEF Two!disk
    <2>2. TP!Separate'
      BY <1>1, <2>1 DEF TitleInv, TP!Separate
    <2>3. TP!BeforeInv'
      BY <1>1, <2>1 DEF TitleInv, TP!BeforeInv, TP!Before, TP!Staged
    <2>4. TP!StagingInv' /\ TP!MovedInv'
      BY <1>1, <2>1 DEF TitleInv, TP!StagingInv, TP!MovedInv, TP!Moved
    <2>5. (~TitleIdle => TP!UndoneInv)'
      BY <1>1, <1>3, <2>1 DEF TitleInv, TP!UndoneInv
    <2> QED
      BY <1>1, <1>3, <1>4, <2>2, <2>3, <2>4, <2>5 DEF TitleInv
  <1> QED
    BY <1>3, <1>5, <1>6

\* What recover() found stays there.
LEMMA DaemonFinds ==
  ASSUME TwoInv, Two!Daemon, UNCHANGED Two!disk \/ ~TitleHolds
  PROVE  FoundIs'
  <1>1. UNCHANGED <<twoTmain, twoTfound>> /\ FoundIs
    BY DEF Two!Daemon, Two!game, TwoInv
  <1>2. twoDfound' \in BOOLEAN
    BY <1>1 DEF Two!Daemon, Two!DReady, Two!DRequests, FoundIs
  <1>3. twoTmain' = "init" /\ twoTfound' => twoJfile' # "none"
    BY <1>1 DEF FoundIs, TitleHolds, Two!disk
  <1>4. ASSUME twoDmain' = "init", twoDfound' PROVE twoJfile' # "none"
    <2>1. CASE Two!D!Start /\ twoDfound' = (twoJfile # "none")
      BY <1>4, <2>1, FoundTells DEF Two!D!Start, Two!D!disk
    <2>2. CASE Two!D!RecoverPath /\ UNCHANGED twoDfound
      BY <1>1, <1>4, <2>2 DEF Two!D!RecoverPath, FoundIs
    <2>3. ~Two!DReady /\ ~Two!D!Stop /\ ~Two!D!Crash /\ ~Two!D!InstallBegin
      BY <1>4 DEF Two!DReady, Two!TakePort, Two!D!Stop, Two!D!Crash, Two!D!InstallBegin
    <2>4. ~Two!DRequests
      BY <1>4 DEF Two!DRequests, Two!D!Download, Two!D!RequestInstall, TwoInv, Ports, Serves, Installs
    <2>5. ~Two!D!Worker
      BY <1>4, Phases DEF Two!D!Worker, Two!D!WorkerClean, Two!D!WorkerFetch, Two!D!WorkerStage, Two!D!WorkerPlan, Working,
                  TwoInv, DaemonInv, DP!Separate
    <2>6. ASSUME twoDmain \in Two!D!Installing, Two!D!Install PROVE FALSE
      <3>1. DP!Install
        BY <2>6, DaemonIsUpdate DEF Two!D!Install, DP!Install
      <3>2. twoDmain' # "init"
        BY <2>6, <3>1, Phases DEF DP!Install, DP!InstallBegin, DP!JournalOpen, DP!JournalWrite, DP!MakeBackup, DP!MoveOld,
                  DP!PlaceNew, DP!Commit, DP!SaveResult, DP!Clean, DP!InstallUndone, DP!Recover
      <3> QED
        BY <1>4, <3>2
    <2> QED
      BY <2>1, <2>2, <2>3, <2>4, <2>5, <2>6 DEF Two!Daemon
  <1> QED
    BY <1>1, <1>2, <1>3, <1>4 DEF FoundIs

\* What the daemon that found no journal does keeps all.
LEMMA DaemonIdleStep == ASSUME TwoInv, DaemonIdle, Two!Daemon PROVE TwoInv'
  <1>1. /\ UNCHANGED <<Two!disk, Two!game, twoDtodo, twoDok, twoDworker, twoDquit, twoDcancel, twoDrelease, twoDfound>>
        /\ twoDmain' \in {"up", "busy"} /\ twoDstate' \in {"idle", "installed", "error"}
    BY DaemonIdles
  <1>2. UNCHANGED <<twoDest, twoStage, twoBackup, twoPlan, twoJournal, twoJfile, twoResult>>
    BY <1>1 DEF Two!disk
  <1>3. twoDworker \notin Working /\ twoDmain = "init"
    BY Phases DEF TwoInv, DaemonInv, DaemonIdle, DP!Separate
  <1>4. DP!TypeOK'
    BY <1>1, <1>2, Phases DEF TwoInv, DaemonInv, DP!TypeOK, DP!States
  <1>5. DP!Separate' /\ DP!BeforeInv' /\ DP!StagingInv' /\ DP!MovedInv' /\ DP!UndoneInv'
    BY <1>1, <1>3, Phases DEF DP!Separate, DP!BeforeInv, DP!Before, DP!StagingInv, DP!MovedInv, DP!UndoneInv, Working, Installs
  <1>6. ~DaemonHolds' /\ ~DaemonIdle' /\ ~DaemonUndoes' /\ ~DaemonUndoes
    BY <1>1, <1>3 DEF DaemonHolds, DaemonIdle, DaemonUndoes, DP!Before, Installs
  <1>7. TitleInv' /\ (TitleUndoes' <=> TitleUndoes)
    BY <1>1, <1>4, TitleIsLeft DEF TwoInv
  <1>8. Ports' /\ FoundIs'
    BY <1>1, DaemonPorts, DaemonFinds
  <1>9. DP!NoPaths'
    BY <1>2 DEF TwoInv, DP!NoPaths
  <1>10. TitleUndoes => TP!OneTree'
    BY <1>1, TitleSame DEF TwoInv
  <1>11. ~TitleUndoes => OneRest'
    BY <1>2, <1>6 DEF TwoInv, Trees, OneRest, Rest
  <1> QED
    BY <1>4, <1>5, <1>6, <1>7, <1>8, <1>9, <1>10, <1>11 DEF TwoInv, DaemonInv, Trees

\* And so does a step of its updater, unless the two came together.
LEMMA DaemonStep == ASSUME TwoInv, Two!Daemon, ~twoMet' PROVE TwoInv'
  <1>1. CASE DaemonIdle
    BY <1>1, DaemonIdleStep
  <1>2. CASE ~DaemonIdle
    <2>1. [DP!Next]_(DP!vars) /\ UNCHANGED <<Two!game, TP!memory>>
      BY <1>2, DaemonActs
    <2>2. DP!TypeOK' /\ DP!Separate' /\ DP!AtomicInv' /\ DP!NoPaths' /\ DP!Touches /\ (DP!OneTree => DP!OneTree')
      BY <1>2, <2>1, DaemonSteps DEF TwoInv
    <2>3. UNCHANGED Two!disk \/ ~TitleHolds
      BY <1>2, <2>2, DaemonTouches DEF TwoInv
    <2>4. TitleInv' /\ (TitleHolds' <=> TitleHolds) /\ (TitleUndoes' <=> TitleUndoes)
      BY <2>1, <2>2, <2>3, TitleIsLeft DEF TwoInv
    <2>5. Ports' /\ FoundIs'
      BY <2>3, DaemonPorts, DaemonFinds
    <2>6. ~(DaemonHolds' /\ TitleHolds')
      BY <1>2, <2>4, DaemonTakes
    <2>7. ASSUME DaemonIdle' PROVE twoDtodo' = {} /\ UNCHANGED Two!disk /\ twoDmain \in {"off", "busy"}
      <3>1. twoDmain' = "init" /\ ~twoDfound'
        BY <2>7 DEF DaemonIdle
      <3>2. ~Two!DReady /\ ~Two!D!Stop /\ ~Two!D!Crash /\ ~Two!D!InstallBegin
        BY <3>1 DEF Two!DReady, Two!TakePort, Two!D!Stop, Two!D!Crash, Two!D!InstallBegin
      <3>3. twoDmain # "init" \/ twoDfound
        BY <1>2 DEF DaemonIdle
      <3>4. ~(Two!D!RecoverPath /\ UNCHANGED twoDfound)
        BY <3>1, <3>3 DEF Two!D!RecoverPath
      <3>5. ~Two!DRequests
        BY <3>1 DEF Two!DRequests, Two!D!Download, Two!D!RequestInstall, TwoInv, Ports, Serves, Installs
      <3>6. ~Two!D!Worker
        BY <3>1, Phases DEF Two!D!Worker, Two!D!WorkerClean, Two!D!WorkerFetch, Two!D!WorkerStage, Two!D!WorkerPlan,
                    Working, TwoInv, DaemonInv, DP!Separate
      <3>7. ASSUME twoDmain \in Two!D!Installing, Two!D!Install PROVE FALSE
        <4>1. DP!Install
          BY <3>7, DaemonIsUpdate DEF Two!D!Install, DP!Install
        <4>2. twoDmain' # "init"
          BY <3>7, <4>1, Phases DEF DP!Install, DP!InstallBegin, DP!JournalOpen, DP!JournalWrite, DP!MakeBackup, DP!MoveOld,
                    DP!PlaceNew, DP!Commit, DP!SaveResult, DP!Clean, DP!InstallUndone, DP!Recover
        <4> QED
          BY <3>1, <4>2
      <3>8. Two!D!Start /\ twoDfound' = (twoJfile # "none")
        BY <3>2, <3>4, <3>5, <3>6, <3>7 DEF Two!Daemon
      <3>9. twoJfile = "none"
        BY <3>1, <3>8, FoundTells
      <3> QED
        BY <3>8, <3>9 DEF Two!D!Start, Two!D!Recover, Two!D!disk, Two!disk
    <2>8. DaemonInv'
      BY <2>2, <2>7 DEF DaemonInv, DP!AtomicInv
    <2>9. Trees'
      <3>1. CASE TitleUndoes
        <4>1. TitleHolds
          BY <3>1 DEF TitleUndoes, TitleIdle, TitleHolds, Installs
        <4>2. ~DaemonUndoes'
          BY <2>4, <2>6, <4>1 DEF DaemonUndoes, DaemonIdle, DaemonHolds, Installs
        <4> QED
          BY <2>1, <2>3, <2>4, <3>1, <4>1, <4>2, TitleSame DEF Trees, TwoInv
      <3>2. CASE ~TitleUndoes
        <4>1. DP!OneTree
          BY <1>2, <3>2, TreesAre DEF TwoInv, Trees, DaemonUndoes, DP!OneTree, OneRest
        <4>2. DP!OneTree'
          BY <2>2, <4>1
        <4>3. CASE DaemonIdle'
          <5>1. OneRest
            BY <2>7, <3>2, <4>3 DEF TwoInv, Trees, DaemonUndoes
          <5>2. OneRest'
            BY <2>7, <4>3, <5>1 DEF OneRest, Rest, Two!disk
          <5> QED
            BY <2>4, <3>2, <4>3, <5>2 DEF Trees, DaemonUndoes
        <4>4. CASE ~DaemonIdle' /\ ~DaemonUndoes'
          <5>1. DP!Tree' = Rest'
            BY <4>4, Phases DEF DP!Tree, DP!Pending, DP!Absent, DP!Paths, Rest, DaemonUndoes
          <5> QED
            BY <2>4, <3>2, <4>2, <4>4, <5>1 DEF Trees, DP!OneTree, OneRest
        <4> QED
          BY <2>4, <3>2, <4>2, <4>3, <4>4 DEF Trees
      <3> QED
        BY <3>1, <3>2
    <2> QED
      BY <2>2, <2>4, <2>5, <2>6, <2>8, <2>9 DEF TwoInv
  <1> QED
    BY <1>1, <1>2

-----------------------------------------------------------------------------
(* RetroArch's steps, the same way.                                          *)

TitleMoves == Two!Server \/ Two!Close

\* RetroArch that found no journal to undo leaves the folder alone.
LEMMA TitleIdles ==
  ASSUME TwoInv, TitleIdle, TitleMoves
  PROVE  /\ Two!TReady /\ UNCHANGED <<Two!disk, Two!daemon, twoTtodo, twoTok, twoTworker, twoTquit, twoTcancel, twoTrelease, twoTfound>>
         /\ twoTmain' \in {"up", "busy"} /\ twoTstate' \in {"idle", "installed", "error"}
  <1>1. twoTmain = "init" /\ ~twoTfound /\ twoTtodo = {} /\ twoTworker \notin Working
    BY Phases DEF TwoInv, TitleInv, TitleIdle, TP!Separate
  <1>2. ~Two!T!Start /\ ~Two!T!Stop /\ ~Two!T!InstallBegin /\ ~Two!T!RecoverPath
    BY <1>1 DEF Two!T!Start, Two!T!Stop, Two!T!InstallBegin, Two!T!RecoverPath
  <1>3. ~Two!T!Crash
    BY <1>1 DEF Two!T!Crash, Two!T!Recovering
  <1>4. ~Two!TRequests
    BY <1>1 DEF TwoInv, Ports, Serves, Installs, Two!TRequests
  <1>5. ~Two!T!Worker
    BY <1>1 DEF Two!T!Worker, Two!T!WorkerClean, Two!T!WorkerFetch, Two!T!WorkerStage, Two!T!WorkerPlan, Working
  <1>6. twoTmain \notin Two!T!Installing
    BY <1>1, Phases DEF Installs
  <1>7. Two!TReady /\ Two!Server
    BY <1>1, <1>2, <1>3, <1>4, <1>5, <1>6 DEF TitleMoves, Two!Server, Two!Close
  <1> QED
    BY <1>1, <1>7 DEF Two!TReady, Two!TakePort, Two!T!StartState, Two!Server

\* Otherwise it is at a step of its updater.
LEMMA TitleActs ==
  ASSUME TwoInv, ~TitleIdle, TitleMoves
  PROVE  [TP!Next]_(TP!vars) /\ UNCHANGED <<Two!daemon, DP!memory>>
  <1>1. UNCHANGED <<Two!daemon, DP!memory>>
    BY DEF TitleMoves, Two!Server, Two!Close, Two!daemon, DP!memory
  <1>2. CASE Two!TReady
    <2>1. CASE twoTfound /\ twoJfile # "none"
      BY <1>1, <1>2, <2>1, TitleIsUpdate DEF Two!TReady, TP!Next
    <2>2. CASE ~(twoTfound /\ twoJfile # "none")
      BY <1>2, <2>2 DEF Two!TReady, TwoInv, FoundIs, TitleIdle
    <2> QED
      BY <1>1, <2>1, <2>2
  <1>3. CASE Two!T!Start \/ Two!T!Stop \/ Two!T!Crash \/ Two!T!RecoverPath
    BY <1>1, <1>3, TitleIsUpdate DEF TP!Next
  <1>4. CASE Two!TRequests
    BY <1>1, <1>4, TitleIsUpdate DEF Two!TRequests, TP!Next
  <1>5. CASE Two!T!Worker
    BY <1>1, <1>5, TitleIsUpdate DEF Two!T!Worker, TP!Worker, TP!Next
  <1>6. CASE Two!T!InstallBegin \/ Two!T!Install
    BY <1>1, <1>6, TitleIsUpdate DEF Two!T!Install, TP!Install, TP!Next
  <1>7. CASE Two!Close /\ twoTmain = "off"
    BY <1>1, <1>7 DEF Two!Close, Two!disk, Two!game, TP!vars, TP!disk, TP!memory
  <1> QED
    BY <1>1, <1>2, <1>3, <1>4, <1>5, <1>6, <1>7 DEF TitleMoves, Two!Server, Two!Close

\* Such a step keeps what RetroArch relies on, and changes in the folder what Touches says.
LEMMA TitleSteps ==
  ASSUME TitleInv, ~TitleIdle, TP!NoPaths, [TP!Next]_(TP!vars)
  PROVE  TP!TypeOK' /\ TP!Separate' /\ TP!AtomicInv' /\ TP!NoPaths' /\ TP!Touches /\ (TP!OneTree => TP!OneTree')
  <1>0. TP!TypeOK /\ TP!Separate /\ TP!AtomicInv
    BY DEF TitleInv, TP!AtomicInv
  <1>1. TP!TypeOK'
    BY <1>0, TP!TypeStep, SameAssumption
  <1>2. TP!Separate'
    BY <1>0, TP!SeparateStep, SameAssumption
  <1>3. TP!AtomicInv'
    BY <1>0, TP!AtomicStep, SameAssumption
  <1>4. TP!NoPaths'
    BY <1>0, TP!NoPathsStep, SameAssumption
  <1>5. TP!Touches
    BY <1>0, TP!StepTouches, SameAssumption
  <1>6. TP!OneTree => TP!OneTree'
    BY <1>0, TP!OneTreeStep, SameAssumption
  <1> QED
    BY <1>1, <1>2, <1>3, <1>4, <1>5, <1>6

\* It works on the folder only if it holds it.
LEMMA TitleTouches ==
  ASSUME TwoInv, ~TitleIdle, ~TitleHolds, TP!Touches
  PROVE  UNCHANGED Two!disk
  BY Phases DEF TwoInv, TitleIdle, TitleHolds, TP!Touches, TP!disk, Two!disk

\* A step of RetroArch leaves the port with whom it may be.
LEMMA TitlePorts == ASSUME TwoInv, TitleMoves PROVE Ports'
  <1>1. UNCHANGED twoDmain /\ Ports
    BY DEF TitleMoves, Two!Server, Two!Close, Two!daemon, TwoInv
  <1>2. SUFFICES /\ twoHttp' \in {"none", "daemon", "title"}
                 /\ twoHttp' = "daemon" <=> twoHttp = "daemon"
                 /\ twoHttp' = "title" <=> twoTmain' = "up"
                 /\ twoTmain' = "done" => twoTstate' # "ready" /\ twoTworker' \notin Working
    BY <1>1 DEF Ports
  <1>3. CASE Two!T!Start /\ UNCHANGED twoHttp
    <2>1. twoTmain \in {"off", "busy"} /\ twoTmain' = "init"
      BY <1>3 DEF Two!T!Start, Two!T!Recover
    <2> QED
      BY <1>1, <1>3, <2>1 DEF Ports
  <1>4. CASE Two!TReady
    <2>1. Two!TakePort("title", twoTmain')
      BY <1>4 DEF Two!TReady
    <2>2. twoTmain = "init"
      BY <1>4 DEF Two!TReady, Two!T!InitDone
    <2>3. \/ twoHttp = "none" /\ twoTmain' = "up" /\ twoHttp' = "title"
          \/ twoHttp # "none" /\ twoTmain' = "busy" /\ twoHttp' = twoHttp
      BY <2>1 DEF Two!TakePort
    <2> QED
      BY <1>1, <2>2, <2>3 DEF Ports
  <1>5. CASE Two!T!Stop /\ twoHttp' = "none"
    <2>1. twoTmain = "up" /\ twoTmain' = "stopping"
      BY <1>5 DEF Two!T!Stop
    <2> QED
      BY <1>1, <1>5, <2>1 DEF Ports
  <1>6. CASE Two!Close
    <2>1. twoTmain' = "off" /\ twoHttp' = (IF twoHttp = "title" THEN "none" ELSE twoHttp)
      BY <1>6 DEF Two!Close, Two!T!Crash, Two!game
    <2> QED
      BY <1>1, <2>1 DEF Ports
  <1>7. CASE Two!T!InstallBegin /\ twoTmain = "stopping" /\ UNCHANGED twoHttp
    <2>1. twoTmain' = "journal"
      BY <1>7 DEF Two!T!InstallBegin
    <2> QED
      BY <1>1, <1>7, <2>1 DEF Ports
  <1>8. CASE (Two!T!RecoverPath \/ Two!TRequests \/ Two!T!Worker) /\ UNCHANGED twoHttp
    <2>1. twoTmain' = twoTmain
      BY <1>8 DEF Two!T!RecoverPath, Two!TRequests, Two!T!Download, Two!T!RequestInstall, Two!T!Worker,
                  Two!T!WorkerClean, Two!T!WorkerFetch, Two!T!WorkerStage, Two!T!WorkerPlan
    <2>2. CASE twoTmain = "done"
      <3>1. ~Two!TRequests /\ ~Two!T!RecoverPath
        BY <1>1, <2>2 DEF Two!TRequests, Ports, Two!T!RecoverPath, Two!T!Recovering
      <3>2. ~Two!T!Worker
        BY <1>1, <2>2 DEF Two!T!Worker, Two!T!WorkerClean, Two!T!WorkerFetch, Two!T!WorkerStage, Two!T!WorkerPlan,
                          Ports, Working
      <3> QED
        BY <1>8, <3>1, <3>2
    <2>3. CASE twoTmain # "done"
      BY <1>1, <1>8, <2>1, <2>3 DEF Ports
    <2> QED
      BY <2>2, <2>3
  <1>9. CASE twoTmain \in Two!T!Installing /\ Two!T!Install /\ UNCHANGED twoHttp
    <2>1. twoTmain \in Installs /\ twoTstate = "installing" /\ twoTworker \notin Working
      BY <1>9, Phases DEF TwoInv, TitleInv, TP!Separate, Installs
    <2>2. TP!Install
      BY <1>9, TitleIsUpdate DEF Two!T!Install, TP!Install
    <2>3. twoTmain' \in {"done"} \cup Installs
      BY <2>1, <2>2 DEF TP!Install, TP!InstallBegin, TP!JournalOpen, TP!JournalWrite, TP!MakeBackup, TP!MoveOld,
                  TP!PlaceNew, TP!Commit, TP!SaveResult, TP!Clean, TP!InstallUndone, TP!Recover, Installs
    <2>4. twoTworker' = twoTworker /\ twoTstate' \in {"installing", "error", "installed"}
      BY <2>1, <2>2 DEF TP!Install, TP!InstallBegin, TP!JournalOpen, TP!JournalWrite, TP!MakeBackup, TP!MoveOld,
                  TP!PlaceNew, TP!Commit, TP!SaveResult, TP!Clean, TP!InstallUndone, TP!Recover, TP!disk
    <2> QED
      BY <1>1, <1>9, <2>1, <2>3, <2>4 DEF Ports, Installs
  <1>10. Two!TRequests => UNCHANGED twoHttp
    BY DEF Two!TRequests
  <1> QED
    BY <1>3, <1>4, <1>5, <1>6, <1>7, <1>8, <1>9, <1>10 DEF TitleMoves, Two!Server

\* Unless the two come together, RetroArch does not take hold of the folder while the daemon has it.
LEMMA TitleTakes ==
  ASSUME TwoInv, ~TitleIdle, TitleMoves, ~twoMet', DaemonHolds, TitleHolds'
  PROVE  FALSE
  <1>1. ~TitleHolds /\ FoundIs /\ Ports /\ UNCHANGED <<twoDmain, twoDstate, twoDworker>>
    BY DEF TwoInv, TitleMoves, Two!Server, Two!Close, Two!daemon
  <1>2. twoTworker \notin Working /\ twoTmain \notin Installs /\ ~(twoTmain = "init" /\ twoTfound) /\ ~TP!Before
    BY <1>1 DEF TitleHolds
  <1>3. DP!BeforeInv /\ DP!Separate
    BY DEF TwoInv, DaemonInv
  <1>4. CASE Two!T!Start /\ Two!Undoes(twoDmain) /\ twoTfound' = (twoJfile # "none")
    <2>1. twoTmain \in {"off", "busy"} /\ twoTmain' = "init" /\ UNCHANGED <<twoTworker, twoTstate>>
      BY <1>4 DEF Two!T!Start, Two!T!Recover
    <2>2. twoTfound'
      BY <1>2, <2>1 DEF TitleHolds, TP!Before, Installs
    <2>3. twoDmain \notin {"init"} \cup Installs
      BY <1>4, <2>2, BusyIs DEF Two!Undoes
    <2>4. twoJfile = "none"
      BY <1>3, <2>3, Phases DEF DaemonHolds, DP!BeforeInv, DP!Before, DP!Separate, Installs
    <2> QED
      <3>1. twoTfound' = FALSE
        BY <1>4, <2>4, FoundTells
      <3> QED
        BY <2>2, <3>1
  <1>5. CASE Two!TReady
    <2>1. twoTmain = "init" /\ twoTfound
      BY <1>5 DEF Two!TReady, Two!T!InitDone, TitleIdle
    <2> QED
      BY <1>2, <2>1
  <1>6. CASE (Two!T!Stop \/ Two!T!Crash \/ Two!T!RecoverPath) /\ UNCHANGED twoTfound
    BY <1>2, <1>6 DEF Two!T!Stop, Two!T!Crash, Two!T!RecoverPath, TitleHolds, TP!Before, Installs, Working
  <1>7. CASE Two!TRequests
    <2>1. twoHttp = "title" /\ UNCHANGED twoTfound
      BY <1>7 DEF Two!TRequests
    <2>2. ~Two!T!RequestInstall
      BY <1>2 DEF Two!T!RequestInstall, TP!Before
    <2>3. Two!T!Download /\ Two!Shares(twoDmain, twoDworker)
      BY <1>7, <2>2 DEF Two!TRequests
    <2>4. twoDmain \notin {"init", "stopping"} \cup Installs /\ twoDworker \notin Working
      BY <2>3, BusyIs, Phases DEF Two!Shares, Two!Quiet
    <2>5. DP!Before /\ twoDmain \notin Serves
      BY <1>1, <2>1, <2>4 DEF DaemonHolds, Ports
    <2>6. twoDmain \notin {"off", "init", "busy"}
      BY <1>3, <2>5 DEF DP!BeforeInv, DP!Before
    <2> QED
      BY <2>4, <2>5, <2>6, Phases DEF TwoInv, DaemonInv, DP!TypeOK, Serves
  <1>8. CASE Two!T!Worker
    BY <1>2, <1>8 DEF Two!T!Worker, Two!T!WorkerClean, Two!T!WorkerFetch, Two!T!WorkerStage, Two!T!WorkerPlan, Working
  <1>9. CASE Two!T!InstallBegin /\ twoTmain = "stopping"
    BY <1>2, <1>9 DEF Two!T!InstallBegin, TP!Before
  <1>10. twoTmain \notin Two!T!Installing
    BY <1>2, Phases
  <1>11. CASE Two!Close /\ twoTmain = "off"
    BY <1>2, <1>11 DEF Two!Close, Two!game, TitleHolds, TP!Before
  <1> QED
    BY <1>4, <1>5, <1>6, <1>7, <1>8, <1>9, <1>10, <1>11 DEF TitleMoves, Two!Server, Two!Close

\* The daemon keeps what it relies on while nothing of it changes, whatever RetroArch does to the
\* folder that the daemon does not hold.
LEMMA DaemonSame ==
  ASSUME DaemonInv, Trees, DaemonUndoes, UNCHANGED <<Two!disk, Two!daemon>>
  PROVE  DP!OneTree'
  BY DEF Trees, DP!OneTree, DP!Tree, DP!Pending, Two!disk, Two!daemon

LEMMA DaemonIsLeft ==
  ASSUME DaemonInv, FoundIs, TP!TypeOK', UNCHANGED Two!daemon, UNCHANGED Two!disk \/ ~DaemonHolds
  PROVE  DaemonInv' /\ (DaemonHolds' <=> DaemonHolds) /\ (DaemonUndoes' <=> DaemonUndoes)
  <1>1. UNCHANGED <<twoDmain, twoDtodo, twoDok, twoDworker, twoDstate, twoDquit, twoDcancel, twoDrelease, twoDfound>>
    BY DEF Two!daemon
  <1>2. UNCHANGED DP!memory
    BY <1>1 DEF DP!memory
  <1>3. (DaemonHolds' <=> DaemonHolds) /\ (DaemonUndoes' <=> DaemonUndoes) /\ (DaemonIdle' <=> DaemonIdle)
    BY <1>1 DEF DaemonHolds, DaemonUndoes, DaemonIdle, DP!Before
  <1>4. DP!TypeOK'
    BY <1>1 DEF DaemonInv, DP!TypeOK, TP!TypeOK, DP!Paths, TP!Paths, DP!Versions, TP!Versions
  <1>5. CASE ~DaemonHolds
    <2>1. DP!Aside
      BY <1>5, Phases DEF DaemonHolds, DP!Aside
    <2>2. DP!Separate' /\ DP!BeforeInv' /\ DP!StagingInv' /\ DP!MovedInv'
      BY <1>2, <2>1, DP!AsideKeeps, TwoBounds DEF DaemonInv
    <2>3. DP!UndoneInv' \/ DaemonIdle
      BY <1>1, <1>5, Phases DEF DP!UndoneInv, DaemonHolds, DaemonIdle, Installs
    <2> QED
      BY <1>1, <1>3, <1>4, <2>2, <2>3 DEF DaemonInv, DaemonIdle
  <1>6. CASE UNCHANGED Two!disk
    <2>1. UNCHANGED <<twoDest, twoStage, twoBackup, twoPlan, twoJournal, twoJfile, twoResult>>
      BY <1>6 DEF Two!disk
    <2>2. DP!Separate'
      BY <1>1, <2>1 DEF DaemonInv, DP!Separate
    <2>3. DP!BeforeInv'
      BY <1>1, <2>1 DEF DaemonInv, DP!BeforeInv, DP!Before, DP!Staged
    <2>4. DP!StagingInv' /\ DP!MovedInv'
      BY <1>1, <2>1 DEF DaemonInv, DP!StagingInv, DP!MovedInv, DP!Moved
    <2>5. (~DaemonIdle => DP!UndoneInv)'
      BY <1>1, <1>3, <2>1 DEF DaemonInv, DP!UndoneInv
    <2> QED
      BY <1>1, <1>3, <1>4, <2>2, <2>3, <2>4, <2>5 DEF DaemonInv
  <1> QED
    BY <1>3, <1>5, <1>6

\* What recover() found stays there.
LEMMA TitleFinds ==
  ASSUME TwoInv, TitleMoves, UNCHANGED Two!disk \/ ~DaemonHolds
  PROVE  FoundIs'
  <1>1. UNCHANGED <<twoDmain, twoDfound>> /\ FoundIs
    BY DEF TitleMoves, Two!Server, Two!Close, Two!daemon, TwoInv
  <1>2. twoTfound' \in BOOLEAN
    BY <1>1 DEF TitleMoves, Two!Server, Two!Close, Two!TReady, Two!TRequests, Two!game, FoundIs
  <1>3. twoDmain' = "init" /\ twoDfound' => twoJfile' # "none"
    BY <1>1 DEF FoundIs, DaemonHolds, Two!disk
  <1>4. ASSUME twoTmain' = "init", twoTfound' PROVE twoJfile' # "none"
    <2>1. CASE Two!T!Start /\ twoTfound' = (twoJfile # "none")
      BY <1>4, <2>1, FoundTells DEF Two!T!Start, Two!T!disk
    <2>2. CASE Two!T!RecoverPath /\ UNCHANGED twoTfound
      BY <1>1, <1>4, <2>2 DEF Two!T!RecoverPath, FoundIs
    <2>3. ~Two!TReady /\ ~Two!T!Stop /\ ~Two!T!InstallBegin /\ ~Two!Close
      <3>1. twoTmain' = "init"
        BY <1>4
      <3> QED
        BY <3>1 DEF Two!TReady, Two!TakePort, Two!T!Stop, Two!Close, Two!game, Two!T!Crash, Two!T!InstallBegin
    <2>4. ~Two!TRequests
      BY <1>4 DEF Two!TRequests, Two!T!Download, Two!T!RequestInstall, TwoInv, Ports, Serves, Installs
    <2>5. ~Two!T!Worker
      BY <1>4, Phases DEF Two!T!Worker, Two!T!WorkerClean, Two!T!WorkerFetch, Two!T!WorkerStage, Two!T!WorkerPlan, Working,
                  TwoInv, TitleInv, TP!Separate
    <2>6. ASSUME twoTmain \in Two!T!Installing, Two!T!Install PROVE FALSE
      <3>1. TP!Install
        BY <2>6, TitleIsUpdate DEF Two!T!Install, TP!Install
      <3>2. twoTmain' # "init"
        BY <2>6, <3>1, Phases DEF TP!Install, TP!InstallBegin, TP!JournalOpen, TP!JournalWrite, TP!MakeBackup, TP!MoveOld,
                  TP!PlaceNew, TP!Commit, TP!SaveResult, TP!Clean, TP!InstallUndone, TP!Recover
      <3> QED
        BY <1>4, <3>2
    <2> QED
      BY <2>1, <2>2, <2>3, <2>4, <2>5, <2>6 DEF TitleMoves, Two!Server
  <1> QED
    BY <1>1, <1>2, <1>3, <1>4 DEF FoundIs

\* What RetroArch that found no journal does keeps all.
LEMMA TitleIdleStep == ASSUME TwoInv, TitleIdle, TitleMoves PROVE TwoInv'
  <1>1. /\ UNCHANGED <<Two!disk, Two!daemon, twoTtodo, twoTok, twoTworker, twoTquit, twoTcancel, twoTrelease, twoTfound>>
        /\ twoTmain' \in {"up", "busy"} /\ twoTstate' \in {"idle", "installed", "error"}
    BY TitleIdles
  <1>2. UNCHANGED <<twoDest, twoStage, twoBackup, twoPlan, twoJournal, twoJfile, twoResult>>
    BY <1>1 DEF Two!disk
  <1>3. twoTworker \notin Working /\ twoTmain = "init"
    BY Phases DEF TwoInv, TitleInv, TitleIdle, TP!Separate
  <1>4. TP!TypeOK'
    BY <1>1, <1>2, Phases DEF TwoInv, TitleInv, TP!TypeOK, TP!States
  <1>5. TP!Separate' /\ TP!BeforeInv' /\ TP!StagingInv' /\ TP!MovedInv' /\ TP!UndoneInv'
    BY <1>1, <1>3, Phases DEF TP!Separate, TP!BeforeInv, TP!Before, TP!StagingInv, TP!MovedInv, TP!UndoneInv, Working, Installs
  <1>6. ~TitleHolds' /\ ~TitleIdle' /\ ~TitleUndoes' /\ ~TitleUndoes
    BY <1>1, <1>3 DEF TitleHolds, TitleIdle, TitleUndoes, TP!Before, Installs
  <1>7. DaemonInv' /\ (DaemonUndoes' <=> DaemonUndoes)
    BY <1>1, <1>4, DaemonIsLeft DEF TwoInv
  <1>8. Ports' /\ FoundIs'
    BY <1>1, TitlePorts, TitleFinds
  <1>9. DP!NoPaths'
    BY <1>2 DEF TwoInv, DP!NoPaths
  <1>10. DaemonUndoes => DP!OneTree'
    BY <1>1, DaemonSame DEF TwoInv
  <1>11. ~DaemonUndoes => OneRest'
    BY <1>2, <1>6 DEF TwoInv, Trees, OneRest, Rest
  <1> QED
    BY <1>4, <1>5, <1>6, <1>7, <1>8, <1>9, <1>10, <1>11 DEF TwoInv, TitleInv, Trees

\* And so does a step of its updater, unless the two came together.
LEMMA TitleStep == ASSUME TwoInv, TitleMoves, ~twoMet' PROVE TwoInv'
  <1>1. CASE TitleIdle
    BY <1>1, TitleIdleStep
  <1>2. CASE ~TitleIdle
    <2>1. [TP!Next]_(TP!vars) /\ UNCHANGED <<Two!daemon, DP!memory>>
      BY <1>2, TitleActs
    <2>2. TP!TypeOK' /\ TP!Separate' /\ TP!AtomicInv' /\ TP!NoPaths' /\ TP!Touches /\ (TP!OneTree => TP!OneTree')
      BY <1>2, <2>1, TitleSteps DEF TwoInv, TP!NoPaths, DP!NoPaths
    <2>3. UNCHANGED Two!disk \/ ~DaemonHolds
      BY <1>2, <2>2, TitleTouches DEF TwoInv
    <2>4. DaemonInv' /\ (DaemonHolds' <=> DaemonHolds) /\ (DaemonUndoes' <=> DaemonUndoes)
      BY <2>1, <2>2, <2>3, DaemonIsLeft DEF TwoInv
    <2>5. Ports' /\ FoundIs'
      BY <2>3, TitlePorts, TitleFinds
    <2>6. ~(TitleHolds' /\ DaemonHolds')
      BY <1>2, <2>4, TitleTakes
    <2>7. ASSUME TitleIdle' PROVE twoTtodo' = {} /\ UNCHANGED Two!disk /\ twoTmain \in {"off", "busy"}
      <3>1. twoTmain' = "init" /\ ~twoTfound'
        BY <2>7 DEF TitleIdle
      <3>2. ~Two!TReady /\ ~Two!T!Stop /\ ~Two!Close /\ ~Two!T!InstallBegin
        BY <3>1 DEF Two!TReady, Two!TakePort, Two!T!Stop, Two!Close, Two!game, Two!T!Crash, Two!T!InstallBegin
      <3>3. twoTmain # "init" \/ twoTfound
        BY <1>2 DEF TitleIdle
      <3>4. ~(Two!T!RecoverPath /\ UNCHANGED twoTfound)
        BY <3>1, <3>3 DEF Two!T!RecoverPath
      <3>5. ~Two!TRequests
        BY <3>1 DEF Two!TRequests, Two!T!Download, Two!T!RequestInstall, TwoInv, Ports, Serves, Installs
      <3>6. ~Two!T!Worker
        BY <3>1, Phases DEF Two!T!Worker, Two!T!WorkerClean, Two!T!WorkerFetch, Two!T!WorkerStage, Two!T!WorkerPlan,
                    Working, TwoInv, TitleInv, TP!Separate
      <3>7. ASSUME twoTmain \in Two!T!Installing, Two!T!Install PROVE FALSE
        <4>1. TP!Install
          BY <3>7, TitleIsUpdate DEF Two!T!Install, TP!Install
        <4>2. twoTmain' # "init"
          BY <3>7, <4>1, Phases DEF TP!Install, TP!InstallBegin, TP!JournalOpen, TP!JournalWrite, TP!MakeBackup, TP!MoveOld,
                    TP!PlaceNew, TP!Commit, TP!SaveResult, TP!Clean, TP!InstallUndone, TP!Recover
        <4> QED
          BY <3>1, <4>2
      <3>8. Two!T!Start /\ twoTfound' = (twoJfile # "none")
        BY <3>2, <3>4, <3>5, <3>6, <3>7 DEF TitleMoves, Two!Server, Two!Close
      <3>9. twoJfile = "none"
        BY <3>1, <3>8, FoundTells
      <3> QED
        BY <3>8, <3>9 DEF Two!T!Start, Two!T!Recover, Two!T!disk, Two!disk
    <2>8. TitleInv'
      BY <2>2, <2>7 DEF TitleInv, TP!AtomicInv
    <2>9. Trees'
      <3>1. CASE DaemonUndoes
        <4>1. DaemonHolds
          BY <3>1 DEF DaemonUndoes, DaemonIdle, DaemonHolds, Installs
        <4>2. ~TitleUndoes'
          BY <2>4, <2>6, <4>1 DEF TitleUndoes, TitleIdle, TitleHolds, Installs
        <4> QED
          BY <2>1, <2>3, <2>4, <3>1, <4>1, <4>2, DaemonSame DEF Trees, TwoInv
      <3>2. CASE ~DaemonUndoes
        <4>1. TP!OneTree
          BY <1>2, <3>2, TreesAre DEF TwoInv, Trees, TitleUndoes, TP!OneTree, OneRest
        <4>2. TP!OneTree'
          BY <2>2, <4>1
        <4>3. CASE TitleIdle'
          <5>1. OneRest
            BY <2>7, <3>2, <4>3 DEF TwoInv, Trees, TitleUndoes
          <5>2. OneRest'
            BY <2>7, <4>3, <5>1 DEF OneRest, Rest, Two!disk
          <5> QED
            BY <2>4, <3>2, <4>3, <5>2 DEF Trees, TitleUndoes
        <4>4. CASE ~TitleIdle' /\ ~TitleUndoes'
          <5>1. TP!Tree' = Rest'
            BY <4>4, Phases DEF TP!Tree, TP!Pending, TP!Absent, TP!Paths, Rest, TitleUndoes
          <5> QED
            BY <2>4, <3>2, <4>2, <4>4, <5>1 DEF Trees, TP!OneTree, OneRest
        <4> QED
          BY <2>4, <3>2, <4>2, <4>3, <4>4 DEF Trees
      <3> QED
        BY <3>1, <3>2
    <2> QED
      BY <2>2, <2>4, <2>5, <2>6, <2>8, <2>9 DEF TwoInv, TP!NoPaths, DP!NoPaths
  <1> QED
    BY <1>1, <1>2

-----------------------------------------------------------------------------
(* The two together.                                                         *)

LEMMA TwoInit == Two!Init => TwoInv
  <1> SUFFICES ASSUME Two!Init PROVE TwoInv
    OBVIOUS
  <1>1. DP!Init
    BY DEF Two!Init, Two!D!Init, DP!Init, Two!D!Paths, DP!Paths, Two!D!Absent, DP!Absent, Two!D!Nothing, DP!Nothing
  <1>2. TP!Init
    BY DEF Two!Init, Two!T!Init, TP!Init, Two!T!Paths, TP!Paths, Two!T!Absent, TP!Absent, Two!T!Nothing, TP!Nothing
  <1>3. twoDmain = "off" /\ twoTmain = "off" /\ twoJfile = "none" /\ twoJournal = {} /\ twoHttp = "none"
        /\ twoDworker = "none" /\ twoTworker = "none" /\ twoDstate = "idle" /\ twoTstate = "idle"
        /\ twoDfound = FALSE /\ twoTfound = FALSE
    BY <1>1, <1>2 DEF Two!Init, DP!Init, TP!Init
  <1>4. DaemonInv
    <2>1. DP!TypeOK /\ DP!AtomicInv
      BY <1>1, DP!TypeInit, DP!TreeInit, TwoBounds
    <2>2. DP!Separate
      BY <1>3, Phases DEF DP!Separate, Working, Installs
    <2> QED
      BY <1>3, <2>1, <2>2 DEF DaemonInv, DP!AtomicInv, DaemonIdle
  <1>5. TitleInv
    <2>1. TP!TypeOK /\ TP!AtomicInv
      BY <1>2, TP!TypeInit, TP!TreeInit, SameAssumption
    <2>2. TP!Separate
      BY <1>3, Phases DEF TP!Separate, Working, Installs
    <2> QED
      BY <1>3, <2>1, <2>2 DEF TitleInv, TP!AtomicInv, TitleIdle
  <1>6. DP!NoPaths /\ Ports /\ FoundIs /\ ~DaemonHolds
    BY <1>3 DEF DP!NoPaths, Ports, FoundIs, DaemonHolds, DP!Before, Serves, Installs, Working
  <1>7. Trees
    <2>1. \A p \in TwoAlways : Rest[p] = 1
      BY <1>1, <1>3, TwoBounds DEF DP!Init, Rest, DP!UpdateAssumption, DP!Paths
    <2> QED
      BY <1>3, <2>1 DEF Trees, OneRest, DaemonUndoes, TitleUndoes
  <1> QED
    BY <1>4, <1>5, <1>6, <1>7 DEF TwoInv

\* What the steps that touch neither the folder nor the two updaters leave.
TwoState == <<Two!disk, Two!daemon, Two!game, twoHttp>>

LEMMA TwoSame == ASSUME TwoInv, UNCHANGED TwoState PROVE TwoInv'
  <1>1. /\ UNCHANGED <<twoDest, twoStage, twoBackup, twoPlan, twoJournal, twoJfile, twoResult, twoHttp>>
        /\ UNCHANGED <<twoDmain, twoDtodo, twoDok, twoDworker, twoDstate, twoDquit, twoDcancel, twoDrelease, twoDfound>>
        /\ UNCHANGED <<twoTmain, twoTtodo, twoTok, twoTworker, twoTstate, twoTquit, twoTcancel, twoTrelease, twoTfound>>
    BY DEF TwoState, Two!disk, Two!daemon, Two!game
  <1>2. DP!TypeOK'
    BY <1>1 DEF TwoInv, DaemonInv, DP!TypeOK
  <1>3. TP!TypeOK'
    BY <1>1 DEF TwoInv, TitleInv, TP!TypeOK
  <1>4. TitleInv' /\ (TitleHolds' <=> TitleHolds) /\ (TitleUndoes' <=> TitleUndoes)
    BY <1>2, TitleIsLeft DEF TwoInv, TwoState
  <1>5. DaemonInv' /\ (DaemonHolds' <=> DaemonHolds) /\ (DaemonUndoes' <=> DaemonUndoes)
    BY <1>3, DaemonIsLeft DEF TwoInv, TwoState
  <1>6. DP!NoPaths' /\ Ports' /\ FoundIs'
    BY <1>1 DEF TwoInv, DP!NoPaths, Ports, FoundIs
  <1>7. Trees'
    <2>1. DaemonUndoes => DP!OneTree'
      BY DaemonSame DEF TwoInv, TwoState
    <2>2. TitleUndoes => TP!OneTree'
      BY TitleSame DEF TwoInv, TwoState
    <2>3. OneRest => OneRest'
      BY <1>1 DEF OneRest, Rest
    <2> QED
      BY <1>4, <1>5, <2>1, <2>2, <2>3 DEF TwoInv, Trees
  <1> QED
    BY <1>4, <1>5, <1>6, <1>7 DEF TwoInv

LEMMA TwoStep == ASSUME TwoInv, Two!Next, ~twoMet' PROVE TwoInv'
  <1>1. CASE Two!Daemon
    BY <1>1, DaemonStep
  <1>2. CASE Two!Server \/ Two!Close
    BY <1>2, TitleStep DEF TitleMoves
  <1>3. CASE Two!Open \/ Two!Link \/ Two!Unlink
    BY <1>3, TwoSame DEF Two!Open, Two!Link, Two!Unlink, TwoState
  <1> QED
    BY <1>1, <1>2, <1>3 DEF Two!Next

\* That the two came together is not forgotten.
LEMMA MetStays == ASSUME Two!Next, twoMet PROVE twoMet'
  BY DEF Two!Next, Two!Daemon, Two!Server, Two!Open, Two!Link, Two!Unlink, Two!Close, Two!Undoes, Two!Shares,
         Two!DReady, Two!TReady, Two!DRequests, Two!TRequests

\* OneRelease: whatever the daemon and RetroArch did to the folder, killed anywhere but in recover(),
\* the manifest and eboot.bin are of one release when neither is at work and no journal waits, unless
\* one undid the install the other was at, or began an update while the other was at work on one
\* (webui_update.cpp's install() and recover(), in webui_daemon.cpp and in main.cpp).
THEOREM FolderIsOfOneRelease == MCSpec => []OneRelease
  <1> DEFINE Ok == part = "updaters" /\ ~twoMet => TwoInv
  <1>1. MCInit => Ok
    BY TwoInit DEF MCInit
  <1>2. Ok /\ [MCNext]_MCVars => Ok'
    <2> SUFFICES ASSUME part' = "updaters", ~twoMet', Ok, [MCNext]_MCVars PROVE TwoInv'
      OBVIOUS
    <2>1. part = "updaters"
      BY DEF MCNext, MCVars
    <2>2. CASE Two!Next
      <3>1. ~twoMet
        BY <2>2, MetStays
      <3> QED
        BY <2>1, <2>2, <3>1, TwoStep
    <2>3. CASE UNCHANGED MCVars
      <3>1. UNCHANGED TwoState /\ ~twoMet
        BY <2>3 DEF MCVars, TwoVars, TwoState, Two!disk, Two!daemon, Two!game
      <3> QED
        BY <2>1, <3>1, TwoSame
    <2> QED
      BY <2>1, <2>2, <2>3 DEF MCNext
  <1>3. Ok => OneRelease
    <2> SUFFICES ASSUME part = "updaters", Ok PROVE Two!OneRelease
      BY DEF OneRelease
    <2> SUFFICES ASSUME TwoInv, ~Two!Busy(twoDmain), ~Two!Busy(twoTmain), twoJfile = "none",
                        NEW p \in TwoAlways, NEW q \in TwoAlways
                 PROVE  twoDest[p] = twoDest[q]
      BY DEF Two!OneRelease
    <2>1. OneRest
      BY BusyIs DEF TwoInv, Trees, DaemonUndoes, TitleUndoes, Installs
    <2>2. \A r \in TwoAlways : Rest[r] = twoDest[r]
      BY TwoBounds DEF Rest, DP!UpdateAssumption, DP!Paths
    <2> QED
      BY <2>1, <2>2 DEF OneRest
  <1> QED
    BY <1>1, <1>2, <1>3, PTL DEF MCSpec
=============================================================================

---------------------------- MODULE Upload_proofs ----------------------------
(***************************************************************************)
(* Proofs about Upload, for any number of uploads, of parts and of         *)
(* requests at once.                                                       *)
(*                                                                         *)
(* SessionsInv holds however connections break and parts are sent again:   *)
(* who may end a session, what its descriptor is open on, how many write   *)
(* it.  PartsInv adds that no two requests work on one part; there it is   *)
(* assumed that a part whose connection broke is not sent a second time    *)
(* (OnceEach), without which a late writer may outlive the commit of its   *)
(* session, as a run shows.                                                *)
(***************************************************************************)
EXTENDS Upload, FiniteSetTheorems, WellFoundedInduction, TLAPS

-----------------------------------------------------------------------------
(* The inductive invariant of the sessions.                                *)

Opening(r) == req[r].at \in {"expire", "discard", "open"}
Writes  == {"part:write", "part:finish", "part:free"}
Renames == {"commit:rename", "commit:close", "commit:forget"}
Taking  == {"commit:take"} \cup Renames

\* A request holds a session it took out of the map until it is done with it:
\* the stale sessions it has yet to discard, or the one it commits.
Committing(r, u) == req[r].u = u /\ req[r].at \in Renames
Holds(r, u) == u \in req[r].stale \/ Committing(r, u)
Held(u) == \E r \in Requests : Holds(r, u)

\* What a request is about, where it is.
RequestsOK == \A r \in Requests :
    /\ req[r].at = "idle" => req[r] = Idle
    /\ req[r].at # "idle" => req[r].u \in Uploads
    /\ req[r].at \in PartSteps => req[r].p \in Parts
    /\ req[r].at \in Writes => req[r].fd \in Fds
    /\ req[r].stale # {} => req[r].at = "discard"

\* Until its session is opened, nothing of an upload is there; its only request opens it.
Unopened(u) ==
    /\ u \notin sessions /\ u \notin temporary /\ ~Held(u)
    /\ fd[u] = None /\ ~closing[u] /\ covered[u] = {}
OpenOnce == \A u \in Uploads :
    /\ client[u] = "new" => Unopened(u) /\ \A r \in Requests : req[r].u # u
    /\ \A r \in Requests : Opening(r) /\ req[r].u = u =>
           /\ Unopened(u)
           /\ client[u] \in {"opening", "failed"}
           /\ \A q \in Requests : req[q].u = u => q = r

\* A session is in the map, or one request holds it, or neither.
OneHolder == \A u \in Uploads :
    /\ u \in sessions => ~Held(u)
    /\ \A r, q \in Requests : Holds(r, u) /\ Holds(q, u) => q = r

\* A session's descriptor is open on its file, and on no other's, but between the
\* two last steps of its commit: there it names a number that is free, or another's.
Forgetting(u) == \E r \in Requests : req[r].u = u /\ req[r].at = "commit:forget"
Descriptors == \A u \in Uploads :
    /\ fd[u] # None => openFile[fd[u]] = u \/ Forgetting(u)
    /\ \A n \in Fds : openFile[n] = u => fd[u] = n
    /\ Forgetting(u) => \A n \in Fds : openFile[n] # u

\* A session of the map is whole; one that is over is held by whoever ends it, or waits
\* for its last writer.
Endings == \A u \in Uploads :
    /\ u \in sessions => fd[u] # None /\ ~closing[u] /\ u \in temporary
    /\ \A r \in Requests : Committing(r, u) =>
           ~closing[u] /\ (req[r].at = "commit:rename" => u \in temporary)
    /\ u \in temporary => u \in sessions \/ Held(u)
    /\ fd[u] # None => u \in sessions \/ Held(u) \/ (closing[u] /\ writers[u] > 0)

\* A commit that has no temporary file any more has renamed it.
There(u) == /\ folder[Target[u]] # None
            /\ folder[Target[u]] = u \/ folder[Target[u]] \in Replace
Renaming(r, u) == req[r].u = u /\ req[r].at \in {"commit:close", "commit:forget"}
Renamed == \A u \in Uploads :
    /\ client[u] = "complete" => There(u)
    /\ \A r \in Requests : Renaming(r, u) /\ u \notin temporary => There(u)

SessionsInv == /\ TypeOK /\ RequestsOK /\ OpenOnce /\ OneHolder /\ WritersCount
               /\ Descriptors /\ Endings /\ Renamed

USE DEF Writes, Renames, Taking

-----------------------------------------------------------------------------
\* A set of numbers has a least one.
LEMMA MinimumOfNat ==
    ASSUME NEW S \in SUBSET Nat, S # {}
    PROVE  \E n \in S : \A m \in S : n <= m
<1>1. PICK n \in S : \A m \in S : ~ (<<m, n>> \in OpToRel(<, Nat))
  BY WFMin, NatLessThanWellFounded
<1>2. \A m \in S : ~(m < n)
  BY <1>1 DEF OpToRel
<1>. QED BY <1>2

\* An upload that has no descriptor yet finds one free.
LEMMA FreeDescriptor ==
    ASSUME TypeOK, Descriptors, NEW u \in Uploads, fd[u] = None
    PROVE  LowestFree \in Fds /\ openFile[LowestFree] = None
<1>. DEFINE Free == {n \in Fds : openFile[n] = None}
<1>1. Free # {}
  <2>1. SUFFICES ASSUME \A n \in Fds : openFile[n] # None PROVE FALSE
    OBVIOUS
  <2>. DEFINE T == Uploads \ {u}
  <2>. DEFINE g == [n \in Fds |-> openFile[n]]
  <2>2. g \in [Fds -> T]
    BY <2>1, UploadAssumption DEF TypeOK, Descriptors
  <2>3. IsInjective(g)
    BY <2>1, UploadAssumption DEF TypeOK, Descriptors, IsInjective
  <2>4. g \in Injection(Fds, T)
    BY <2>2, <2>3 DEF Injection
  <2>5. IsFiniteSet(T) /\ Cardinality(T) = Cardinality(Uploads) - 1
    BY FS_RemoveElement, UploadAssumption
  <2>6. IsFiniteSet(Fds) /\ Cardinality(Fds) <= Cardinality(T)
    <3>. HIDE DEF g, T
    <3>. QED BY <2>4, <2>5, FS_Injection DEF ExistsInjection
  <2>. QED BY <2>5, <2>6, UploadAssumption, FS_CardinalityType
<1>2. PICK n \in Free : \A m \in Free : n <= m
  BY <1>1, MinimumOfNat, UploadAssumption
<1>. QED BY <1>2 DEF LowestFree

-----------------------------------------------------------------------------
(* The writers of a session are counted.                                   *)
\* The writers of a session are finitely many.
LEMMA AttachedFinite ==
    ASSUME NEW u
    PROVE  IsFiniteSet(Attached(u)) /\ Cardinality(Attached(u)) \in Nat
           /\ (Cardinality(Attached(u)) = 0 <=> Attached(u) = {})
<1>1. IsFiniteSet(Attached(u))
  BY FS_Subset, UploadAssumption DEF Attached
<1>. QED BY <1>1, FS_CardinalityType, FS_EmptySet
-----------------------------------------------------------------------------
\* A writer is counted; when the count is 1, it is the only one.
LEMMA WritersLeft ==
    ASSUME TypeOK, WritersCount, NEW u \in Uploads, NEW r \in Requests,
           req[r].u = u, req[r].at \in {"part:write", "part:finish", "part:free"}
    PROVE  /\ writers[u] >= 1
           /\ writers[u] = 1 => Attached(u) = {r}
<1>1. r \in Attached(u)
  BY DEF Attached
<1>2. writers[u] = Cardinality(Attached(u))
  BY DEF WritersCount
<1>3. writers[u] = 1 => \E x : Attached(u) = {x}
  BY <1>2, AttachedFinite, FS_Singleton
<1>4. writers[u] # 0
  BY <1>1, <1>2, AttachedFinite
<1>. QED BY <1>1, <1>3, <1>4, <1>2, AttachedFinite

-----------------------------------------------------------------------------
(* What a step does to the requests.                                       *)
Records == [at : Steps, u : Uploads \cup {None}, p : Parts \cup {None},
            fd : Fds \cup {None}, stale : SUBSET Uploads, heard : BOOLEAN]
Typed == req' \in [Requests -> Records]
Others(r) == \A q \in Requests : q # r => req'[q] = req[q]
SameUpload(r) == req'[r].u = req[r].u /\ req'[r].p = req[r].p

\* One request changes, to a record of the type.
LEMMA Replaced ==
    ASSUME TypeOK, NEW r \in Requests, NEW x \in Records, req' = [req EXCEPT ![r] = x]
    PROVE  Typed /\ Others(r) /\ req'[r] = x
BY DEF TypeOK, Typed, Others, Records

\* No request is a record of the type.
LEMMA IdleRecord == Idle \in Records
BY UploadAssumption DEF Idle, Records, Steps

\* The fields of no request.
LEMMA IdleFields ==
    /\ Idle.at = "idle" /\ Idle.u = None /\ Idle.p = None /\ Idle.fd = None
    /\ Idle.stale = {} /\ Idle.heard = FALSE
BY DEF Idle

\* The fields of a new request.
LEMMA NewRecord ==
    ASSUME NEW at \in Steps, NEW u \in Uploads, NEW p \in Parts \cup {None}
    PROVE  /\ New(at, u, p) \in Records
           /\ New(at, u, p).at = at /\ New(at, u, p).u = u /\ New(at, u, p).p = p
           /\ New(at, u, p).stale = {} /\ New(at, u, p).heard
BY UploadAssumption DEF New, Records

\* A request that ends.
LEMMA EndsFacts ==
    ASSUME TypeOK, NEW r \in Requests, Ends(r)
    PROVE  Typed /\ Others(r) /\ req'[r] = Idle
BY IdleRecord, Replaced DEF Ends

\* A request that goes on.
LEMMA GoesFacts ==
    ASSUME TypeOK, NEW r \in Requests, NEW at \in Steps,
           Goes(r, at)
    PROVE  /\ Typed /\ Others(r) /\ SameUpload(r)
           /\ req'[r].at = at /\ req'[r].fd = req[r].fd
           /\ req'[r].stale = req[r].stale /\ req'[r].heard = req[r].heard
<1>. DEFINE x == [req[r] EXCEPT !.at = at]
<1>1. req[r] \in Records
  BY DEF TypeOK, Records
<1>2. req' = [req EXCEPT ![r] = x]
  BY DEF Goes, TypeOK
<1>3. /\ x \in Records /\ x.u = req[r].u /\ x.p = req[r].p
      /\ x.at = at /\ x.fd = req[r].fd
      /\ x.stale = req[r].stale /\ x.heard = req[r].heard
  BY <1>1 DEF Records, Steps, PartSteps
<1>. HIDE DEF x
<1>. QED BY <1>2, <1>3, Replaced DEF SameUpload

\* A part that attaches: its request keeps the descriptor.
LEMMA AttachFacts ==
    ASSUME TypeOK, NEW r \in Requests, NEW n \in Fds,
           req' = [req EXCEPT ![r].at = "part:write", ![r].fd = n]
    PROVE  /\ Typed /\ Others(r) /\ SameUpload(r)
           /\ req'[r].at = "part:write" /\ req'[r].fd = n
           /\ req'[r].stale = req[r].stale /\ req'[r].heard = req[r].heard
<1>. DEFINE x == [req[r] EXCEPT !.at = "part:write", !.fd = n]
<1>1. req[r] \in Records
  BY DEF TypeOK, Records
<1>2. req' = [req EXCEPT ![r] = x]
  BY DEF Goes, TypeOK
<1>3. /\ x \in Records /\ x.u = req[r].u /\ x.p = req[r].p
      /\ x.at = "part:write" /\ x.fd = n
      /\ x.stale = req[r].stale /\ x.heard = req[r].heard
  BY <1>1 DEF Records, Steps, PartSteps
<1>. HIDE DEF x
<1>. QED BY <1>2, <1>3, Replaced DEF SameUpload

\* A part whose write failed.
LEMMA RefusedFacts ==
    ASSUME TypeOK, NEW r \in Requests,
           req' = [req EXCEPT ![r].at = "part:free", ![r].heard = FALSE]
    PROVE  /\ Typed /\ Others(r) /\ SameUpload(r)
           /\ req'[r].at = "part:free" /\ req'[r].fd = req[r].fd
           /\ req'[r].stale = req[r].stale /\ req'[r].heard = FALSE
<1>. DEFINE x == [req[r] EXCEPT !.at = "part:free", !.heard = FALSE]
<1>1. req[r] \in Records
  BY DEF TypeOK, Records
<1>2. req' = [req EXCEPT ![r] = x]
  BY DEF Goes, TypeOK
<1>3. /\ x \in Records /\ x.u = req[r].u /\ x.p = req[r].p
      /\ x.at = "part:free" /\ x.fd = req[r].fd
      /\ x.stale = req[r].stale /\ x.heard = FALSE
  BY <1>1 DEF Records, Steps, PartSteps
<1>. HIDE DEF x
<1>. QED BY <1>2, <1>3, Replaced DEF SameUpload

\* A request that takes the idle sessions.
LEMMA ExpireFacts ==
    ASSUME TypeOK, NEW r \in Requests, NEW idle \in SUBSET Uploads,
           req' = [req EXCEPT ![r].at = "discard", ![r].stale = idle]
    PROVE  /\ Typed /\ Others(r) /\ SameUpload(r)
           /\ req'[r].at = "discard" /\ req'[r].fd = req[r].fd
           /\ req'[r].stale = idle /\ req'[r].heard = req[r].heard
<1>. DEFINE x == [req[r] EXCEPT !.at = "discard", !.stale = idle]
<1>1. req[r] \in Records
  BY DEF TypeOK, Records
<1>2. req' = [req EXCEPT ![r] = x]
  BY DEF Goes, TypeOK
<1>3. /\ x \in Records /\ x.u = req[r].u /\ x.p = req[r].p
      /\ x.at = "discard" /\ x.fd = req[r].fd
      /\ x.stale = idle /\ x.heard = req[r].heard
  BY <1>1 DEF Records, Steps, PartSteps
<1>. HIDE DEF x
<1>. QED BY <1>2, <1>3, Replaced DEF SameUpload

\* A request that discarded one of them.
LEMMA StaleFacts ==
    ASSUME TypeOK, NEW r \in Requests, NEW u \in Uploads,
           req' = [req EXCEPT ![r].stale = @ \ {u}]
    PROVE  /\ Typed /\ Others(r) /\ SameUpload(r)
           /\ req'[r].at = req[r].at /\ req'[r].fd = req[r].fd
           /\ req'[r].stale = req[r].stale \ {u} /\ req'[r].heard = req[r].heard
<1>. DEFINE x == [req[r] EXCEPT !.stale = @ \ {u}]
<1>1. req[r] \in Records
  BY DEF TypeOK, Records
<1>2. req' = [req EXCEPT ![r] = x]
  BY DEF Goes, TypeOK
<1>3. /\ x \in Records /\ x.u = req[r].u /\ x.p = req[r].p
      /\ x.at = req[r].at /\ x.fd = req[r].fd
      /\ x.stale = req[r].stale \ {u} /\ x.heard = req[r].heard
  BY <1>1 DEF Records, Steps, PartSteps
<1>. HIDE DEF x
<1>. QED BY <1>2, <1>3, Replaced DEF SameUpload

\* A request whose connection broke.
LEMMA UnheardFacts ==
    ASSUME TypeOK, NEW r \in Requests,
           req' = [req EXCEPT ![r].heard = FALSE]
    PROVE  /\ Typed /\ Others(r) /\ SameUpload(r)
           /\ req'[r].at = req[r].at /\ req'[r].fd = req[r].fd
           /\ req'[r].stale = req[r].stale /\ req'[r].heard = FALSE
<1>. DEFINE x == [req[r] EXCEPT !.heard = FALSE]
<1>1. req[r] \in Records
  BY DEF TypeOK, Records
<1>2. req' = [req EXCEPT ![r] = x]
  BY DEF Goes, TypeOK
<1>3. /\ x \in Records /\ x.u = req[r].u /\ x.p = req[r].p
      /\ x.at = req[r].at /\ x.fd = req[r].fd
      /\ x.stale = req[r].stale /\ x.heard = FALSE
  BY <1>1 DEF Records, Steps, PartSteps
<1>. HIDE DEF x
<1>. QED BY <1>2, <1>3, Replaced DEF SameUpload

\* The requests of an upload its user cancelled.
LEMMA CancelFacts ==
    ASSUME TypeOK, NEW u \in Uploads, Cancel(u)
    PROVE  /\ Typed
           /\ \A r \in Requests :
                 /\ SameUpload(r)
                 /\ req'[r].at = req[r].at /\ req'[r].fd = req[r].fd
                 /\ req'[r].stale = req[r].stale
                 /\ (req'[r].heard <=> req[r].heard /\ req[r].u # u)
<1>1. ASSUME NEW r \in Requests
      PROVE  /\ req'[r] \in Records /\ SameUpload(r)
             /\ req'[r].at = req[r].at /\ req'[r].fd = req[r].fd
             /\ req'[r].stale = req[r].stale
             /\ (req'[r].heard <=> req[r].heard /\ req[r].u # u)
  <2>1. req[r] \in Records
    BY DEF TypeOK, Records
  <2>2. req'[r] = IF req[r].u = u THEN [req[r] EXCEPT !.heard = FALSE] ELSE req[r]
    BY DEF Cancel
  <2>3. CASE req[r].u = u
    <3>. DEFINE x == [req[r] EXCEPT !.heard = FALSE]
    <3>1. /\ x \in Records /\ x.u = req[r].u /\ x.p = req[r].p /\ x.at = req[r].at
          /\ x.fd = req[r].fd /\ x.stale = req[r].stale /\ x.heard = FALSE
      BY <2>1 DEF Records
    <3>2. req'[r] = x
      BY <2>2, <2>3
    <3>. HIDE DEF x
    <3>. QED BY <2>3, <3>1, <3>2 DEF SameUpload
  <2>4. CASE req[r].u # u
    <3>1. req[r].heard \in BOOLEAN
      BY <2>1 DEF Records
    <3>. QED BY <2>1, <2>2, <2>4, <3>1 DEF SameUpload
  <2>. QED BY <2>3, <2>4
<1>2. Typed
  BY <1>1 DEF Cancel, Typed
<1>. QED BY <1>1, <1>2

\* A request the page sends.
LEMMA SendFacts ==
    ASSUME TypeOK, NEW r \in Requests, NEW u \in Uploads
    PROVE  LET Sent(at) == /\ Typed /\ Others(r) /\ req'[r].at = at /\ req'[r].u = u
                           /\ req'[r].stale = {} /\ req'[r].heard
           IN  /\ SendOpen(r, u) => Sent("expire")
               /\ SendCommit(r, u) => Sent("commit:find")
               /\ \A p \in Parts : SendPart(r, u, p) => Sent("part:find") /\ req'[r].p = p
<1>1. ASSUME NEW at \in Steps, NEW q \in Parts \cup {None}, req' = [req EXCEPT ![r] = New(at, u, q)]
      PROVE  /\ Typed /\ Others(r) /\ req'[r].at = at /\ req'[r].u = u /\ req'[r].p = q
             /\ req'[r].stale = {} /\ req'[r].heard
  <2>1. New(at, u, q) \in Records
    BY NewRecord
  <2>2. Typed /\ Others(r) /\ req'[r] = New(at, u, q)
    BY <2>1, <1>1, Replaced
  <2>. QED BY <2>2, NewRecord
<1>2. {"expire", "commit:find", "part:find"} \subseteq Steps
  BY DEF Steps, CommitSteps, PartSteps
<1>3. ASSUME SendOpen(r, u)
      PROVE  /\ Typed /\ Others(r) /\ req'[r].at = "expire" /\ req'[r].u = u
             /\ req'[r].stale = {} /\ req'[r].heard
  BY <1>1, <1>2, <1>3 DEF SendOpen
<1>4. ASSUME SendCommit(r, u)
      PROVE  /\ Typed /\ Others(r) /\ req'[r].at = "commit:find" /\ req'[r].u = u
             /\ req'[r].stale = {} /\ req'[r].heard
  BY <1>1, <1>2, <1>4 DEF SendCommit
<1>5. ASSUME NEW p \in Parts, SendPart(r, u, p)
      PROVE  /\ Typed /\ Others(r) /\ req'[r].at = "part:find" /\ req'[r].u = u
             /\ req'[r].stale = {} /\ req'[r].heard /\ req'[r].p = p
  BY <1>1, <1>2, <1>5 DEF SendPart
<1>. QED BY <1>3, <1>4, <1>5

\* The request that deletes a session.
LEMMA DeleteFacts ==
    ASSUME TypeOK, NEW r \in Requests, NEW u \in Uploads, SendDelete(r, u)
    PROVE  /\ Typed /\ Others(r) /\ req'[r].u = u /\ req'[r].stale = {}
           /\ ~req'[r].heard /\ req'[r].at = "cancel"
<1>. DEFINE x == [New("cancel", u, None) EXCEPT !.heard = FALSE]
<1>1. /\ x \in Records /\ x.u = u /\ x.at = "cancel" /\ x.stale = {} /\ x.heard = FALSE
  BY UploadAssumption DEF New, Records, Steps
<1>2. req' = [req EXCEPT ![r] = x]
  BY DEF SendDelete
<1>. HIDE DEF x
<1>. QED BY <1>1, <1>2, Replaced

-----------------------------------------------------------------------------

\* Every step keeps the types; a file opened finds a descriptor, and a writer that
\* leaves was counted.
LEMMA TypesStep ==
    ASSUME TypeOK, RequestsOK, OpenOnce, WritersCount, Descriptors, [Next]_vars
    PROVE  TypeOK'
<1>. USE UploadAssumption
<1>. USE DEF TypeOK, server, page
<1>. DEFINE Clients == [Uploads -> {"new", "opening", "sending", "committing", "complete", "failed"}]
<1>0. ASSUME NEW r \in Requests PROVE
        /\ \A final \in BOOLEAN : PartRefused(r, final) => client' \in Clients
        /\ \A st \in {"sending", "complete", "failed"} : Answer(r, st) => client' \in Clients
  <2>1. \A v : Fails(v) => client' \in Clients
    BY DEF Fails
  <2>2. \A v : \A st \in {"sending", "complete", "failed"} : [client EXCEPT ![v] = st] \in Clients
    OBVIOUS
  <2>3. client \in Clients
    OBVIOUS
  <2>4. ASSUME NEW final \in BOOLEAN, PartRefused(r, final) PROVE client' \in Clients
    BY <2>1, <2>3, <2>4 DEF PartRefused
  <2>5. ASSUME NEW st \in {"sending", "complete", "failed"}, Answer(r, st) PROVE client' \in Clients
    BY <2>2, <2>3, <2>5 DEF Answer
  <2>. QED BY <2>4, <2>5
<1>1. ASSUME NEW r \in Requests, NEW u \in Uploads,
             SendOpen(r, u) \/ SendCommit(r, u) PROVE TypeOK'
  <2>1. Typed
    BY <1>1, SendFacts
  <2>. QED BY <2>1, <1>1 DEF SendOpen, SendCommit, Typed, Records
<1>19. ASSUME NEW r \in Requests, NEW u \in Uploads, NEW p \in Parts, SendPart(r, u, p) PROVE TypeOK'
  <2>1. Typed
    BY <1>19, SendFacts
  <2>2. tries[u][p] + 1 \in 0..Tries
    BY <1>19 DEF SendPart
  <2>3. tries' = [tries EXCEPT ![u] = [tries[u] EXCEPT ![p] = tries[u][p] + 1]]
    BY <1>19 DEF SendPart
  <2>4. [tries[u] EXCEPT ![p] = tries[u][p] + 1] \in [Parts -> 0..Tries]
    BY <2>2
  <2>5. tries' \in [Uploads -> [Parts -> 0..Tries]]
    BY <2>3, <2>4
  <2>. QED BY <2>1, <2>5, <1>19 DEF SendPart, Typed, Records
<1>2. ASSUME NEW r \in Requests, NEW u \in Uploads, SendDelete(r, u) PROVE TypeOK'
  <2>1. Typed
    BY <1>2, DeleteFacts
  <2>. QED BY <2>1, <1>2 DEF SendDelete, Typed, Records
<1>3. ASSUME NEW u \in Uploads, Cancel(u) PROVE TypeOK'
  <2>1. Typed
    BY <1>3, CancelFacts
  <2>. QED BY <2>1, <1>3 DEF Cancel, Fails, Typed, Records
<1>4. ASSUME NEW r \in Requests, Lose(r) PROVE TypeOK'
  <2>1. Typed
    BY <1>4, UnheardFacts DEF Lose
  <2>2. client' \in Clients
    BY <1>0, <1>4 DEF Lose
  <2>. QED BY <2>1, <2>2, <1>4 DEF Lose, PartRefused, Answer, Typed, Records
<1>5. ASSUME NEW r \in Requests, Expire(r) PROVE TypeOK'
  <2>1. Typed
    BY <1>5, ExpireFacts DEF Expire
  <2>. QED BY <2>1, <1>5 DEF Expire, Typed, Records
<1>6. ASSUME NEW r \in Requests, DiscardStale(r) PROVE TypeOK'
  <2>1. Typed
    BY <1>6, GoesFacts, StaleFacts DEF DiscardStale, Steps
  <2>. QED BY <2>1, <1>6 DEF DiscardStale, DiscardOf, CloseNow, Typed, Records
<1>7. ASSUME NEW r \in Requests, Open(r) PROVE TypeOK'
  <2>1. req[r].u \in Uploads /\ fd[req[r].u] = None
    BY <1>7 DEF Open, RequestsOK, OpenOnce, Unopened, Opening
  <2>2. LowestFree \in Fds
    BY <2>1, FreeDescriptor
  <2>3. Typed
    BY <1>7, EndsFacts DEF Open
  <2>4. client' \in Clients
    BY <1>0, <1>7 DEF Open
  <2>5. /\ sessions' \in SUBSET Uploads /\ temporary' \in SUBSET Uploads
        /\ fd' \in [Uploads -> Fds \cup {None}] /\ openFile' \in [Fds -> Uploads \cup {None}]
    <3>1. CASE UNCHANGED <<sessions, temporary, fd, openFile>>
      BY <3>1
    <3>2. CASE /\ sessions' = sessions \cup {req[r].u} /\ temporary' = temporary \cup {req[r].u}
               /\ fd' = [fd EXCEPT ![req[r].u] = LowestFree]
               /\ openFile' = [openFile EXCEPT ![LowestFree] = req[r].u]
      BY <2>1, <2>2, <3>2
    <3>. QED BY <3>1, <3>2, <1>7 DEF Open
  <2>. QED BY <2>3, <2>4, <2>5, <1>7 DEF Open, Answer, Typed, Records
<1>8. ASSUME NEW r \in Requests, PartFind(r) PROVE TypeOK'
  <2>1. Typed
    BY <1>8, GoesFacts, EndsFacts DEF PartFind, Steps, PartSteps
  <2>2. client' \in Clients
    BY <1>0, <1>8 DEF PartFind
  <2>. QED BY <2>1, <2>2, <1>8 DEF PartFind, PartRefused, Typed, Records
<1>9. ASSUME NEW r \in Requests, PartAttach(r) PROVE TypeOK'
  <2>1. req[r].u \in Uploads
    BY <1>9 DEF PartAttach, RequestsOK
  <2>2. Typed
    BY <1>9, <2>1, AttachFacts, EndsFacts DEF PartAttach
  <2>3. client' \in Clients
    BY <1>0, <1>9 DEF PartAttach
  <2>4. UNCHANGED <<left, tries>> /\ writers' \in [Uploads -> Nat]
    BY <2>1, <1>9 DEF PartAttach, PartRefused
  <2>. QED BY <2>2, <2>3, <2>4, <1>9 DEF PartAttach, Typed, Records
<1>10. ASSUME NEW r \in Requests, PartWrite(r) PROVE TypeOK'
  <2>1. Typed
    BY <1>10, GoesFacts, RefusedFacts DEF PartWrite, Steps, PartSteps
  <2>2. content' \in [Uploads -> [Parts -> Uploads \cup {None}]]
    <3>. DEFINE f == openFile[req[r].fd]  p == req[r].p
    <3>1. p \in Parts /\ req[r].u \in Uploads /\ f \in Uploads \cup {None}
      BY <1>10 DEF PartWrite, RequestsOK, PartSteps
    <3>2. CASE f # None /\ content' = [content EXCEPT ![f][p] = req[r].u]
      <4>1. content' = [content EXCEPT ![f] = [content[f] EXCEPT ![p] = req[r].u]]
        BY <3>2
      <4>2. [content[f] EXCEPT ![p] = req[r].u] \in [Parts -> Uploads \cup {None}]
        BY <3>1, <3>2
      <4>. QED BY <3>1, <3>2, <4>1, <4>2
    <3>3. CASE UNCHANGED content
      BY <3>3
    <3>. QED BY <3>2, <3>3, <1>10 DEF PartWrite
  <2>3. client' \in Clients
    BY <1>0, <1>10 DEF PartWrite
  <2>. QED BY <2>1, <2>2, <2>3, <1>10 DEF PartWrite, PartRefused, Typed, Records
<1>11. ASSUME NEW r \in Requests, PartFinish(r) \/ PartFree(r) PROVE TypeOK'
  <2>1. writers[req[r].u] >= 1 /\ req[r].u \in Uploads
    BY <1>11, WritersLeft DEF PartFinish, PartFree, RequestsOK
  <2>2. writers' \in [Uploads -> Nat]
    BY <2>1, <1>11 DEF PartFinish, PartFree, Leave
  <2>3. openFile' \in [Fds -> Uploads \cup {None}] /\ fd' \in [Uploads -> Fds \cup {None}]
    BY <2>1, <1>11 DEF PartFinish, PartFree, Leave
  <2>4. Typed
    BY <1>11, EndsFacts DEF PartFinish, PartFree
  <2>5. CASE PartFinish(r)
    BY <2>1, <2>2, <2>3, <2>4, <2>5 DEF PartFinish, RequestsOK, PartSteps, Typed, Records
  <2>6. CASE PartFree(r)
    BY <2>1, <2>2, <2>3, <2>4, <2>6 DEF PartFree, Typed, Records
  <2>. QED BY <1>11, <2>5, <2>6
<1>12. ASSUME NEW r \in Requests, CommitFind(r) \/ CommitCheck(r) \/ CommitTake(r) PROVE TypeOK'
  <2>1. Typed
    BY <1>12, GoesFacts, EndsFacts DEF CommitFind, CommitCheck, CommitTake, Steps, CommitSteps
  <2>. QED BY <2>1, <1>12 DEF CommitFind, CommitCheck, CommitTake, Answer, Typed, Records
<1>13. ASSUME NEW r \in Requests, CommitRename(r) \/ CommitClose(r) PROVE TypeOK'
  <2>1. Typed
    BY <1>13, GoesFacts DEF CommitRename, CommitClose, Steps, CommitSteps
  <2>. QED BY <2>1, <1>13 DEF CommitRename, CommitClose, Typed, Records, RequestsOK, Names
<1>14. ASSUME NEW r \in Requests, CommitForget(r) PROVE TypeOK'
  <2>1. Typed
    BY <1>14, EndsFacts DEF CommitForget
  <2>. QED BY <2>1, <1>14 DEF CommitForget, Answer, Outcome, Typed, Records
<1>15. ASSUME NEW r \in Requests, Delete(r) PROVE TypeOK'
  <2>1. Typed
    BY <1>15, EndsFacts DEF Delete
  <2>. QED BY <2>1, <1>15 DEF Delete, DiscardOf, CloseNow, Typed, Records
<1>16. CASE UNCHANGED vars
  BY <1>16 DEF vars
<1>17. CASE Page
  BY <1>17, <1>1, <1>19, <1>2, <1>3, <1>4 DEF Page
<1>18. ASSUME NEW r \in Requests, Serve(r) PROVE TypeOK'
  BY <1>18, <1>5, <1>6, <1>7, <1>8, <1>9, <1>10, <1>11, <1>12, <1>13, <1>14, <1>15 DEF Serve
<1>. QED
  BY <1>16, <1>17, <1>18 DEF Next

\* What each step of the server makes of its request.
LEMMA ServeFacts ==
    ASSUME TypeOK, RequestsOK, NEW r \in Requests
    PROVE
    /\ Expire(r) => /\ Typed /\ Others(r) /\ SameUpload(r) /\ req'[r].at = "discard"
                    /\ req'[r].fd = req[r].fd /\ req'[r].heard = req[r].heard
                    /\ req'[r].stale \in SUBSET {u \in sessions : writers[u] = 0}
                    /\ sessions' = sessions \ req'[r].stale
    /\ PartFind(r) => /\ Typed /\ Others(r)
          /\ \/ /\ SameUpload(r) /\ req[r].u \in sessions /\ req'[r].at = "part:attach"
                /\ req'[r].stale = req[r].stale /\ req'[r].heard = req[r].heard
             \/ req'[r] = Idle
    /\ PartAttach(r) => /\ Typed /\ Others(r)
          /\ \/ /\ SameUpload(r) /\ ~closing[req[r].u] /\ fd[req[r].u] # None
                /\ writers' = [writers EXCEPT ![req[r].u] = @ + 1]
                /\ req'[r].at = "part:write" /\ req'[r].fd = fd[req[r].u]
                /\ req'[r].stale = req[r].stale /\ req'[r].heard = req[r].heard
             \/ req'[r] = Idle /\ UNCHANGED writers
    /\ PartWrite(r) => /\ Typed /\ Others(r) /\ SameUpload(r)
          /\ req'[r].stale = req[r].stale /\ req'[r].fd = req[r].fd
          /\ \/ req'[r].at = "part:finish" /\ req'[r].heard = req[r].heard
             \/ req'[r].at = "part:free" /\ req'[r].heard = FALSE /\ UNCHANGED content
    /\ CommitFind(r) => /\ Typed /\ Others(r)
          /\ \/ /\ SameUpload(r) /\ req[r].u \in sessions /\ req'[r].at = "commit:check"
                /\ req'[r].stale = req[r].stale
             \/ req'[r] = Idle
    /\ CommitCheck(r) => /\ Typed /\ Others(r)
          /\ \/ /\ SameUpload(r) /\ MayCommit(req[r].u) /\ req'[r].at = "commit:take"
                /\ req'[r].stale = req[r].stale
             \/ req'[r] = Idle
    /\ CommitTake(r) => /\ Typed /\ Others(r)
          /\ \/ /\ SameUpload(r) /\ req[r].u \in sessions /\ req'[r].at = "commit:rename"
                /\ req'[r].stale = req[r].stale
             \/ req'[r] = Idle /\ req[r].u \notin sessions
    /\ CommitRename(r) => /\ Typed /\ Others(r) /\ SameUpload(r) /\ req'[r].at = "commit:close"
                          /\ req'[r].stale = req[r].stale
    /\ CommitClose(r) => /\ Typed /\ Others(r) /\ SameUpload(r) /\ req'[r].at = "commit:forget"
                         /\ req'[r].stale = req[r].stale
    /\ Open(r) \/ PartFinish(r) \/ PartFree(r) \/ CommitForget(r) \/ Delete(r) =>
          Typed /\ Others(r) /\ req'[r] = Idle
<1>. {"discard", "open", "part:attach", "part:write", "part:finish", "part:free",
      "commit:check", "commit:take", "commit:rename", "commit:close", "commit:forget"} \subseteq Steps
  BY DEF Steps, PartSteps, CommitSteps
<1>1. ASSUME Expire(r)
      PROVE  /\ Typed /\ Others(r) /\ SameUpload(r) /\ req'[r].at = "discard"
             /\ req'[r].fd = req[r].fd /\ req'[r].heard = req[r].heard
             /\ req'[r].stale \in SUBSET {u \in sessions : writers[u] = 0}
             /\ sessions' = sessions \ req'[r].stale
  <2>1. PICK idle \in SUBSET {u \in sessions : writers[u] = 0} :
          /\ sessions' = sessions \ idle
          /\ req' = [req EXCEPT ![r].at = "discard", ![r].stale = idle]
    BY <1>1 DEF Expire
  <2>2. idle \in SUBSET Uploads
    BY DEF TypeOK
  <2>. QED BY <2>1, <2>2, ExpireFacts
<1>2. ASSUME PartFind(r)
      PROVE  /\ Typed /\ Others(r)
             /\ \/ /\ SameUpload(r) /\ req[r].u \in sessions /\ req'[r].at = "part:attach"
                   /\ req'[r].stale = req[r].stale /\ req'[r].heard = req[r].heard
                \/ req'[r] = Idle
  BY <1>2, GoesFacts, EndsFacts DEF PartFind
<1>3. ASSUME PartAttach(r)
      PROVE  /\ Typed /\ Others(r)
             /\ \/ /\ SameUpload(r) /\ ~closing[req[r].u] /\ fd[req[r].u] # None
                   /\ writers' = [writers EXCEPT ![req[r].u] = @ + 1]
                   /\ req'[r].at = "part:write" /\ req'[r].fd = fd[req[r].u]
                   /\ req'[r].stale = req[r].stale /\ req'[r].heard = req[r].heard
                \/ req'[r] = Idle /\ UNCHANGED writers
  <2>1. CASE closing[req[r].u] \/ fd[req[r].u] = None
    BY <1>3, <2>1, EndsFacts DEF PartAttach
  <2>2. CASE ~(closing[req[r].u] \/ fd[req[r].u] = None)
    <3>1. fd[req[r].u] \in Fds
      BY <1>3, <2>2 DEF TypeOK, PartAttach, RequestsOK
    <3>. QED BY <1>3, <2>2, <3>1, AttachFacts DEF PartAttach
  <2>. QED BY <2>1, <2>2
<1>4. ASSUME PartWrite(r)
      PROVE  /\ Typed /\ Others(r) /\ SameUpload(r)
             /\ req'[r].stale = req[r].stale /\ req'[r].fd = req[r].fd
             /\ \/ req'[r].at = "part:finish" /\ req'[r].heard = req[r].heard
                \/ req'[r].at = "part:free" /\ req'[r].heard = FALSE /\ UNCHANGED content
  BY <1>4, GoesFacts, RefusedFacts DEF PartWrite
<1>5. ASSUME CommitFind(r)
      PROVE  /\ Typed /\ Others(r)
             /\ \/ /\ SameUpload(r) /\ req[r].u \in sessions /\ req'[r].at = "commit:check"
                   /\ req'[r].stale = req[r].stale
                \/ req'[r] = Idle
  BY <1>5, GoesFacts, EndsFacts DEF CommitFind
<1>6. ASSUME CommitCheck(r)
      PROVE  /\ Typed /\ Others(r)
             /\ \/ /\ SameUpload(r) /\ MayCommit(req[r].u) /\ req'[r].at = "commit:take"
                   /\ req'[r].stale = req[r].stale
                \/ req'[r] = Idle
  BY <1>6, GoesFacts, EndsFacts DEF CommitCheck
<1>7. ASSUME CommitTake(r)
      PROVE  /\ Typed /\ Others(r)
             /\ \/ /\ SameUpload(r) /\ req[r].u \in sessions /\ req'[r].at = "commit:rename"
                   /\ req'[r].stale = req[r].stale
                \/ req'[r] = Idle /\ req[r].u \notin sessions
  BY <1>7, GoesFacts, EndsFacts DEF CommitTake
<1>8. CommitRename(r) => /\ Typed /\ Others(r) /\ SameUpload(r) /\ req'[r].at = "commit:close"
                          /\ req'[r].stale = req[r].stale
  BY GoesFacts DEF CommitRename
<1>9. CommitClose(r) => /\ Typed /\ Others(r) /\ SameUpload(r) /\ req'[r].at = "commit:forget"
                         /\ req'[r].stale = req[r].stale
  BY GoesFacts DEF CommitClose
<1>10. Open(r) \/ PartFinish(r) \/ PartFree(r) \/ CommitForget(r) \/ Delete(r) =>
          Typed /\ Others(r) /\ req'[r] = Idle
  BY EndsFacts DEF Open, PartFinish, PartFree, CommitForget, Delete
<1>. QED BY <1>1, <1>2, <1>3, <1>4, <1>5, <1>6, <1>7, <1>8, <1>9, <1>10

\* What discarding a stale session, or finding none left, makes of its request.
LEMMA DiscardFacts ==
    ASSUME TypeOK, NEW r \in Requests, DiscardStale(r)
    PROVE  /\ Typed /\ Others(r) /\ SameUpload(r)
           /\ \/ /\ req[r].stale = {} /\ req'[r].at = "open" /\ req'[r].stale = {}
                 /\ UNCHANGED <<closing, temporary, openFile, fd>>
              \/ \E u \in Uploads : /\ u \in req[r].stale /\ DiscardOf(u)
                                    /\ req'[r].at = "discard" /\ req'[r].stale = req[r].stale \ {u}
<1>1. CASE req[r].stale = {}
  <2>1. "open" \in Steps
    BY DEF Steps
  <2>. QED BY <1>1, <2>1, GoesFacts DEF DiscardStale
<1>2. CASE req[r].stale # {}
  <2>1. PICK u \in req[r].stale : DiscardOf(u) /\ req' = [req EXCEPT ![r].stale = @ \ {u}]
    BY <1>2 DEF DiscardStale
  <2>2. u \in Uploads
    BY DEF TypeOK
  <2>3. req[r].at = "discard"
    BY DEF DiscardStale
  <2>. QED BY <2>1, <2>2, <2>3, StaleFacts
<1>. QED BY <1>1, <1>2

\* Every step keeps what the requests are about.
LEMMA RequestsStep ==
    ASSUME TypeOK, RequestsOK, [Next]_vars
    PROVE  RequestsOK'
<1>. DEFINE Good(x) == /\ x.at = "idle" => x = Idle
                       /\ x.at # "idle" => x.u \in Uploads
                       /\ x.at \in PartSteps => x.p \in Parts
                       /\ x.at \in {"part:write", "part:finish", "part:free"} => x.fd \in Fds
                       /\ x.stale # {} => x.at = "discard"
<1>1. \A q \in Requests : Good(req[q])
  BY DEF RequestsOK
<1>2. Good(Idle)
  BY DEF Idle, PartSteps
<1>3. ASSUME NEW r \in Requests, Others(r), Good(req'[r]) PROVE RequestsOK'
  BY <1>1, <1>3 DEF Others, RequestsOK
<1>. HIDE DEF Good
<1>4. ASSUME NEW r \in Requests, Serve(r) PROVE RequestsOK'
  <2>1. Others(r)
    BY <1>4, ServeFacts, DiscardFacts DEF Serve
  <2>2. CASE req'[r] = Idle
    BY <1>2, <1>3, <2>1, <2>2
  <2>3. CASE req'[r] # Idle
    <3>1. SameUpload(r)
      BY <1>4, <2>3, ServeFacts, DiscardFacts DEF Serve
    <3>2. req[r].u \in Uploads /\ req[r].at # "idle"
      BY <1>4 DEF RequestsOK, Serve, Expire, DiscardStale, Open, PartFind, PartAttach, PartWrite,
         PartFinish, PartFree, CommitFind, CommitCheck, CommitTake, CommitRename, CommitClose,
         CommitForget, Delete
    <3>3. CASE Expire(r) \/ DiscardStale(r)
      BY <3>3, <3>1, <3>2, <2>1, <1>3, ServeFacts, DiscardFacts DEF Good, SameUpload, PartSteps
    <3>4. CASE PartFind(r) \/ PartAttach(r) \/ PartWrite(r)
      <4>1. /\ req[r].p \in Parts /\ req[r].stale = {}
            /\ req[r].at = "part:write" => req[r].fd \in Fds
        BY <3>4 DEF RequestsOK, PartFind, PartAttach, PartWrite, PartSteps
      <4>2. fd[req[r].u] \in Fds \cup {None}
        BY <3>2 DEF TypeOK
      <4>3. /\ req'[r].at \in {"part:attach", "part:write", "part:finish", "part:free"}
            /\ req'[r].stale = {}
            /\ req'[r].at \in {"part:write", "part:finish", "part:free"} => req'[r].fd \in Fds
        <5>1. CASE PartFind(r)
          BY <5>1, <2>3, <4>1, ServeFacts
        <5>2. CASE PartAttach(r)
          BY <5>2, <2>3, <4>1, <4>2, ServeFacts
        <5>3. CASE PartWrite(r)
          BY <5>3, <4>1, ServeFacts DEF PartWrite
        <5>. QED BY <3>4, <5>1, <5>2, <5>3
      <4>. QED BY <3>1, <3>2, <4>1, <4>3, <2>1, <1>3 DEF Good, SameUpload
    <3>5. CASE CommitFind(r) \/ CommitCheck(r) \/ CommitTake(r) \/ CommitRename(r) \/ CommitClose(r)
      <4>1. req[r].stale = {}
        BY <3>5 DEF RequestsOK, CommitFind, CommitCheck, CommitTake, CommitRename, CommitClose
      <4>2. /\ req'[r].at \in {"commit:check", "commit:take", "commit:rename", "commit:close", "commit:forget"}
            /\ req'[r].stale = {}
        BY <3>5, <2>3, <4>1, ServeFacts
      <4>. QED BY <3>1, <3>2, <4>2, <2>1, <1>3 DEF Good, SameUpload, PartSteps
    <3>. QED BY <1>4, <2>3, <3>3, <3>4, <3>5, ServeFacts DEF Serve
  <2>. QED BY <2>2, <2>3
<1>5. ASSUME NEW r \in Requests, NEW u \in Uploads,
             SendOpen(r, u) \/ SendCommit(r, u) \/ SendDelete(r, u) PROVE RequestsOK'
  <2>1. Others(r) /\ req'[r].u = u /\ req'[r].stale = {} /\ req'[r].at \in {"expire", "commit:find", "cancel"}
    BY <1>5, SendFacts, DeleteFacts
  <2>. QED BY <1>3, <2>1 DEF Good, PartSteps
<1>6. ASSUME NEW r \in Requests, NEW u \in Uploads, NEW p \in Parts, SendPart(r, u, p) PROVE RequestsOK'
  <2>1. Others(r) /\ req'[r].u = u /\ req'[r].stale = {} /\ req'[r].at = "part:find" /\ req'[r].p = p
    BY <1>6, SendFacts
  <2>. QED BY <1>3, <2>1 DEF Good
<1>7. ASSUME NEW u \in Uploads, Cancel(u) PROVE RequestsOK'
  <2>1. ASSUME NEW q \in Requests PROVE Good(req'[q])
    <3>1. Good(req[q])
      BY <1>1
    <3>2. req[q].u # u => req'[q] = req[q]
      BY <1>7 DEF Cancel
    <3>3. req[q].u = u => req[q].at # "idle"
      BY UploadAssumption DEF RequestsOK, Idle
    <3>. QED BY <1>7, <3>1, <3>2, <3>3, CancelFacts DEF Good, SameUpload
  <2>. QED BY <2>1 DEF Good, RequestsOK
<1>8. ASSUME NEW r \in Requests, Lose(r) PROVE RequestsOK'
  <2>1. Others(r) /\ SameUpload(r) /\ req'[r].at = req[r].at /\ req'[r].fd = req[r].fd
        /\ req'[r].stale = req[r].stale
    BY <1>8, UnheardFacts DEF Lose
  <2>2. req[r].at # "idle"
    BY <1>8 DEF Lose, RequestsOK, Idle
  <2>. QED BY <1>1, <1>3, <2>1, <2>2 DEF Good, SameUpload
<1>9. CASE UNCHANGED vars
  BY <1>9 DEF vars, RequestsOK
<1>. QED BY <1>4, <1>5, <1>6, <1>7, <1>8, <1>9 DEF Next, Page

\* Every step keeps one holder at most for each session: whoever takes it out of
\* the map, under the map's lock.
LEMMA HolderStep ==
    ASSUME TypeOK, RequestsOK, OpenOnce, OneHolder, [Next]_vars
    PROVE  /\ OneHolder'
           /\ \A q \in Requests, v \in Uploads :
                Holds(q, v)' => Holds(q, v) \/ v \in sessions
<1>. USE DEF Holds, Committing
<1>1. ASSUME \A q \in Requests, v \in Uploads : Holds(q, v)' => Holds(q, v),
             sessions' \subseteq sessions
      PROVE  OneHolder'
  BY <1>1 DEF OneHolder, Held
<1>2. ASSUME NEW r \in Requests, Expire(r)
      PROVE  OneHolder' /\ \A q \in Requests, v \in Uploads :
                Holds(q, v)' => Holds(q, v) \/ v \in sessions
  <2>1. \A q \in Requests, v \in Uploads : Holds(q, v)' => Holds(q, v) \/ (q = r /\ v \in req'[r].stale)
    BY <1>2, ServeFacts DEF Others
  <2>2. req'[r].stale \subseteq sessions /\ sessions' = sessions \ req'[r].stale
    BY <1>2, ServeFacts
  <2>. HIDE DEF Holds, Committing
  <2>. QED BY <2>1, <2>2 DEF OneHolder, Held
<1>3. ASSUME NEW r \in Requests, CommitTake(r)
      PROVE  OneHolder' /\ \A q \in Requests, v \in Uploads :
                Holds(q, v)' => Holds(q, v) \/ v \in sessions
  <2>1. sessions' = sessions \ {req[r].u}
    BY <1>3 DEF CommitTake
  <2>2. CASE req'[r] = Idle
    <3>1. \A q \in Requests, v \in Uploads : Holds(q, v)' => Holds(q, v)
      BY <1>3, <2>2, ServeFacts, IdleFields DEF Others
    <3>. QED BY <1>1, <2>1, <3>1
  <2>3. CASE req'[r] # Idle
    <3>1. \A q \in Requests, v \in Uploads : Holds(q, v)' => Holds(q, v) \/ (q = r /\ v = req[r].u)
      BY <1>3, <2>3, ServeFacts DEF Others, SameUpload
    <3>2. req[r].u \in sessions
      BY <1>3, <2>3, ServeFacts
    <3>. HIDE DEF Holds, Committing
    <3>. QED BY <2>1, <3>1, <3>2 DEF OneHolder, Held
  <2>. QED BY <2>2, <2>3
<1>4. ASSUME NEW r \in Requests, Open(r)
      PROVE  OneHolder' /\ \A q \in Requests, v \in Uploads : Holds(q, v)' => Holds(q, v)
  <2>1. \A q \in Requests, v \in Uploads : Holds(q, v)' => Holds(q, v)
    BY <1>4, ServeFacts, IdleFields DEF Others
  <2>2. ~Held(req[r].u)
    BY <1>4 DEF OpenOnce, Opening, Open, Unopened, RequestsOK
  <2>3. sessions' \subseteq sessions \cup {req[r].u}
    BY <1>4 DEF Open
  <2>. HIDE DEF Holds, Committing
  <2>. QED BY <2>1, <2>2, <2>3 DEF OneHolder, Held
<1>5. ASSUME NEW r \in Requests, Serve(r), ~Expire(r), ~CommitTake(r), ~Open(r)
      PROVE  (\A q \in Requests, v \in Uploads : Holds(q, v)' => Holds(q, v)) /\ sessions' \subseteq sessions
  <2>1. sessions' \subseteq sessions
    BY <1>5 DEF Serve, DiscardStale, PartFind, PartAttach, PartWrite,
         PartFinish, PartFree, CommitFind, CommitCheck, CommitRename, CommitClose,
         CommitForget, Delete, server
  <2>2. Others(r)
    BY <1>5, ServeFacts, DiscardFacts DEF Serve
  <2>3. \A v \in Uploads : Holds(r, v)' => Holds(r, v)
    <3>1. CASE DiscardStale(r)
      BY <3>1, DiscardFacts DEF SameUpload
    <3>2. CASE PartFind(r) \/ PartAttach(r) \/ PartWrite(r)
      BY <3>2, ServeFacts, IdleFields DEF SameUpload
    <3>3. CASE CommitFind(r) \/ CommitCheck(r)
      BY <3>3, ServeFacts, IdleFields DEF SameUpload
    <3>4. CASE CommitRename(r) \/ CommitClose(r)
      BY <3>4, ServeFacts DEF SameUpload, CommitRename, CommitClose
    <3>5. CASE req'[r] = Idle
      BY <3>5, IdleFields
    <3>. QED BY <1>5, <3>1, <3>2, <3>3, <3>4, <3>5, ServeFacts DEF Serve
  <2>. QED BY <2>1, <2>2, <2>3 DEF Others
<1>6. CASE Page
  <2>1. sessions' = sessions
    BY <1>6 DEF Page, SendOpen, SendCommit, SendDelete, SendPart, Cancel, Lose, server
  <2>2. ASSUME NEW r \in Requests, Others(r), req'[r].stale = {},
               req'[r].at \in {"expire", "commit:find", "cancel", "part:find"}
        PROVE  \A q \in Requests, v \in Uploads : Holds(q, v)' => Holds(q, v)
    BY <2>2 DEF Others
  <2>3. \A q \in Requests, v \in Uploads : Holds(q, v)' => Holds(q, v)
    <3>1. ASSUME NEW r \in Requests, NEW u \in Uploads, SendOpen(r, u) \/ SendCommit(r, u) \/ SendDelete(r, u)
          PROVE  \A q \in Requests, v \in Uploads : Holds(q, v)' => Holds(q, v)
      BY <3>1, <2>2, SendFacts, DeleteFacts
    <3>2. ASSUME NEW r \in Requests, NEW u \in Uploads, NEW p \in Parts, SendPart(r, u, p)
          PROVE  \A q \in Requests, v \in Uploads : Holds(q, v)' => Holds(q, v)
      BY <3>2, <2>2, SendFacts
    <3>3. ASSUME NEW u \in Uploads, Cancel(u)
          PROVE  \A q \in Requests, v \in Uploads : Holds(q, v)' => Holds(q, v)
      BY <3>3, CancelFacts DEF SameUpload
    <3>4. ASSUME NEW r \in Requests, Lose(r)
          PROVE  \A q \in Requests, v \in Uploads : Holds(q, v)' => Holds(q, v)
      BY <3>4, UnheardFacts DEF Lose, Others, SameUpload
    <3>. QED BY <1>6, <3>1, <3>2, <3>3, <3>4 DEF Page
  <2>. QED BY <1>1, <2>1, <2>3
<1>7. CASE UNCHANGED vars
  BY <1>1, <1>7 DEF vars, server
<1>8. ASSUME NEW r \in Requests, Serve(r)
      PROVE OneHolder' /\ \A q \in Requests, v \in Uploads :
                Holds(q, v)' => Holds(q, v) \/ v \in sessions
  BY <1>8, <1>1, <1>2, <1>3, <1>4, <1>5
<1>. QED BY <1>6, <1>7, <1>8 DEF Next

\* Every step counts the writers that come and go.
LEMMA WritersStep ==
    ASSUME TypeOK, RequestsOK, WritersCount, [Next]_vars
    PROVE  WritersCount'
<1>. DEFINE In(q, v) == req[q].u = v /\ req[q].at \in {"part:write", "part:finish", "part:free"}
<1>1. ASSUME UNCHANGED writers, \A q \in Requests, v \in Uploads : In(q, v)' <=> In(q, v)
      PROVE  WritersCount'
  <2>1. \A v \in Uploads : Attached(v)' = Attached(v)
    BY <1>1 DEF Attached
  <2>. QED BY <1>1, <2>1 DEF WritersCount
<1>2. ASSUME NEW r \in Requests, UNCHANGED writers, Others(r),
             \A v \in Uploads : In(r, v)' <=> In(r, v)
      PROVE  WritersCount'
  <2>1. \A q \in Requests, v \in Uploads : In(q, v)' <=> In(q, v)
    BY <1>2 DEF Others
  <2>. HIDE DEF In
  <2>. QED BY <1>1, <1>2, <2>1
<1>3. ASSUME NEW r \in Requests, PartAttach(r) PROVE WritersCount'
  <2>0. PICK u \in Uploads : u = req[r].u /\ req[r].at = "part:attach"
    BY <1>3 DEF PartAttach, RequestsOK
  <2>1. CASE req'[r] = Idle /\ UNCHANGED writers
    <3>1. Others(r)
      BY <1>3, ServeFacts
    <3>2. \A v \in Uploads : In(r, v)' <=> In(r, v)
      BY <2>0, <2>1, IdleFields
    <3>. HIDE DEF In
    <3>. QED BY <1>2, <2>1, <3>1, <3>2
  <2>2. CASE ~(req'[r] = Idle /\ UNCHANGED writers)
    <3>1. /\ Others(r) /\ req'[r].u = u /\ req'[r].at = "part:write"
          /\ writers' = [writers EXCEPT ![u] = @ + 1]
      BY <1>3, <2>0, <2>2, ServeFacts DEF SameUpload
    <3>2. Attached(u)' = Attached(u) \cup {r} /\ r \notin Attached(u)
      BY <2>0, <3>1 DEF Attached, Others
    <3>3. \A v \in Uploads : v # u => Attached(v)' = Attached(v)
      BY <2>0, <3>1 DEF Attached, Others
    <3>4. Cardinality(Attached(u) \cup {r}) = Cardinality(Attached(u)) + 1
      BY <3>2, AttachedFinite, FS_AddElement
    <3>. QED BY <2>0, <3>1, <3>2, <3>3, <3>4 DEF WritersCount, TypeOK
  <2>. QED BY <2>1, <2>2
<1>4. ASSUME NEW r \in Requests, PartFinish(r) \/ PartFree(r) PROVE WritersCount'
  <2>0. PICK u \in Uploads : u = req[r].u /\ req[r].at \in {"part:finish", "part:free"}
    BY <1>4 DEF PartFinish, PartFree, RequestsOK
  <2>1. Others(r) /\ req'[r] = Idle /\ writers' = [writers EXCEPT ![u] = @ - 1]
    BY <1>4, <2>0, ServeFacts DEF PartFinish, PartFree, Leave
  <2>2. Attached(u)' = Attached(u) \ {r} /\ r \in Attached(u)
    BY <2>0, <2>1, IdleFields DEF Attached, Others
  <2>3. \A v \in Uploads : v # u => Attached(v)' = Attached(v)
    BY <2>0, <2>1, IdleFields DEF Attached, Others
  <2>4. Cardinality(Attached(u) \ {r}) = Cardinality(Attached(u)) - 1
    BY <2>2, AttachedFinite, FS_RemoveElement
  <2>. QED BY <2>0, <2>1, <2>2, <2>3, <2>4 DEF WritersCount, TypeOK
<1>5. ASSUME NEW r \in Requests, Serve(r), ~PartAttach(r), ~PartFinish(r), ~PartFree(r)
      PROVE  WritersCount'
  <2>1. UNCHANGED writers
    BY <1>5 DEF Serve, Expire, DiscardStale, Open, PartFind, PartWrite, CommitFind, CommitCheck,
       CommitTake, CommitRename, CommitClose, CommitForget, Delete, server
  <2>2. Others(r)
    BY <1>5, ServeFacts, DiscardFacts DEF Serve
  <2>3. \A v \in Uploads : In(r, v)' <=> In(r, v)
    <3>1. CASE Expire(r) \/ DiscardStale(r) \/ Open(r)
      BY <3>1, ServeFacts, DiscardFacts, IdleFields DEF Expire, DiscardStale, Open
    <3>2. CASE PartFind(r) \/ PartWrite(r)
      BY <3>2, ServeFacts, IdleFields DEF PartFind, PartWrite, SameUpload
    <3>3. CASE CommitFind(r) \/ CommitCheck(r) \/ CommitTake(r)
      BY <3>3, ServeFacts, IdleFields DEF CommitFind, CommitCheck, CommitTake
    <3>4. CASE CommitRename(r) \/ CommitClose(r) \/ CommitForget(r) \/ Delete(r)
      BY <3>4, ServeFacts, IdleFields DEF CommitRename, CommitClose, CommitForget, Delete
    <3>. QED BY <1>5, <3>1, <3>2, <3>3, <3>4 DEF Serve
  <2>. HIDE DEF In
  <2>. QED BY <1>2, <2>1, <2>2, <2>3
<1>6. CASE Page
  <2>1. UNCHANGED writers
    BY <1>6 DEF Page, SendOpen, SendCommit, SendDelete, SendPart, Cancel, Lose, server
  <2>2. ASSUME NEW r \in Requests, NEW u \in Uploads, SendOpen(r, u) \/ SendCommit(r, u) \/ SendDelete(r, u)
        PROVE  WritersCount'
    <3>1. Others(r) /\ req'[r].at \in {"expire", "commit:find", "cancel"} /\ req[r] = Idle
      BY <2>2, SendFacts, DeleteFacts DEF SendOpen, SendCommit, SendDelete
    <3>2. \A v \in Uploads : In(r, v)' <=> In(r, v)
      BY <3>1, IdleFields
    <3>. HIDE DEF In
    <3>. QED BY <1>2, <2>1, <3>1, <3>2
  <2>3. ASSUME NEW r \in Requests, NEW u \in Uploads, NEW p \in Parts, SendPart(r, u, p)
        PROVE  WritersCount'
    <3>1. req[r] = Idle
      BY <2>3 DEF SendPart
    <3>3. Others(r) /\ req'[r].at = "part:find"
      BY <2>3, SendFacts
    <3>2. \A v \in Uploads : In(r, v)' <=> In(r, v)
      BY <3>1, <3>3, IdleFields
    <3>. HIDE DEF In
    <3>. QED BY <1>2, <2>1, <3>2, <3>3
  <2>4. ASSUME NEW u \in Uploads, Cancel(u) PROVE WritersCount'
    <3>1. \A q \in Requests, v \in Uploads : In(q, v)' <=> In(q, v)
      BY <2>4, CancelFacts DEF SameUpload
    <3>. HIDE DEF In
    <3>. QED BY <1>1, <2>1, <3>1
  <2>5. ASSUME NEW r \in Requests, Lose(r) PROVE WritersCount'
    <3>1. Others(r) /\ \A v \in Uploads : In(r, v)' <=> In(r, v)
      BY <2>5, UnheardFacts DEF Lose, SameUpload
    <3>. HIDE DEF In
    <3>. QED BY <1>2, <2>1, <3>1
  <2>. QED BY <1>6, <2>2, <2>3, <2>4, <2>5 DEF Page
<1>7. CASE UNCHANGED vars
  BY <1>1, <1>7 DEF vars, server
<1>8. ASSUME NEW r \in Requests, Serve(r) PROVE WritersCount'
  BY <1>8, <1>3, <1>4, <1>5
<1>. QED BY <1>6, <1>7, <1>8 DEF Next

\* A step of the server is about an upload, and changes one request.
LEMMA ServedUpload ==
    ASSUME TypeOK, RequestsOK, NEW r \in Requests, Serve(r)
    PROVE  req[r].u \in Uploads /\ Others(r) /\ (req'[r] = Idle \/ SameUpload(r))
<1>1. req[r].u \in Uploads
  BY DEF RequestsOK, Serve, Expire, DiscardStale, Open, PartFind, PartAttach, PartWrite,
     PartFinish, PartFree, CommitFind, CommitCheck, CommitTake, CommitRename, CommitClose,
     CommitForget, Delete
<1>2. Others(r) /\ (req'[r] = Idle \/ SameUpload(r))
  BY ServeFacts, DiscardFacts DEF Serve
<1>. QED BY <1>1, <1>2

\* What a step of the server leaves alone: the uploads that are neither its
\* request's nor stale.
LEMMA ServeLeaves ==
    ASSUME TypeOK, RequestsOK, NEW r \in Requests, Serve(r), NEW v \in Uploads
    PROVE  /\ req[r].u \in Uploads
           /\ client'[v] = "new" => client[v] = "new"
           /\ v # req[r].u => client'[v] = client[v]
           /\ Expire(r) \/ DiscardStale(r) => UNCHANGED client
           /\ \A q \in Requests : req'[q].u = v => req[q].u = v
           /\ v \notin req[r].stale /\ (v # req[r].u \/ Expire(r) \/ DiscardStale(r)) =>
                 /\ fd'[v] = fd[v] /\ closing'[v] = closing[v] /\ covered'[v] = covered[v]
                 /\ v \in sessions' => v \in sessions
                 /\ v \in temporary' <=> v \in temporary
           /\ \A q \in Requests : Opening(q)' => Opening(q) /\ (q = r => Expire(r) \/ DiscardStale(r))
<1>1. req[r].u \in Uploads
  BY ServedUpload
<1>2. Others(r) /\ (req'[r] = Idle \/ SameUpload(r))
  BY ServedUpload
<1>3. \A q \in Requests : req'[q].u = v => req[q].u = v
  BY <1>2, IdleFields, UploadAssumption DEF Others, SameUpload
<1>4. Expire(r) \/ DiscardStale(r) => UNCHANGED client
  BY DEF Expire, DiscardStale, page
<1>5. \/ UNCHANGED client
      \/ \E st \in {"sending", "complete", "failed"} : client' = [client EXCEPT ![req[r].u] = st]
  <2>1. CASE Expire(r) \/ DiscardStale(r)
    BY <1>4, <2>1
  <2>2. CASE Open(r) \/ CommitFind(r) \/ CommitCheck(r) \/ CommitTake(r) \/ CommitForget(r)
    BY <2>2 DEF Open, CommitFind, CommitCheck, CommitTake, CommitForget, Answer, Outcome, page
  <2>3. CASE PartFind(r) \/ PartAttach(r) \/ PartWrite(r)
    <3>1. UNCHANGED client \/ Fails(req[r].u)
      BY <2>3 DEF PartFind, PartAttach, PartWrite, PartRefused, page
    <3>2. Fails(req[r].u) => UNCHANGED client \/ client' = [client EXCEPT ![req[r].u] = "failed"]
      BY <1>1 DEF Fails, TypeOK
    <3>. QED BY <3>1, <3>2
  <2>4. CASE PartFinish(r) \/ PartFree(r) \/ CommitRename(r) \/ CommitClose(r) \/ Delete(r)
    BY <2>4 DEF PartFinish, PartFree, CommitRename, CommitClose, Delete, page
  <2>. QED BY <2>1, <2>2, <2>3, <2>4 DEF Serve
<1>6. /\ client'[v] = "new" => client[v] = "new"
      /\ v # req[r].u => client'[v] = client[v]
  BY <1>1, <1>5 DEF TypeOK
<1>7. ASSUME v \notin req[r].stale, v # req[r].u \/ Expire(r) \/ DiscardStale(r)
      PROVE  /\ fd'[v] = fd[v] /\ closing'[v] = closing[v] /\ covered'[v] = covered[v]
             /\ v \in sessions' => v \in sessions
             /\ v \in temporary' <=> v \in temporary
  <2>1. CASE Expire(r)
    BY <2>1 DEF Expire
  <2>2. CASE DiscardStale(r)
    <3>1. CASE UNCHANGED <<closing, temporary, openFile, fd>>
      BY <2>2, <3>1 DEF DiscardStale
    <3>2. CASE \E u \in Uploads : u \in req[r].stale /\ DiscardOf(u)
      BY <2>2, <3>2, <1>7 DEF DiscardStale, DiscardOf, TypeOK
    <3>. QED BY <2>2, <3>1, <3>2, DiscardFacts
  <2>3. CASE Open(r)
    BY <2>3, <1>1, <1>7 DEF Open, TypeOK, Expire, DiscardStale
  <2>4. CASE PartFind(r) \/ PartAttach(r) \/ PartWrite(r) \/ CommitFind(r) \/ CommitCheck(r)
              \/ CommitClose(r)
    BY <2>4 DEF PartFind, PartAttach, PartWrite, CommitFind, CommitCheck, CommitClose, server
  <2>5. CASE PartFinish(r) \/ PartFree(r)
    BY <2>5, <1>1, <1>7 DEF PartFinish, PartFree, Leave, TypeOK, Expire, DiscardStale
  <2>6. CASE CommitTake(r) \/ CommitRename(r) \/ CommitForget(r)
    BY <2>6, <1>1, <1>7 DEF CommitTake, CommitRename, CommitForget, TypeOK, Expire, DiscardStale
  <2>7. CASE Delete(r)
    BY <2>7, <1>1, <1>7 DEF Delete, DiscardOf, TypeOK, Expire, DiscardStale
  <2>. QED BY <2>1, <2>2, <2>3, <2>4, <2>5, <2>6, <2>7 DEF Serve
<1>8. \A q \in Requests : Opening(q)' => Opening(q) /\ (q = r => Expire(r) \/ DiscardStale(r))
  <2>1. Opening(r)' => Expire(r) \/ DiscardStale(r)
    BY ServeFacts, IdleFields DEF Serve, Opening
  <2>. QED BY <1>2, <2>1 DEF Others, Opening, Expire, DiscardStale
<1>. QED BY <1>1, <1>3, <1>4, <1>6, <1>7, <1>8

\* Every step leaves an upload alone whose session is not open yet.
LEMMA OpenStep ==
    ASSUME TypeOK, RequestsOK, OpenOnce, OneHolder, [Next]_vars
    PROVE  OpenOnce'
<1>1. \A q \in Requests, v \in Uploads : Holds(q, v)' => Holds(q, v) \/ v \in sessions
  BY HolderStep
<1>2. ASSUME NEW r \in Requests, Serve(r), NEW v \in Uploads
      PROVE  /\ client'[v] = "new" => Unopened(v)' /\ \A q \in Requests : req'[q].u # v
             /\ \A q \in Requests : Opening(q)' /\ req'[q].u = v =>
                   /\ Unopened(v)' /\ client'[v] \in {"opening", "failed"}
                   /\ \A s \in Requests : req'[s].u = v => s = q
  <2>. USE <1>2
  <2>1. ASSUME Unopened(v), v # req[r].u \/ Expire(r) \/ DiscardStale(r)
        PROVE  Unopened(v)'
    <3>1. v \notin req[r].stale
      BY <2>1 DEF Unopened, Held, Holds
    <3>2. ~Held(v)'
      BY <2>1, <1>1 DEF Unopened, Held
    <3>. QED BY <2>1, <3>1, <3>2, ServeLeaves DEF Unopened
  <2>2. ASSUME client'[v] = "new" PROVE Unopened(v)' /\ \A q \in Requests : req'[q].u # v
    <3>1. client[v] = "new"
      BY <2>2, ServeLeaves
    <3>2. Unopened(v) /\ \A q \in Requests : req[q].u # v
      BY <3>1 DEF OpenOnce
    <3>. QED BY <3>2, <2>1, ServeLeaves
  <2>3. ASSUME NEW q \in Requests, Opening(q)', req'[q].u = v
        PROVE  /\ Unopened(v)' /\ client'[v] \in {"opening", "failed"}
               /\ \A s \in Requests : req'[s].u = v => s = q
    <3>1. Opening(q) /\ req[q].u = v /\ (q = r => Expire(r) \/ DiscardStale(r))
      BY <2>3, ServeLeaves
    <3>2. /\ Unopened(v) /\ client[v] \in {"opening", "failed"}
          /\ \A s \in Requests : req[s].u = v => s = q
      BY <3>1 DEF OpenOnce
    <3>3. v # req[r].u \/ Expire(r) \/ DiscardStale(r)
      BY <3>1, <3>2
    <3>4. client'[v] = client[v]
      BY <3>3, ServeLeaves
    <3>. QED BY <2>1, <3>2, <3>3, <3>4, ServeLeaves
  <2>. QED BY <2>2, <2>3
<1>3. CASE Page
  <2>1. UNCHANGED server
    BY <1>3 DEF Page, SendOpen, SendCommit, SendDelete, SendPart, Cancel, Lose
  <2>2. \A v \in Uploads : Unopened(v) => Unopened(v)'
    BY <2>1, <1>1 DEF Unopened, server, Held
  <2>3. ASSUME NEW r \in Requests, NEW u \in Uploads, SendOpen(r, u) PROVE OpenOnce'
    <3>1. /\ Others(r) /\ req'[r].at = "expire" /\ req'[r].u = u
          /\ client' = [client EXCEPT ![u] = "opening"] /\ client[u] = "new"
      BY <2>3, SendFacts DEF SendOpen
    <3>2. client \in [Uploads -> {"new", "opening", "sending", "committing", "complete", "failed"}]
      BY DEF TypeOK
    <3>3. Unopened(u) /\ \A q \in Requests : req[q].u # u
      BY <3>1 DEF OpenOnce
    <3>. QED BY <2>2, <3>1, <3>2, <3>3 DEF OpenOnce, Others, Opening
  <2>4. ASSUME NEW r \in Requests, NEW u \in Uploads,
               Others(r), req'[r].u = u, ~Opening(r)', client[u] # "new",
               u \in sessions \/ client[u] \notin {"opening", "failed"},
               UNCHANGED client \/ client' = [client EXCEPT ![u] = "committing"]
        PROVE  OpenOnce'
    <3>1. client \in [Uploads -> {"new", "opening", "sending", "committing", "complete", "failed"}]
      BY DEF TypeOK
    <3>2. \A q \in Requests : Opening(q) => req[q].u # u
      BY <2>4 DEF OpenOnce, Unopened
    <3>. QED BY <2>2, <2>4, <3>1, <3>2 DEF OpenOnce, Others, Opening
  <2>5. ASSUME NEW r \in Requests, NEW u \in Uploads, SendCommit(r, u) PROVE OpenOnce'
    BY <2>5, <2>4, SendFacts DEF SendCommit, Opening
  <2>6. ASSUME NEW r \in Requests, NEW u \in Uploads, SendDelete(r, u) PROVE OpenOnce'
    BY <2>6, <2>4, DeleteFacts DEF SendDelete, Opening, page
  <2>7. ASSUME NEW r \in Requests, NEW u \in Uploads, NEW p \in Parts, SendPart(r, u, p) PROVE OpenOnce'
    <3>1. client[u] = "sending" /\ UNCHANGED client
      BY <2>7 DEF SendPart
    <3>2. Others(r) /\ req'[r].u = u /\ req'[r].at = "part:find"
      BY <2>7, SendFacts
    <3>. QED BY <2>4, <3>1, <3>2 DEF Opening
  <2>8. ASSUME NEW u \in Uploads, \A q \in Requests : req'[q].u = req[q].u /\ req'[q].at = req[q].at,
               client[u] # "new",
               UNCHANGED client \/ client' = [client EXCEPT ![u] = "failed"]
        PROVE  OpenOnce'
    <3>1. client \in [Uploads -> {"new", "opening", "sending", "committing", "complete", "failed"}]
      BY DEF TypeOK
    <3>. QED BY <2>2, <2>8, <3>1 DEF OpenOnce, Opening
  <2>9. ASSUME NEW u \in Uploads, Cancel(u) PROVE OpenOnce'
    BY <2>8, <2>9, CancelFacts DEF Cancel, Fails, SameUpload
  <2>10. ASSUME NEW r \in Requests, Lose(r) PROVE OpenOnce'
    <3>1. \A q \in Requests : req'[q].u = req[q].u /\ req'[q].at = req[q].at
      BY <2>10, UnheardFacts DEF Lose, Others, SameUpload
    <3>2. req[r].u \in Uploads /\ client[req[r].u] # "new"
      BY <2>10, IdleFields DEF Lose, RequestsOK, OpenOnce
    <3>3. UNCHANGED client \/ client' = [client EXCEPT ![req[r].u] = "failed"]
      <4>1. Fails(req[r].u) => UNCHANGED client \/ client' = [client EXCEPT ![req[r].u] = "failed"]
        BY <3>2 DEF Fails, TypeOK
      <4>. QED BY <2>10, <4>1 DEF Lose, PartRefused, Answer
    <3>. QED BY <2>8, <3>1, <3>2, <3>3
  <2>. QED BY <1>3, <2>3, <2>5, <2>6, <2>7, <2>9, <2>10 DEF Page
<1>4. CASE UNCHANGED vars
  BY <1>4 DEF vars, server, page, OpenOnce, Opening, Unopened, Held, Holds, Committing
<1>5. ASSUME NEW r \in Requests, Serve(r) PROVE OpenOnce'
  BY <1>2, <1>5 DEF OpenOnce
<1>. QED BY <1>3, <1>4, <1>5 DEF Next

\* Closing an upload's own descriptor.
LEMMA CloseOwn ==
    ASSUME TypeOK, Descriptors, NEW u \in Uploads, fd[u] # None, ~Forgetting(u),
           openFile' = [openFile EXCEPT ![fd[u]] = None], fd' = [fd EXCEPT ![u] = None],
           \A v \in Uploads : Forgetting(v)' <=> Forgetting(v)
    PROVE  Descriptors'
<1>1. openFile[fd[u]] = u /\ fd[u] \in Fds
  BY DEF Descriptors, Forgetting, TypeOK
<1>2. ASSUME NEW v \in Uploads
      PROVE  /\ fd'[v] # None => openFile'[fd'[v]] = v \/ Forgetting(v)'
             /\ \A n \in Fds : openFile'[n] = v => fd'[v] = n
             /\ Forgetting(v)' => \A n \in Fds : openFile'[n] # v
  <2>. HIDE DEF Forgetting
  <2>0. /\ fd[v] # None => openFile[fd[v]] = v \/ Forgetting(v)
        /\ \A n \in Fds : openFile[n] = v => fd[v] = n
        /\ Forgetting(v) => \A n \in Fds : openFile[n] # v
    BY DEF Descriptors, Forgetting
  <2>1. CASE v = u
    <3>1. fd'[v] = None
      BY <2>1 DEF TypeOK
    <3>2. \A n \in Fds : openFile'[n] # v
      BY <1>1, <2>0, <2>1, UploadAssumption DEF TypeOK
    <3>. QED BY <3>1, <3>2
  <2>2. CASE v # u
    <3>1. fd'[v] = fd[v] /\ \A n \in Fds : openFile'[n] = v <=> openFile[n] = v
      BY <1>1, <2>2, UploadAssumption DEF TypeOK
    <3>2. fd[v] # None => fd[v] \in Fds
      BY DEF TypeOK
    <3>. QED BY <2>0, <3>1, <3>2
  <2>. QED BY <2>1, <2>2
<1>. QED BY <1>2 DEF Descriptors, Forgetting

\* Every step keeps the descriptors: none is closed but its own session's, and none
\* is opened that is not free.
LEMMA DescriptorsStep ==
    ASSUME TypeOK, RequestsOK, OpenOnce, OneHolder, Descriptors, Endings, [Next]_vars
    PROVE  Descriptors'
<1>1. ASSUME UNCHANGED <<fd, openFile>>, \A v \in Uploads : Forgetting(v)' <=> Forgetting(v)
      PROVE  Descriptors'
  BY <1>1 DEF Descriptors, Forgetting
<1>2. ASSUME NEW r \in Requests, Others(r), req[r].at # "commit:forget", req'[r].at # "commit:forget"
      PROVE  \A v \in Uploads : Forgetting(v)' <=> Forgetting(v)
  BY <1>2 DEF Others, Forgetting
<1>3. ASSUME NEW r \in Requests, NEW u \in Uploads, DiscardOf(u),
             u \in sessions \/ u \in req[r].stale,
             \A v \in Uploads : Forgetting(v)' <=> Forgetting(v)
      PROVE  Descriptors'
  <2>1. CASE CloseNow(u)
    <3>1. ~Forgetting(u)
      <4>1. SUFFICES ASSUME NEW q \in Requests, req[q].u = u, req[q].at = "commit:forget"
                     PROVE FALSE
        BY DEF Forgetting
      <4>2. Holds(q, u) /\ req[q].stale = {}
        BY <4>1 DEF Holds, Committing, RequestsOK
      <4>3. u \in req[r].stale => Holds(r, u)
        BY DEF Holds
      <4>. QED BY <1>3, <4>2, <4>3 DEF OneHolder, Held
    <3>. QED BY <1>3, <2>1, <3>1, CloseOwn DEF DiscardOf, CloseNow
  <2>2. CASE ~CloseNow(u)
    BY <1>1, <1>3, <2>2 DEF DiscardOf
  <2>. QED BY <2>1, <2>2
<1>4. ASSUME NEW r \in Requests, Serve(r) PROVE Descriptors'
  <2>0. Others(r) /\ req[r].u \in Uploads
    BY <1>4, ServedUpload
  <2>1. CASE Expire(r)
    <3>1. req[r].at # "commit:forget" /\ req'[r].at # "commit:forget" /\ UNCHANGED <<fd, openFile>>
      BY <2>1, ServeFacts DEF Expire
    <3>. QED BY <1>1, <1>2, <2>0, <3>1
  <2>2. CASE DiscardStale(r)
    <3>1. req[r].at # "commit:forget" /\ req'[r].at # "commit:forget"
      BY <2>2, DiscardFacts DEF DiscardStale
    <3>2. \A v \in Uploads : Forgetting(v)' <=> Forgetting(v)
      BY <1>2, <2>0, <3>1
    <3>3. CASE UNCHANGED <<closing, temporary, openFile, fd>>
      BY <1>1, <3>2, <3>3
    <3>4. ASSUME NEW u \in Uploads, u \in req[r].stale, DiscardOf(u) PROVE Descriptors'
      BY <1>3, <3>2, <3>4
    <3>. QED BY <2>2, <3>3, <3>4, DiscardFacts
  <2>3. CASE Open(r)
    <3>1. req[r].at # "commit:forget" /\ req'[r].at # "commit:forget"
      BY <2>3, ServeFacts, IdleFields DEF Open
    <3>2. \A v \in Uploads : Forgetting(v)' <=> Forgetting(v)
      BY <1>2, <2>0, <3>1
    <3>3. CASE UNCHANGED <<sessions, temporary, fd, openFile>>
      BY <1>1, <3>2, <3>3
    <3>4. ASSUME NEW u \in Uploads, u = req[r].u, fd' = [fd EXCEPT ![u] = LowestFree],
                 openFile' = [openFile EXCEPT ![LowestFree] = u]
          PROVE  Descriptors'
      <4>1. fd[u] = None /\ \A q \in Requests : req[q].u = u => q = r
        BY <2>3, <3>4 DEF OpenOnce, Opening, Unopened, Open
      <4>2. LowestFree \in Fds /\ openFile[LowestFree] = None
        BY <4>1, FreeDescriptor
      <4>3. ~Forgetting(u)
        BY <3>1, <4>1 DEF Forgetting
      <4>4. PICK n \in Fds : n = LowestFree
        BY <4>2
      <4>5. ASSUME NEW v \in Uploads
            PROVE  /\ fd'[v] # None => openFile'[fd'[v]] = v \/ Forgetting(v)'
                   /\ \A k \in Fds : openFile'[k] = v => fd'[v] = k
                   /\ Forgetting(v)' => \A k \in Fds : openFile'[k] # v
        <5>. HIDE DEF Forgetting
        <5>0. /\ fd[v] # None => openFile[fd[v]] = v \/ Forgetting(v)
              /\ \A k \in Fds : openFile[k] = v => fd[v] = k
              /\ Forgetting(v) => \A k \in Fds : openFile[k] # v
          BY DEF Descriptors, Forgetting
        <5>1. CASE v = u
          BY <3>2, <3>4, <4>1, <4>2, <4>3, <4>4, <5>0, <5>1, UploadAssumption DEF TypeOK
        <5>2. CASE v # u
          <6>1. fd'[v] = fd[v]
            BY <3>4, <5>2 DEF TypeOK
          <6>2. \A k \in Fds : openFile'[k] = v <=> openFile[k] = v
            BY <3>4, <4>2, <4>4, <5>2, UploadAssumption DEF TypeOK
          <6>3. fd[v] # None => fd[v] \in Fds
            BY DEF TypeOK
          <6>. QED BY <3>2, <5>0, <6>1, <6>2, <6>3
        <5>. QED BY <5>1, <5>2
      <4>. QED BY <4>5 DEF Descriptors, Forgetting
    <3>. QED BY <2>0, <2>3, <3>3, <3>4 DEF Open
  <2>4. CASE PartFind(r) \/ PartAttach(r) \/ PartWrite(r)
    <3>1. /\ req[r].at # "commit:forget" /\ req'[r].at # "commit:forget"
          /\ UNCHANGED <<fd, openFile>>
      BY <2>4, ServeFacts, IdleFields DEF PartFind, PartAttach, PartWrite, server
    <3>. QED BY <1>1, <1>2, <2>0, <3>1
  <2>5. CASE PartFinish(r) \/ PartFree(r)
    <3>1. req[r].at # "commit:forget" /\ req'[r].at # "commit:forget" /\ Leave(req[r].u)
      BY <2>5, ServeFacts, IdleFields DEF PartFinish, PartFree
    <3>2. \A v \in Uploads : Forgetting(v)' <=> Forgetting(v)
      BY <1>2, <2>0, <3>1
    <3>3. CASE UNCHANGED <<openFile, fd>>
      BY <1>1, <3>2, <3>3
    <3>4. CASE closing[req[r].u] /\ fd[req[r].u] # None
               /\ openFile' = [openFile EXCEPT ![fd[req[r].u]] = None]
               /\ fd' = [fd EXCEPT ![req[r].u] = None]
      <4>1. ~Forgetting(req[r].u)
        BY <2>0, <3>4 DEF Endings, Committing, Forgetting
      <4>. QED BY <2>0, <3>2, <3>4, <4>1, CloseOwn
    <3>. QED BY <3>1, <3>3, <3>4 DEF Leave
  <2>6. CASE CommitFind(r) \/ CommitCheck(r) \/ CommitTake(r) \/ CommitRename(r)
    <3>1. req[r].at # "commit:forget" /\ req'[r].at # "commit:forget"
      BY <2>6, ServeFacts, IdleFields DEF CommitFind, CommitCheck, CommitTake, CommitRename
    <3>2. UNCHANGED <<fd, openFile>>
      BY <2>6 DEF CommitFind, CommitCheck, CommitTake, CommitRename, server
    <3>. QED BY <1>1, <1>2, <2>0, <3>1, <3>2
  <2>7. CASE CommitClose(r)
    <3>. DEFINE u == req[r].u
    <3>1. /\ req[r].at = "commit:close" /\ req'[r].at = "commit:forget" /\ req'[r].u = u
          /\ fd' = fd /\ openFile' = [openFile EXCEPT ![fd[u]] = None]
      BY <2>7, ServeFacts DEF CommitClose, SameUpload
    <3>2. \A v \in Uploads : Forgetting(v)' <=> Forgetting(v) \/ v = u
      BY <2>0, <3>1 DEF Others, Forgetting
    <3>3. ~Forgetting(u)
      <4>1. Holds(r, u)
        BY <3>1 DEF Holds, Committing
      <4>. QED BY <2>0, <3>1, <4>1 DEF OneHolder, Holds, Committing, Forgetting
    <3>4. fd[u] # None => openFile[fd[u]] = u /\ fd[u] \in Fds
      BY <2>0, <3>3 DEF Descriptors, Forgetting, TypeOK
    <3>5. ASSUME NEW v \in Uploads
          PROVE  /\ fd[v] # None => openFile'[fd[v]] = v \/ Forgetting(v)'
                 /\ \A n \in Fds : openFile'[n] = v => fd[v] = n
                 /\ Forgetting(v)' => \A n \in Fds : openFile'[n] # v
      <4>. HIDE DEF Forgetting
      <4>0. /\ fd[v] # None => openFile[fd[v]] = v \/ Forgetting(v)
            /\ \A n \in Fds : openFile[n] = v => fd[v] = n
            /\ Forgetting(v) => \A n \in Fds : openFile[n] # v
        BY DEF Descriptors, Forgetting
      <4>1. CASE v = u
        <5>1. \A n \in Fds : openFile'[n] # v
          BY <3>1, <3>4, <4>0, <4>1, UploadAssumption DEF TypeOK
        <5>. QED BY <3>2, <4>1, <5>1
      <4>2. CASE v # u
        <5>1. \A n \in Fds : openFile'[n] = v <=> openFile[n] = v
          BY <3>1, <3>4, <4>2, UploadAssumption DEF TypeOK
        <5>2. fd[v] # None => fd[v] \in Fds
          BY DEF TypeOK
        <5>. QED BY <3>2, <4>0, <4>2, <5>1, <5>2
      <4>. QED BY <4>1, <4>2
    <3>. QED BY <3>1, <3>5 DEF Descriptors, Forgetting
  <2>8. CASE CommitForget(r)
    <3>1. PICK u \in Uploads : u = req[r].u
      BY <2>0
    <3>2. /\ req[r].at = "commit:forget" /\ fd' = [fd EXCEPT ![u] = None] /\ openFile' = openFile
      BY <2>8, <3>1 DEF CommitForget
    <3>3. req'[r] = Idle
      BY <2>8, ServeFacts
    <3>4. Forgetting(u) /\ \A v \in Uploads : v # u => (Forgetting(v)' <=> Forgetting(v))
      BY <2>0, <3>1, <3>2, <3>3, IdleFields DEF Others, Forgetting
    <3>5. Forgetting(u)' => Forgetting(u)
      BY <3>4
    <3>6. ASSUME NEW v \in Uploads
          PROVE  /\ fd'[v] # None => openFile[fd'[v]] = v \/ Forgetting(v)'
                 /\ \A n \in Fds : openFile[n] = v => fd'[v] = n
                 /\ Forgetting(v)' => \A n \in Fds : openFile[n] # v
      <4>. HIDE DEF Forgetting
      <4>0. /\ fd[v] # None => openFile[fd[v]] = v \/ Forgetting(v)
            /\ \A n \in Fds : openFile[n] = v => fd[v] = n
            /\ Forgetting(v) => \A n \in Fds : openFile[n] # v
        BY DEF Descriptors, Forgetting
      <4>1. CASE v = u
        BY <3>2, <3>4, <4>0, <4>1 DEF TypeOK
      <4>2. CASE v # u
        BY <3>2, <3>4, <4>0, <4>2 DEF TypeOK
      <4>. QED BY <4>1, <4>2
    <3>. QED BY <3>2, <3>6 DEF Descriptors, Forgetting
  <2>9. CASE Delete(r)
    <3>1. req[r].at # "commit:forget" /\ req'[r].at # "commit:forget"
      BY <2>9, ServeFacts, IdleFields DEF Delete
    <3>2. \A v \in Uploads : Forgetting(v)' <=> Forgetting(v)
      BY <1>2, <2>0, <3>1
    <3>. QED BY <1>1, <1>3, <2>0, <2>9, <3>2 DEF Delete
  <2>. QED BY <1>4, <2>1, <2>2, <2>3, <2>4, <2>5, <2>6, <2>7, <2>8, <2>9 DEF Serve
<1>5. CASE Page
  <2>1. UNCHANGED <<fd, openFile>>
    BY <1>5 DEF Page, SendOpen, SendCommit, SendDelete, SendPart, Cancel, Lose, server
  <2>2. ASSUME NEW r \in Requests, NEW u \in Uploads, SendOpen(r, u) \/ SendCommit(r, u) \/ SendDelete(r, u)
        PROVE  Descriptors'
    <3>1. req[r] = Idle
      BY <2>2 DEF SendOpen, SendCommit, SendDelete
    <3>2. Others(r) /\ req'[r].at \in {"expire", "commit:find", "cancel"}
      BY <2>2, SendFacts, DeleteFacts
    <3>. QED BY <1>1, <1>2, <2>1, <3>1, <3>2, IdleFields
  <2>3. ASSUME NEW r \in Requests, NEW u \in Uploads, NEW p \in Parts, SendPart(r, u, p)
        PROVE  Descriptors'
    <3>1. req[r] = Idle
      BY <2>3 DEF SendPart
    <3>2. Others(r) /\ req'[r].at = "part:find"
      BY <2>3, SendFacts
    <3>. QED BY <1>1, <1>2, <2>1, <3>1, <3>2, IdleFields
  <2>4. ASSUME NEW u \in Uploads, Cancel(u) PROVE Descriptors'
    <3>1. \A v \in Uploads : Forgetting(v)' <=> Forgetting(v)
      BY <2>4, CancelFacts DEF SameUpload, Forgetting
    <3>. QED BY <1>1, <2>1, <3>1
  <2>5. ASSUME NEW r \in Requests, Lose(r) PROVE Descriptors'
    <3>1. \A v \in Uploads : Forgetting(v)' <=> Forgetting(v)
      BY <2>5, UnheardFacts DEF Lose, Others, SameUpload, Forgetting
    <3>. QED BY <1>1, <2>1, <3>1
  <2>. QED BY <1>5, <2>2, <2>3, <2>4, <2>5 DEF Page
<1>6. CASE UNCHANGED vars
  BY <1>1, <1>6 DEF vars, server, Forgetting
<1>. QED BY <1>4, <1>5, <1>6 DEF Next

\* Every step keeps the endings: what leaves the map is held, and what is let go of
\* has no file and no descriptor left, or a last writer that will close it.
LEMMA EndingsStep ==
    ASSUME TypeOK, RequestsOK, OpenOnce, OneHolder, WritersCount, Descriptors, Endings, [Next]_vars
    PROVE  Endings'
<1>. DEFINE Ending(v) ==
       /\ v \in sessions => fd[v] # None /\ ~closing[v] /\ v \in temporary
       /\ \A r \in Requests : Committing(r, v) =>
              ~closing[v] /\ (req[r].at = "commit:rename" => v \in temporary)
       /\ v \in temporary => v \in sessions \/ Held(v)
       /\ fd[v] # None => v \in sessions \/ Held(v) \/ (closing[v] /\ writers[v] > 0)
<1>0. (\A v \in Uploads : Ending(v)) /\ ((\A v \in Uploads : Ending(v)') => Endings')
  BY DEF Endings
<1>1. ASSUME UNCHANGED <<sessions, fd, closing, temporary>>,
             \A v \in Uploads : writers'[v] = writers[v] \/ writers'[v] = writers[v] + 1,
             \A q \in Requests, v \in Uploads : Holds(q, v)' <=> Holds(q, v),
             \A q \in Requests, v \in Uploads : Committing(q, v)' =>
                 Committing(q, v) /\ (req'[q].at = "commit:rename" => req[q].at = "commit:rename")
      PROVE  Endings'
  <2>1. ASSUME NEW v \in Uploads PROVE Ending(v)'
    <3>1. writers'[v] \in Nat /\ (writers[v] > 0 => writers'[v] > 0)
      BY <1>1 DEF TypeOK
    <3>2. Held(v)' <=> Held(v)
      BY <1>1 DEF Held
    <3>3. Ending(v)
      BY <1>0
    <3>. HIDE DEF Held, Holds, Committing
    <3>. QED BY <1>1, <3>1, <3>2, <3>3
  <2>. HIDE DEF Ending
  <2>. QED BY <1>0, <2>1
<1>2. ASSUME NEW r \in Requests, Others(r), req[r].stale = {}, req'[r].stale = {},
             {req[r].at, req'[r].at} \cap {"commit:rename", "commit:close", "commit:forget"} = {}
      PROVE  /\ \A q \in Requests, v \in Uploads : Holds(q, v)' <=> Holds(q, v)
             /\ \A q \in Requests, v \in Uploads : Committing(q, v)' =>
                   Committing(q, v) /\ (req'[q].at = "commit:rename" => req[q].at = "commit:rename")
  BY <1>2 DEF Others, Holds, Committing
<1>3. ASSUME NEW r \in Requests, NEW u \in Uploads, DiscardOf(u), Others(r), UNCHANGED writers,
             u \in sessions \/ u \in req[r].stale, sessions' = sessions \ {u},
             req[r].stale \ {u} \subseteq req'[r].stale,
             {req[r].at, req'[r].at} \cap {"commit:rename", "commit:close", "commit:forget"} = {}
      PROVE  Endings'
  <2>1. ASSUME NEW q \in Requests PROVE ~Committing(q, u) /\ ~Committing(q, u)'
    <3>1. ~Committing(q, u)
      BY <1>3 DEF OneHolder, Held, Holds, Committing
    <3>. QED BY <1>3, <3>1 DEF Others, Committing
  <2>2. \A q \in Requests, v \in Uploads : v # u =>
          /\ Holds(q, v) => Holds(q, v)'
          /\ Committing(q, v)' => Committing(q, v) /\ req'[q].at = req[q].at
    BY <1>3 DEF Others, Holds, Committing
  <2>3. /\ closing' = [closing EXCEPT ![u] = TRUE] /\ temporary' = temporary \ {u}
        /\ fd' = IF CloseNow(u) THEN [fd EXCEPT ![u] = None] ELSE fd
    BY <1>3 DEF DiscardOf
  <2>4. ASSUME NEW v \in Uploads PROVE Ending(v)'
    <3>1. Ending(v)
      BY <1>0
    <3>2. CASE v = u
      <4>1. fd'[u] # None => closing'[u] /\ writers'[u] > 0
        BY <2>3, <1>3 DEF CloseNow, TypeOK
      <4>. QED BY <1>3, <2>1, <2>3, <3>2, <4>1
    <3>3. CASE v # u
      <4>1. fd'[v] = fd[v] /\ closing'[v] = closing[v] /\ (v \in temporary' <=> v \in temporary)
            /\ (v \in sessions' <=> v \in sessions) /\ writers'[v] = writers[v]
        BY <1>3, <2>3, <3>3 DEF TypeOK
      <4>2. Held(v) => Held(v)'
        BY <2>2, <3>3 DEF Held
      <4>. HIDE DEF Held
      <4>. QED BY <2>2, <3>1, <3>3, <4>1, <4>2
    <3>. QED BY <3>2, <3>3
  <2>. HIDE DEF Ending
  <2>. QED BY <1>0, <2>4
<1>4. ASSUME NEW r \in Requests, Serve(r) PROVE Endings'
  <2>0. Others(r) /\ req[r].u \in Uploads
    BY <1>4, ServedUpload
  <2>1. CASE Expire(r)
    <3>1. /\ req[r].at = "expire" /\ req'[r].at = "discard" /\ req[r].stale = {}
          /\ UNCHANGED <<fd, closing, temporary, writers>>
          /\ sessions' = sessions \ req'[r].stale
      BY <2>1, ServeFacts DEF Expire, RequestsOK
    <3>2. \A q \in Requests, v \in Uploads : Committing(q, v)' => Committing(q, v) /\ req'[q].at = req[q].at
      BY <2>0, <3>1 DEF Others, Committing
    <3>3. \A v \in Uploads : Held(v) => Held(v)'
      BY <2>0, <3>1 DEF Others, Held, Holds, Committing
    <3>4. \A v \in Uploads : v \in sessions => v \in sessions' \/ Held(v)'
      BY <3>1 DEF Held, Holds
    <3>5. ASSUME NEW v \in Uploads PROVE Ending(v)'
      <4>. HIDE DEF Held, Committing
      <4>. QED BY <1>0, <3>1, <3>2, <3>3, <3>4
    <3>. HIDE DEF Ending
    <3>. QED BY <1>0, <3>5
  <2>2. CASE DiscardStale(r)
    <3>1. req[r].at = "discard" /\ req'[r].at \in {"discard", "open"} /\ UNCHANGED <<sessions, writers>>
      BY <2>2, DiscardFacts DEF DiscardStale
    <3>2. CASE req[r].stale = {} /\ req'[r].stale = {} /\ UNCHANGED <<closing, temporary, openFile, fd>>
      <4>. HIDE DEF Ending
      <4>. QED BY <1>1, <1>2, <2>0, <3>1, <3>2
    <3>3. ASSUME NEW u \in Uploads, u \in req[r].stale, DiscardOf(u), req'[r].stale = req[r].stale \ {u}
          PROVE  Endings'
      <4>1. u \notin sessions
        BY <3>3 DEF OneHolder, Held, Holds
      <4>. HIDE DEF Ending
      <4>. QED BY <1>3, <2>0, <3>1, <3>3, <4>1
    <3>. QED BY <2>2, <3>2, <3>3, DiscardFacts
  <2>3. CASE Open(r)
    <3>1. req[r].at = "open" /\ req'[r] = Idle /\ req[r].stale = {} /\ UNCHANGED <<closing, writers>>
      BY <2>3, ServeFacts DEF Open, RequestsOK
    <3>2. /\ \A q \in Requests, v \in Uploads : Holds(q, v)' <=> Holds(q, v)
          /\ \A q \in Requests, v \in Uploads : Committing(q, v)' =>
                Committing(q, v) /\ (req'[q].at = "commit:rename" => req[q].at = "commit:rename")
      BY <1>2, <2>0, <3>1, IdleFields
    <3>3. CASE UNCHANGED <<sessions, temporary, fd, openFile>>
      <4>. HIDE DEF Ending
      <4>. QED BY <1>1, <3>1, <3>2, <3>3
    <3>4. ASSUME NEW u \in Uploads, u = req[r].u, fd' = [fd EXCEPT ![u] = LowestFree],
                 sessions' = sessions \cup {u}, temporary' = temporary \cup {u}
          PROVE  Endings'
      <4>1. Unopened(u)
        BY <2>3, <3>4 DEF OpenOnce, Opening, Open
      <4>2. LowestFree \in Fds
        BY <4>1, FreeDescriptor DEF Unopened
      <4>3. \A v \in Uploads : Held(v)' <=> Held(v)
        BY <3>2 DEF Held
      <4>4. ASSUME NEW v \in Uploads PROVE Ending(v)'
        <5>1. CASE v = u
          <6>1. fd'[u] # None /\ ~closing'[u] /\ u \in temporary' /\ u \in sessions'
            BY <3>1, <3>4, <4>1, <4>2, UploadAssumption DEF TypeOK, Unopened
          <6>. QED BY <5>1, <6>1
        <5>2. CASE v # u
          <6>1. fd'[v] = fd[v] /\ (v \in sessions' <=> v \in sessions) /\ (v \in temporary' <=> v \in temporary)
            BY <3>4, <5>2 DEF TypeOK
          <6>. HIDE DEF Held, Committing
          <6>. QED BY <1>0, <3>1, <3>2, <4>3, <6>1
        <5>. QED BY <5>1, <5>2
      <4>. HIDE DEF Ending
      <4>. QED BY <1>0, <4>4
    <3>. QED BY <2>0, <2>3, <3>3, <3>4 DEF Open
  <2>4. CASE PartFind(r) \/ PartAttach(r) \/ PartWrite(r) \/ CommitFind(r) \/ CommitCheck(r)
    <3>1. /\ req[r].stale = {} /\ req'[r].stale = {}
          /\ {req[r].at, req'[r].at} \cap {"commit:rename", "commit:close", "commit:forget"} = {}
      BY <2>4, ServeFacts, IdleFields DEF RequestsOK, PartFind, PartAttach, PartWrite, CommitFind, CommitCheck
    <3>2. UNCHANGED <<sessions, fd, closing, temporary>>
      BY <2>4 DEF PartFind, PartAttach, PartWrite, CommitFind, CommitCheck, server
    <3>3. UNCHANGED writers \/ writers' = [writers EXCEPT ![req[r].u] = @ + 1]
      BY <2>4 DEF PartFind, PartAttach, PartWrite, CommitFind, CommitCheck, server
    <3>4. \A v \in Uploads : writers'[v] = writers[v] \/ writers'[v] = writers[v] + 1
      BY <3>3, <2>0 DEF TypeOK
    <3>. HIDE DEF Ending
    <3>. QED BY <1>1, <1>2, <2>0, <3>1, <3>2, <3>4
  <2>5. CASE PartFinish(r) \/ PartFree(r)
    <3>1. /\ req[r].stale = {} /\ req'[r] = Idle /\ req[r].at \in {"part:finish", "part:free"}
          /\ UNCHANGED <<sessions, closing, temporary>> /\ Leave(req[r].u)
      BY <2>5, ServeFacts DEF RequestsOK, PartFinish, PartFree
    <3>2. /\ \A q \in Requests, v \in Uploads : Holds(q, v)' <=> Holds(q, v)
          /\ \A q \in Requests, v \in Uploads : Committing(q, v)' =>
                Committing(q, v) /\ (req'[q].at = "commit:rename" => req[q].at = "commit:rename")
      BY <1>2, <2>0, <3>1, IdleFields
    <3>3. \A v \in Uploads : Held(v)' <=> Held(v)
      BY <3>2 DEF Held
    <3>4. PICK u \in Uploads : u = req[r].u
      BY <2>0
    <3>5. /\ writers' = [writers EXCEPT ![u] = @ - 1]
          /\ fd' = IF writers[u] = 1 /\ closing[u] /\ fd[u] # None THEN [fd EXCEPT ![u] = None] ELSE fd
      BY <3>1, <3>4 DEF Leave
    <3>6. ASSUME NEW v \in Uploads PROVE Ending(v)'
      <4>0. Ending(v)
        BY <1>0
      <4>1. CASE v = u
        <5>1. writers[u] \in Nat /\ writers'[u] = writers[u] - 1
          BY <3>5 DEF TypeOK
        <5>2. \/ fd'[u] = fd[u] /\ ~(writers[u] = 1 /\ closing[u] /\ fd[u] # None)
              \/ fd'[u] = None /\ closing[u]
          BY <3>5 DEF TypeOK
        <5>. HIDE DEF Held, Committing
        <5>. QED BY <3>1, <3>2, <3>3, <4>0, <4>1, <5>1, <5>2
      <4>2. CASE v # u
        <5>1. fd'[v] = fd[v] /\ writers'[v] = writers[v]
          BY <3>5, <4>2 DEF TypeOK
        <5>. HIDE DEF Held, Committing
        <5>. QED BY <3>1, <3>2, <3>3, <4>0, <5>1
      <4>. QED BY <4>1, <4>2
    <3>. HIDE DEF Ending
    <3>. QED BY <1>0, <3>6
  <2>6. CASE CommitTake(r)
    <3>0. PICK u \in Uploads : u = req[r].u
      BY <2>0
    <3>1. /\ req[r].at = "commit:take" /\ req[r].stale = {} /\ sessions' = sessions \ {u}
          /\ UNCHANGED <<fd, closing, temporary, writers>>
      BY <2>6, <3>0 DEF CommitTake, RequestsOK
    <3>2. CASE req'[r] = Idle
      <4>1. u \notin sessions
        <5>1. u \in sessions => Goes(r, "commit:rename")
          BY <2>6, <3>0 DEF CommitTake
        <5>2. "commit:rename" \in Steps
          BY DEF Steps, CommitSteps
        <5>. QED BY <3>2, <5>1, <5>2, GoesFacts, IdleFields
      <4>2. UNCHANGED sessions
        BY <3>1, <4>1
      <4>. HIDE DEF Ending
      <4>. QED BY <1>1, <1>2, <2>0, <3>1, <3>2, <4>2, IdleFields
    <3>3. CASE req'[r] # Idle
      <4>1. /\ req'[r].u = u /\ req'[r].at = "commit:rename" /\ req'[r].stale = {} /\ u \in sessions
        BY <2>6, <3>0, <3>1, <3>3, ServeFacts DEF SameUpload
      <4>2. Held(u)'
        BY <4>1 DEF Held, Holds, Committing
      <4>3. \A v \in Uploads : Held(v) => Held(v)'
        BY <2>0, <3>1, <4>1 DEF Others, Held, Holds, Committing
      <4>4. \A q \in Requests, v \in Uploads : Committing(q, v)' =>
              (Committing(q, v) /\ req'[q].at = req[q].at) \/ v = u
        BY <2>0, <4>1 DEF Others, Committing
      <4>5. ASSUME NEW v \in Uploads PROVE Ending(v)'
        <5>0. Ending(v) /\ Ending(u)
          BY <1>0
        <5>1. CASE v = u
          <6>. HIDE DEF Held, Committing
          <6>. QED BY <3>1, <4>1, <4>2, <5>0, <5>1
        <5>2. CASE v # u
          <6>. HIDE DEF Held, Committing
          <6>. QED BY <3>1, <4>3, <4>4, <5>0, <5>2
        <5>. QED BY <5>1, <5>2
      <4>. HIDE DEF Ending
      <4>. QED BY <1>0, <4>5
    <3>. QED BY <3>2, <3>3
  <2>7. CASE CommitRename(r) \/ CommitClose(r)
    <3>0. PICK u \in Uploads : u = req[r].u
      BY <2>0
    <3>1. /\ req[r].at \in {"commit:rename", "commit:close"} /\ req'[r].u = u
          /\ req'[r].at \in {"commit:close", "commit:forget"} /\ req'[r].stale = req[r].stale
          /\ UNCHANGED <<sessions, fd, closing, writers>>
          /\ temporary' = temporary \/ temporary' = temporary \ {u}
      BY <2>7, <3>0, ServeFacts DEF CommitRename, CommitClose, SameUpload
    <3>2. \A q \in Requests, v \in Uploads : Holds(q, v)' <=> Holds(q, v)
      BY <2>0, <3>0, <3>1 DEF Others, Holds, Committing
    <3>3. \A q \in Requests, v \in Uploads : Committing(q, v)' =>
             Committing(q, v) /\ (req'[q].at = "commit:rename" => req[q].at = "commit:rename" /\ q # r)
      BY <2>0, <3>0, <3>1 DEF Others, Committing
    <3>4. Holds(r, u) /\ u \notin sessions
      BY <3>0, <3>1 DEF OneHolder, Held, Holds, Committing
    <3>5. \A q \in Requests : Committing(q, u) => q = r
      BY <3>4 DEF OneHolder, Holds
    <3>6. \A v \in Uploads : Held(v)' <=> Held(v)
      BY <3>2 DEF Held
    <3>7. ASSUME NEW v \in Uploads PROVE Ending(v)'
      <4>0. Ending(v)
        BY <1>0
      <4>1. CASE v = u
        <5>1. Held(u)
          BY <3>4 DEF Held
        <5>. HIDE DEF Held, Committing
        <5>. QED BY <3>1, <3>3, <3>4, <3>5, <3>6, <4>0, <4>1, <5>1
      <4>2. CASE v # u
        <5>. HIDE DEF Held, Committing
        <5>. QED BY <3>1, <3>3, <3>6, <4>0, <4>2
      <4>. QED BY <4>1, <4>2
    <3>. HIDE DEF Ending
    <3>. QED BY <1>0, <3>7
  <2>8. CASE CommitForget(r)
    <3>0. PICK u \in Uploads : u = req[r].u
      BY <2>0
    <3>1. /\ req[r].at = "commit:forget" /\ req'[r] = Idle /\ req[r].stale = {}
          /\ UNCHANGED <<sessions, closing, writers>>
          /\ fd' = [fd EXCEPT ![u] = None] /\ temporary' = temporary \ {u}
      BY <2>8, <3>0, ServeFacts DEF CommitForget, RequestsOK
    <3>2. Holds(r, u) /\ u \notin sessions
      BY <3>0, <3>1 DEF OneHolder, Held, Holds, Committing
    <3>3. \A q \in Requests : ~Committing(q, u)'
      BY <2>0, <3>1, <3>2, IdleFields DEF OneHolder, Others, Holds, Committing
    <3>4. \A v \in Uploads : v # u => (Held(v) => Held(v)')
      BY <2>0, <3>0, <3>1 DEF Others, Held, Holds, Committing
    <3>5. \A q \in Requests, v \in Uploads : Committing(q, v)' => Committing(q, v) /\ req'[q].at = req[q].at
      BY <2>0, <3>1, IdleFields DEF Others, Committing
    <3>6. ASSUME NEW v \in Uploads PROVE Ending(v)'
      <4>1. CASE v = u
        <5>1. fd'[u] = None
          BY <3>1 DEF TypeOK
        <5>. HIDE DEF Held, Committing
        <5>. QED BY <3>1, <3>2, <3>3, <4>1, <5>1
      <4>2. CASE v # u
        <5>1. fd'[v] = fd[v]
          BY <3>1, <4>2 DEF TypeOK
        <5>. HIDE DEF Held, Committing
        <5>. QED BY <1>0, <3>1, <3>4, <3>5, <4>2, <5>1
      <4>. QED BY <4>1, <4>2
    <3>. HIDE DEF Ending
    <3>. QED BY <1>0, <3>6
  <2>9. CASE Delete(r)
    <3>1. /\ req[r].at = "cancel" /\ req'[r] = Idle /\ req[r].stale = {} /\ UNCHANGED writers
          /\ sessions' = sessions \ {req[r].u}
      BY <2>9, ServeFacts DEF Delete, RequestsOK
    <3>2. CASE req[r].u \in sessions
      <4>1. DiscardOf(req[r].u)
        BY <2>9, <3>2 DEF Delete
      <4>. HIDE DEF Ending
      <4>. QED BY <1>3, <2>0, <3>1, <3>2, <4>1, IdleFields
    <3>3. CASE req[r].u \notin sessions
      <4>1. UNCHANGED <<sessions, closing, temporary, fd>>
        BY <2>9, <3>1, <3>3 DEF Delete
      <4>. HIDE DEF Ending
      <4>. QED BY <1>1, <1>2, <2>0, <3>1, <4>1, IdleFields
    <3>. QED BY <3>2, <3>3
  <2>. QED BY <1>4, <2>1, <2>2, <2>3, <2>4, <2>5, <2>6, <2>7, <2>8, <2>9 DEF Serve
<1>5. CASE Page
  <2>. HIDE DEF Ending
  <2>1. UNCHANGED <<sessions, fd, closing, temporary, writers>>
    BY <1>5 DEF Page, SendOpen, SendCommit, SendDelete, SendPart, Cancel, Lose, server
  <2>2. ASSUME NEW r \in Requests, NEW u \in Uploads, SendOpen(r, u) \/ SendCommit(r, u) \/ SendDelete(r, u)
        PROVE  Endings'
    <3>1. req[r] = Idle
      BY <2>2 DEF SendOpen, SendCommit, SendDelete
    <3>2. Others(r) /\ req'[r].at \in {"expire", "commit:find", "cancel"} /\ req'[r].stale = {}
      BY <2>2, SendFacts, DeleteFacts
    <3>. QED BY <1>1, <1>2, <2>1, <3>1, <3>2, IdleFields
  <2>3. ASSUME NEW r \in Requests, NEW u \in Uploads, NEW p \in Parts, SendPart(r, u, p)
        PROVE  Endings'
    <3>1. req[r] = Idle
      BY <2>3 DEF SendPart
    <3>2. Others(r) /\ req'[r].at = "part:find" /\ req'[r].stale = {}
      BY <2>3, SendFacts
    <3>. QED BY <1>1, <1>2, <2>1, <3>1, <3>2, IdleFields
  <2>4. ASSUME \A q \in Requests : SameUpload(q) /\ req'[q].at = req[q].at /\ req'[q].stale = req[q].stale
        PROVE  Endings'
    BY <1>1, <2>1, <2>4 DEF SameUpload, Holds, Committing
  <2>5. ASSUME NEW u \in Uploads, Cancel(u) PROVE Endings'
    BY <2>4, <2>5, CancelFacts
  <2>6. ASSUME NEW r \in Requests, Lose(r) PROVE Endings'
    BY <2>4, <2>6, UnheardFacts DEF Lose, Others, SameUpload
  <2>. QED BY <1>5, <2>2, <2>3, <2>5, <2>6 DEF Page
<1>6. CASE UNCHANGED vars
  <2>. HIDE DEF Ending
  <2>. QED BY <1>1, <1>6 DEF vars, server, Holds, Committing
<1>. QED BY <1>4, <1>5, <1>6 DEF Next

\* A file that is there stays, or is replaced by one that may.
LEMMA ThereStays ==
    ASSUME TypeOK, NEW v \in Uploads, There(v),
           \/ UNCHANGED folder
           \/ \E u \in Uploads : NameFree(u) /\ folder' = [folder EXCEPT ![Target[u]] = u]
    PROVE  There(v)'
<1>1. CASE UNCHANGED folder
  BY <1>1 DEF There
<1>2. ASSUME NEW u \in Uploads, NameFree(u), folder' = [folder EXCEPT ![Target[u]] = u]
      PROVE  There(v)'
  <2>1. Target[u] \in Names /\ Target[v] \in Names
    BY DEF Names
  <2>2. CASE Target[u] = Target[v]
    BY <1>2, <2>1, <2>2, UploadAssumption DEF There, NameFree, TypeOK
  <2>3. CASE Target[u] # Target[v]
    BY <1>2, <2>1, <2>3 DEF There, TypeOK
  <2>. QED BY <2>2, <2>3
<1>. QED BY <1>1, <1>2

\* Every step keeps what was renamed, and a commit is told complete only then.
LEMMA RenamedStep ==
    ASSUME TypeOK, RequestsOK, OneHolder, Endings, Renamed, [Next]_vars
    PROVE  Renamed'
<1>0. \/ UNCHANGED folder
      \/ \E u \in Uploads : NameFree(u) /\ folder' = [folder EXCEPT ![Target[u]] = u]
  <2>1. ASSUME NEW r \in Requests, CommitRename(r)
        PROVE  \/ UNCHANGED folder
               \/ \E u \in Uploads : NameFree(u) /\ folder' = [folder EXCEPT ![Target[u]] = u]
    BY <2>1 DEF CommitRename, RequestsOK
  <2>2. ASSUME NEW r \in Requests, Serve(r), ~CommitRename(r) PROVE UNCHANGED folder
    BY <2>2 DEF Serve, Expire, DiscardStale, Open, PartFind, PartAttach, PartWrite, PartFinish,
       PartFree, CommitFind, CommitCheck, CommitTake, CommitClose, CommitForget, Delete, server
  <2>3. Page => UNCHANGED folder
    BY DEF Page, SendOpen, SendCommit, SendDelete, SendPart, Cancel, Lose, server
  <2>. QED BY <2>1, <2>2, <2>3 DEF Next, vars, server
<1>1. \A v \in Uploads : There(v) => There(v)'
  BY <1>0, ThereStays
<1>2. /\ \A v \in Uploads : client[v] = "complete" => There(v)
      /\ \A q \in Requests, v \in Uploads : Renaming(q, v) /\ v \notin temporary => There(v)
  BY DEF Renamed, Renaming
<1>3. ASSUME \A v \in Uploads : client'[v] = "complete" => client[v] = "complete" \/ There(v),
             \A q \in Requests, v \in Uploads : Renaming(q, v)' =>
                 \/ Renaming(q, v) /\ (v \in temporary => v \in temporary')
                 \/ v \in temporary' \/ There(v)'
      PROVE  Renamed'
  <2>1. \A q \in Requests, v \in Uploads : Renaming(q, v)' /\ v \notin temporary' => There(v)'
    <3>. HIDE DEF There, Renaming
    <3>. QED BY <1>1, <1>2, <1>3
  <2>2. \A v \in Uploads : client'[v] = "complete" => There(v)'
    <3>. HIDE DEF There
    <3>. QED BY <1>1, <1>2, <1>3
  <2>. QED BY <2>1, <2>2 DEF Renamed, Renaming
<1>4. ASSUME NEW r \in Requests, Serve(r) PROVE Renamed'
  <2>. HIDE DEF There
  <2>0. Others(r) /\ req[r].u \in Uploads
    BY <1>4, ServedUpload
  <2>1. ASSUME req'[r].at \notin {"commit:close", "commit:forget"},
               \A q \in Requests, v \in Uploads : q # r /\ Renaming(q, v) /\ v \in temporary => v \in temporary'
        PROVE  \A q \in Requests, v \in Uploads : Renaming(q, v)' =>
                 Renaming(q, v) /\ (v \in temporary => v \in temporary')
    BY <2>0, <2>1 DEF Others, Renaming
  <2>2. ASSUME NEW u \in Uploads, u \in sessions \/ Holds(r, u), temporary' = temporary \ {u}
        PROVE  \A q \in Requests, v \in Uploads : q # r /\ Renaming(q, v) /\ v \in temporary => v \in temporary'
    <3>1. ASSUME NEW q \in Requests, q # r, Renaming(q, u) PROVE FALSE
      <4>1. Holds(q, u)
        BY <3>1 DEF Renaming, Holds, Committing
      <4>. QED BY <2>2, <3>1, <4>1 DEF OneHolder, Held
    <3>. QED BY <2>2, <3>1
  <2>3. CASE Expire(r) \/ PartFind(r) \/ PartAttach(r) \/ PartWrite(r) \/ PartFinish(r) \/ PartFree(r)
             \/ CommitFind(r) \/ CommitCheck(r) \/ CommitTake(r) \/ Open(r)
    <3>1. req'[r].at \notin {"commit:close", "commit:forget"}
      BY <2>3, ServeFacts, IdleFields
    <3>2. \A v : v \in temporary => v \in temporary'
      BY <2>3 DEF Expire, PartFind, PartAttach, PartWrite, PartFinish, PartFree, CommitFind,
         CommitCheck, CommitTake, Open, server
    <3>3. \A v \in Uploads : client'[v] = "complete" => client[v] = "complete"
      <4>1. \/ UNCHANGED client \/ Fails(req[r].u)
            \/ \E st \in {"sending", "failed"} : client' = [client EXCEPT ![req[r].u] = st]
        <5>1. CASE Expire(r) \/ PartFinish(r) \/ PartFree(r)
          BY <5>1 DEF Expire, PartFinish, PartFree, page
        <5>2. CASE PartFind(r) \/ PartAttach(r) \/ PartWrite(r)
          BY <5>2 DEF PartFind, PartAttach, PartWrite, PartRefused, page
        <5>3. CASE CommitFind(r) \/ CommitCheck(r) \/ CommitTake(r) \/ Open(r)
          BY <5>3 DEF CommitFind, CommitCheck, CommitTake, Open, Answer, page
        <5>. QED BY <2>3, <5>1, <5>2, <5>3
      <4>. QED BY <4>1, <2>0 DEF Fails, TypeOK
    <3>. QED BY <1>3, <2>1, <3>1, <3>2, <3>3
  <2>4. CASE DiscardStale(r)
    <3>1. UNCHANGED client /\ req'[r].at \in {"open", "discard"}
      BY <2>4, DiscardFacts DEF DiscardStale, page
    <3>2. \A q \in Requests, v \in Uploads : q # r /\ Renaming(q, v) /\ v \in temporary => v \in temporary'
      <4>1. UNCHANGED temporary \/ \E u \in Uploads : u \in req[r].stale /\ temporary' = temporary \ {u}
        BY <2>4, DiscardFacts DEF DiscardOf
      <4>. QED BY <2>2, <4>1 DEF Holds
    <3>. QED BY <1>3, <2>1, <3>1, <3>2
  <2>5. CASE Delete(r)
    <3>1. UNCHANGED client /\ req'[r].at \notin {"commit:close", "commit:forget"}
      BY <2>5, ServeFacts, IdleFields DEF Delete, page
    <3>2. \A q \in Requests, v \in Uploads : q # r /\ Renaming(q, v) /\ v \in temporary => v \in temporary'
      <4>1. UNCHANGED temporary \/ (req[r].u \in sessions /\ temporary' = temporary \ {req[r].u})
        BY <2>5 DEF Delete, DiscardOf
      <4>. QED BY <2>0, <2>2, <4>1
    <3>. QED BY <1>3, <2>1, <3>1, <3>2
  <2>6. CASE CommitRename(r)
    <3>0. PICK u \in Uploads : u = req[r].u
      BY <2>0
    <3>1. /\ UNCHANGED client /\ req'[r].at = "commit:close" /\ req'[r].u = u /\ Holds(r, u)
          /\ u \in temporary
      BY <2>6, <3>0, ServeFacts DEF CommitRename, page, SameUpload, Holds, Committing, Endings
    <3>2. \A q \in Requests, v \in Uploads : q # r /\ Renaming(q, v) /\ v \in temporary => v \in temporary'
      BY <2>2, <2>6, <3>0, <3>1 DEF CommitRename
    <3>3. u \in temporary' \/ There(u)'
      <4>1. CASE NameFree(u) /\ folder' = [folder EXCEPT ![Target[u]] = u]
        <5>1. Target[u] \in Names
          BY DEF Names
        <5>. QED BY <4>1, <5>1, UploadAssumption DEF There, TypeOK
      <4>2. CASE UNCHANGED temporary
        BY <3>1, <4>2
      <4>. QED BY <2>6, <3>0, <4>1, <4>2 DEF CommitRename
    <3>4. ASSUME NEW q \in Requests, NEW v \in Uploads, Renaming(q, v)'
          PROVE  \/ Renaming(q, v) /\ (v \in temporary => v \in temporary')
                 \/ v \in temporary' \/ There(v)'
      <4>1. CASE q = r
        BY <3>1, <3>3, <3>4, <4>1 DEF Renaming
      <4>2. CASE q # r
        BY <2>0, <3>2, <3>4, <4>2 DEF Renaming, Others
      <4>. QED BY <4>1, <4>2
    <3>. QED BY <1>3, <3>1, <3>4
  <2>7. CASE CommitClose(r)
    <3>1. /\ UNCHANGED <<client, temporary>> /\ req[r].at = "commit:close"
          /\ req'[r].at = "commit:forget" /\ req'[r].u = req[r].u
      BY <2>7, ServeFacts DEF CommitClose, page, SameUpload
    <3>2. \A q \in Requests, v \in Uploads : Renaming(q, v)' => Renaming(q, v)
      BY <2>0, <3>1 DEF Renaming, Others
    <3>. QED BY <1>3, <3>1, <3>2
  <2>8. CASE CommitForget(r)
    <3>0. PICK u \in Uploads : u = req[r].u
      BY <2>0
    <3>1. /\ req[r].at = "commit:forget" /\ req'[r].at \notin {"commit:close", "commit:forget"}
          /\ temporary' = temporary \ {u} /\ Holds(r, u) /\ Renaming(r, u)
      BY <2>8, <3>0, ServeFacts, IdleFields DEF CommitForget, Holds, Committing, Renaming
    <3>2. \A q \in Requests, v \in Uploads : q # r /\ Renaming(q, v) /\ v \in temporary => v \in temporary'
      BY <2>2, <3>1
    <3>3. UNCHANGED client \/ client' = [client EXCEPT ![u] = Outcome(u)]
      BY <2>8, <3>0 DEF CommitForget, Answer
    <3>4. \A v \in Uploads : client'[v] = "complete" => client[v] = "complete" \/ There(v)
      BY <1>2, <3>1, <3>3 DEF Outcome, TypeOK
    <3>. QED BY <1>3, <2>1, <3>1, <3>2, <3>4
  <2>. QED BY <1>4, <2>3, <2>4, <2>5, <2>6, <2>7, <2>8 DEF Serve
<1>5. CASE Page
  <2>. HIDE DEF There
  <2>1. UNCHANGED temporary
    BY <1>5 DEF Page, SendOpen, SendCommit, SendDelete, SendPart, Cancel, Lose, server
  <2>2. ASSUME NEW r \in Requests, Others(r), req'[r].at \in {"expire", "commit:find", "cancel", "part:find"},
               \A v \in Uploads : client'[v] = "complete" => client[v] = "complete"
        PROVE  Renamed'
    <3>1. \A q \in Requests, v \in Uploads : Renaming(q, v)' => Renaming(q, v)
      BY <2>2 DEF Renaming, Others
    <3>. QED BY <1>3, <2>1, <2>2, <3>1
  <2>3. ASSUME \A q \in Requests : req'[q].u = req[q].u /\ req'[q].at = req[q].at,
               \A v \in Uploads : client'[v] = "complete" => client[v] = "complete"
        PROVE  Renamed'
    <3>1. \A q \in Requests, v \in Uploads : Renaming(q, v)' => Renaming(q, v)
      BY <2>3 DEF Renaming
    <3>. QED BY <1>3, <2>1, <2>3, <3>1
  <2>4. ASSUME NEW r \in Requests, NEW u \in Uploads, SendOpen(r, u) \/ SendCommit(r, u) \/ SendDelete(r, u)
        PROVE  Renamed'
    <3>1. Others(r) /\ req'[r].at \in {"expire", "commit:find", "cancel"}
      BY <2>4, SendFacts, DeleteFacts
    <3>2. \A v \in Uploads : client'[v] = "complete" => client[v] = "complete"
      BY <2>4 DEF SendOpen, SendCommit, SendDelete, page, TypeOK
    <3>. QED BY <2>2, <3>1, <3>2
  <2>5. ASSUME NEW r \in Requests, NEW u \in Uploads, NEW p \in Parts, SendPart(r, u, p)
        PROVE  Renamed'
    <3>1. Others(r) /\ req'[r].at = "part:find"
      BY <2>5, SendFacts
    <3>2. UNCHANGED client
      BY <2>5 DEF SendPart
    <3>. QED BY <2>2, <3>1, <3>2
  <2>6. ASSUME NEW u \in Uploads, Cancel(u) PROVE Renamed'
    <3>1. \A v \in Uploads : client'[v] = "complete" => client[v] = "complete"
      BY <2>6 DEF Cancel, Fails, TypeOK
    <3>. QED BY <2>3, <2>6, <3>1, CancelFacts DEF SameUpload
  <2>7. ASSUME NEW r \in Requests, Lose(r) PROVE Renamed'
    <3>1. \A v \in Uploads : client'[v] = "complete" => client[v] = "complete"
      <4>1. UNCHANGED client \/ Fails(req[r].u) \/ client' = [client EXCEPT ![req[r].u] = "failed"]
        BY <2>7 DEF Lose, PartRefused, Answer
      <4>. QED BY <4>1 DEF Fails, TypeOK
    <3>. QED BY <2>3, <2>7, <3>1, UnheardFacts DEF Lose, Others, SameUpload
  <2>. QED BY <1>5, <2>4, <2>5, <2>6, <2>7 DEF Page
<1>6. CASE UNCHANGED vars
  <2>1. UNCHANGED <<client, temporary, req>>
    BY <1>6 DEF vars, server, page
  <2>. QED BY <1>3, <2>1 DEF Renaming
<1>. QED BY <1>4, <1>5, <1>6 DEF Next

-----------------------------------------------------------------------------
(* The sessions.                                                           *)

\* It holds at the start: no session, no request.
LEMMA InitSessions == Init => SessionsInv
<1>. SUFFICES ASSUME Init PROVE SessionsInv
  OBVIOUS
<1>. USE UploadAssumption
<1>1. \A r \in Requests : req[r] = Idle
  BY DEF Init
<1>2. TypeOK
  <2>1. req \in [Requests -> Records]
    BY IdleRecord DEF Init
  <2>. QED BY <2>1 DEF Init, TypeOK, Records
<1>3. \A r \in Requests, u \in Uploads : ~Holds(r, u) /\ ~Committing(r, u) /\ req[r].u # u
  BY <1>1, IdleFields DEF Holds, Committing
<1>4. RequestsOK
  BY <1>1, IdleFields DEF RequestsOK, PartSteps
<1>5. \A u \in Uploads : Unopened(u)
  BY <1>3 DEF Init, Unopened, Held
<1>6. WritersCount
  <2>1. \A u \in Uploads : Attached(u) = {}
    BY <1>3 DEF Attached
  <2>. QED BY <2>1, FS_EmptySet DEF Init, WritersCount
<1>7. OpenOnce /\ OneHolder
  BY <1>3, <1>5 DEF OpenOnce, OneHolder, Held
<1>8. Descriptors /\ Endings /\ Renamed
  BY <1>3, <1>2 DEF Init, Descriptors, Endings, Renamed, Forgetting, Renaming
<1>. QED BY <1>2, <1>4, <1>6, <1>7, <1>8 DEF SessionsInv

\* The sessions' invariant holds in every state, however connections break.
THEOREM Sessions == Spec => []SessionsInv
<1>1. SessionsInv /\ [Next]_vars => SessionsInv'
  BY TypesStep, RequestsStep, OpenStep, HolderStep, WritersStep, DescriptorsStep, EndingsStep,
     RenamedStep DEF SessionsInv
<1>. QED BY InitSessions, <1>1, PTL DEF Spec

\* A session that is over left neither a descriptor nor a temporary file, whoever ended
\* it, and a file the page calls complete is there.
THEOREM SessionsEndCorrect == Spec => []SessionsEnd
<1>1. SessionsInv => SessionsEnd
  <2>. SUFFICES ASSUME SessionsInv PROVE SessionsEnd
    OBVIOUS
  <2>. USE DEF SessionsInv
  <2>1. CompleteIsThere
    BY DEF Renamed, There, CompleteIsThere
  <2>2. ASSUME NEW u \in Uploads, u \notin sessions,
               \A r \in Requests : req[r].u # u /\ u \notin req[r].stale
        PROVE  u \notin temporary /\ \A n \in Fds : openFile[n] # u
    <3>1. ~Held(u)
      BY <2>2 DEF Held, Holds, Committing
    <3>2. Attached(u) = {}
      BY <2>2 DEF Attached
    <3>3. writers[u] = 0
      BY <3>2, FS_EmptySet DEF WritersCount
    <3>4. fd[u] = None
      BY <2>2, <3>1, <3>3 DEF Endings
    <3>. QED BY <2>2, <3>1, <3>4, UploadAssumption DEF Endings, Descriptors
  <2>. QED BY <2>1, <2>2 DEF SessionsEnd, NothingLeft
<1>. QED BY <1>1, Sessions, PTL

\* No two uploads of one name overwrite each other: a commit replaces a file only where
\* its session may.
THEOREM NamesAreKept == Spec => NeverOverwritten
<1>1. TypeOK /\ RequestsOK /\ [Next]_vars =>
        [\A n \in Names : folder[n] # None /\ folder'[n] # folder[n] => folder'[n] \in Replace]_folder
  <2>1. ASSUME TypeOK, RequestsOK, NEW r \in Requests, CommitRename(r), NEW n \in Names,
               folder[n] # None, folder'[n] # folder[n]
        PROVE  folder'[n] \in Replace
    BY <2>1 DEF CommitRename, NameFree, TypeOK
  <2>2. ASSUME NEW r \in Requests, Serve(r), ~CommitRename(r) PROVE UNCHANGED folder
    BY <2>2 DEF Serve, Expire, DiscardStale, Open, PartFind, PartAttach, PartWrite, PartFinish,
       PartFree, CommitFind, CommitCheck, CommitTake, CommitClose, CommitForget, Delete, server
  <2>3. Page => UNCHANGED folder
    BY DEF Page, SendOpen, SendCommit, SendDelete, SendPart, Cancel, Lose, server
  <2>. QED BY <2>1, <2>2, <2>3 DEF Next, vars, server
<1>2. SessionsInv => TypeOK /\ RequestsOK
  BY DEF SessionsInv
<1>. QED BY <1>1, <1>2, Sessions, PTL DEF Spec, NeverOverwritten

\* Session::writers counts exactly the requests attached, on every path out of one.
THEOREM WritersAreCounted == Spec => []WritersCount
<1>1. SessionsInv => WritersCount
  BY DEF SessionsInv
<1>. QED BY <1>1, Sessions, PTL

-----------------------------------------------------------------------------
(* The parts.                                                              *)

\* No connection breaks, or a part whose connection broke is not sent again.
OnceEach == ~LostConnections \/ Tries <= 1

\* Lane: a request on its way to writing a part, and a part the page may yet send.
Live(r, u, p) == /\ req[r].u = u /\ req[r].p = p
                 /\ req[r].at \in {"part:find", "part:attach", "part:write", "part:finish"}
Resendable(u, p) == client[u] = "sending" /\ p \in left[u] /\ tries[u][p] < Tries

\* One lane for each part, and none for a part covered; what may be sent has no lane
\* the page stopped listening to.
Lanes == \A u \in Uploads, p \in Parts :
    /\ \A r, q \in Requests : Live(r, u, p) /\ Live(q, u, p) => r = q
    /\ p \in covered[u] => ~Resendable(u, p) /\ \A r \in Requests : ~Live(r, u, p)
    /\ \A r \in Requests : Live(r, u, p) =>
          tries[u][p] > 0 /\ (req[r].heard \/ ~Resendable(u, p))

\* From its check on, a commit is alone with its session's parts, all covered.
CommitAlone == \A r \in Requests : req[r].at \in Taking =>
    /\ covered[req[r].u] = Parts
    /\ \A q \in Requests : req[q].u = req[r].u => req[q].at \notin PartSteps

\* A writer's descriptor is still its session's.
Writing == \A r \in Requests : req[r].at \in Writes =>
    fd[req[r].u] # None /\ req[r].fd = fd[req[r].u]

\* A part covered, or about to be, holds its upload's bytes.
Bytes ==
    /\ OwnBytes
    /\ \A u \in Uploads, p \in Parts : p \in covered[u] => content[u][p] = u
    /\ \A r \in Requests : req[r].at = "part:finish" =>
            content[req[r].u][req[r].p] = req[r].u

PartsInv == SessionsInv /\ Lanes /\ CommitAlone /\ Writing /\ Bytes /\ OnlyWholeFiles

\* Every step keeps one lane for each part.
LEMMA LanesStep ==
    ASSUME OnceEach, SessionsInv, Lanes, [Next]_vars
    PROVE  Lanes'
<1>. USE DEF SessionsInv
<1>. DEFINE Lane(u, p) ==
       /\ \A r, q \in Requests : Live(r, u, p) /\ Live(q, u, p) => r = q
       /\ p \in covered[u] => ~Resendable(u, p) /\ \A r \in Requests : ~Live(r, u, p)
       /\ \A r \in Requests : Live(r, u, p) =>
             tries[u][p] > 0 /\ (req[r].heard \/ ~Resendable(u, p))
<1>0. (\A u \in Uploads, p \in Parts : Lane(u, p)) /\ ((\A u \in Uploads, p \in Parts : Lane(u, p)') => Lanes')
  BY DEF Lanes
<1>1. ASSUME NEW v \in Uploads, NEW p \in Parts,
             \A q \in Requests : Live(q, v, p)' => Live(q, v, p) /\ (req'[q].heard \/ ~req[q].heard \/ ~Resendable(v, p)'),
             covered'[v] = covered[v], Resendable(v, p)' => Resendable(v, p),
             tries'[v][p] = tries[v][p]
      PROVE  Lane(v, p)'
  <2>1. Lane(v, p)
    BY <1>0
  <2>. HIDE DEF Live, Resendable
  <2>. QED BY <1>1, <2>1
<1>2. ASSUME NEW r \in Requests, Serve(r), ~Open(r), ~PartFinish(r) PROVE Lanes'
  <2>0. Others(r) /\ req[r].u \in Uploads
    BY <1>2, ServedUpload
  <2>1. UNCHANGED <<covered, left, tries>>
    BY <1>2 DEF Serve, Expire, DiscardStale, PartFind, PartAttach, PartWrite, PartFree, CommitFind,
       CommitCheck, CommitTake, CommitRename, CommitClose, CommitForget, Delete, server, page,
       Answer, PartRefused
  <2>2. \A v \in Uploads : client'[v] = "sending" => client[v] = "sending"
    <3>1. \/ UNCHANGED client \/ Fails(req[r].u)
          \/ \E st \in {"complete", "failed"} : client' = [client EXCEPT ![req[r].u] = st]
      <4>1. CASE Expire(r) \/ DiscardStale(r) \/ PartFree(r) \/ CommitRename(r) \/ CommitClose(r) \/ Delete(r)
        BY <4>1 DEF Expire, DiscardStale, PartFree, CommitRename, CommitClose, Delete, page
      <4>2. CASE PartFind(r) \/ PartAttach(r) \/ PartWrite(r)
        BY <4>2 DEF PartFind, PartAttach, PartWrite, PartRefused, page
      <4>3. CASE CommitFind(r) \/ CommitCheck(r) \/ CommitTake(r) \/ CommitForget(r)
        BY <4>3 DEF CommitFind, CommitCheck, CommitTake, CommitForget, Answer, Outcome, page
      <4>. QED BY <1>2, <4>1, <4>2, <4>3 DEF Serve
    <3>. QED BY <2>0, <3>1 DEF Fails, TypeOK
  <2>3. \A v, p : Live(r, v, p)' => Live(r, v, p) /\ req'[r].heard = req[r].heard
    <3>1. CASE Expire(r) \/ DiscardStale(r) \/ PartFree(r) \/ Delete(r) \/ CommitForget(r)
      BY <3>1, ServeFacts, DiscardFacts, IdleFields DEF Live
    <3>2. CASE PartFind(r) \/ PartAttach(r) \/ PartWrite(r)
      BY <3>2, ServeFacts, IdleFields DEF Live, SameUpload, PartFind, PartAttach, PartWrite
    <3>3. CASE CommitFind(r) \/ CommitCheck(r) \/ CommitTake(r) \/ CommitRename(r) \/ CommitClose(r)
      BY <3>3, ServeFacts, IdleFields DEF Live
    <3>. QED BY <1>2, <3>1, <3>2, <3>3 DEF Serve
  <2>4. ASSUME NEW v \in Uploads, NEW p \in Parts PROVE Lane(v, p)'
    <3>1. \A q \in Requests : Live(q, v, p)' => Live(q, v, p) /\ req'[q].heard = req[q].heard
      BY <2>0, <2>3 DEF Others, Live
    <3>2. Resendable(v, p)' => Resendable(v, p)
      BY <2>1, <2>2 DEF Resendable
    <3>3. \A q \in Requests : req[q].heard \in BOOLEAN
      BY DEF TypeOK
    <3>. HIDE DEF Lane
    <3>. QED BY <1>1, <2>1, <3>1, <3>2, <3>3
  <2>. HIDE DEF Lane
  <2>. QED BY <1>0, <2>4
<1>3. ASSUME NEW r \in Requests, Open(r) PROVE Lanes'
  <2>0. PICK u \in Uploads : u = req[r].u
    BY <1>3 DEF Open, RequestsOK
  <2>1. /\ Others(r) /\ req'[r] = Idle /\ UNCHANGED <<covered, left, tries>>
        /\ UNCHANGED client \/ \E st \in {"sending", "failed"} : client' = [client EXCEPT ![u] = st]
    BY <1>3, <2>0, ServeFacts DEF Open, Answer
  <2>2. covered[u] = {} /\ \A q \in Requests : req[q].u = u => q = r
    BY <1>3, <2>0 DEF OpenOnce, Opening, Unopened, Open
  <2>3. \A q \in Requests, v \in Uploads, p \in Parts : Live(q, v, p)' => Live(q, v, p) /\ v # u /\ req'[q] = req[q]
    BY <2>1, <2>2, IdleFields, UploadAssumption DEF Live, Others
  <2>4. ASSUME NEW v \in Uploads, NEW p \in Parts PROVE Lane(v, p)'
    <3>1. CASE v = u
      <4>1. covered'[v] = {} /\ \A q \in Requests : ~Live(q, v, p)'
        BY <2>1, <2>2, <2>3, <3>1
      <4>. HIDE DEF Live, Resendable
      <4>. QED BY <4>1
    <3>2. CASE v # u
      <4>1. Resendable(v, p)' <=> Resendable(v, p)
        BY <2>1, <3>2 DEF Resendable, TypeOK
      <4>2. \A q \in Requests : req[q].heard \in BOOLEAN
        BY DEF TypeOK
      <4>. HIDE DEF Lane
      <4>. QED BY <1>1, <2>1, <2>3, <4>1, <4>2
    <3>. QED BY <3>1, <3>2
  <2>. HIDE DEF Lane
  <2>. QED BY <1>0, <2>4
<1>4. ASSUME NEW r \in Requests, PartFinish(r) PROVE Lanes'
  <2>0. PICK u \in Uploads, k \in Parts : u = req[r].u /\ k = req[r].p
    BY <1>4 DEF PartFinish, RequestsOK, PartSteps
  <2>1. /\ Others(r) /\ req'[r] = Idle /\ UNCHANGED <<client, tries>>
        /\ covered' = [covered EXCEPT ![u] = @ \cup {k}]
        /\ left' = IF Waiting(r) THEN [left EXCEPT ![u] = @ \ {k}] ELSE left
    BY <1>4, <2>0, ServeFacts DEF PartFinish
  <2>2. Live(r, u, k)
    BY <1>4, <2>0 DEF Live, PartFinish
  <2>3. \A q \in Requests, v \in Uploads, p \in Parts : Live(q, v, p)' => q # r /\ Live(q, v, p) /\ req'[q] = req[q]
    BY <2>1, IdleFields, UploadAssumption DEF Live, Others
  <2>4. \A v \in Uploads, p \in Parts : Resendable(v, p)' => Resendable(v, p)
    BY <2>1 DEF Resendable, TypeOK
  <2>5. ~Resendable(u, k)'
    <3>1. CASE Waiting(r)
      BY <2>1, <3>1 DEF Resendable, TypeOK
    <3>2. CASE ~req[r].heard
      <4>1. ~Resendable(u, k)
        BY <1>0, <2>2, <3>2
      <4>. QED BY <2>4, <4>1
    <3>3. CASE client[u] \in {"complete", "failed"}
      BY <2>1, <3>3 DEF Resendable
    <3>. QED BY <2>0, <3>1, <3>2, <3>3 DEF Waiting
  <2>6. \A q \in Requests : ~Live(q, u, k)'
    <3>1. Lane(u, k)
      BY <1>0
    <3>. QED BY <2>2, <2>3, <3>1
  <2>7. ASSUME NEW v \in Uploads, NEW p \in Parts PROVE Lane(v, p)'
    <3>1. CASE v = u /\ p = k
      <4>. HIDE DEF Live, Resendable
      <4>. QED BY <2>5, <2>6, <3>1
    <3>2. CASE ~(v = u /\ p = k)
      <4>1. p \in covered'[v] <=> p \in covered[v]
        BY <2>1, <3>2 DEF TypeOK
      <4>2. tries'[v][p] = tries[v][p]
        BY <2>1
      <4>3. Lane(v, p)
        BY <1>0
      <4>. HIDE DEF Live, Resendable
      <4>. QED BY <2>3, <2>4, <4>1, <4>2, <4>3
    <3>. QED BY <3>1, <3>2
  <2>. HIDE DEF Lane
  <2>. QED BY <1>0, <2>7
<1>5. ASSUME NEW r \in Requests, NEW u \in Uploads, NEW k \in Parts, SendPart(r, u, k) PROVE Lanes'
  <2>1. /\ UNCHANGED <<covered, client, left>> /\ tries' = [tries EXCEPT ![u][k] = @ + 1]
        /\ Resendable(u, k) /\ \A q \in Requests : ~(req[q].u = u /\ req[q].p = k /\ req[q].heard)
    BY <1>5 DEF SendPart, server, Resendable
  <2>2. Others(r) /\ req'[r].at = "part:find" /\ req'[r].u = u /\ req'[r].p = k /\ req'[r].heard
    BY <1>5, SendFacts
  <2>3. \A q \in Requests : ~Live(q, u, k)
    <3>1. Lane(u, k)
      BY <1>0
    <3>. QED BY <2>1, <3>1 DEF Live
  <2>4. tries[u][k] \in Nat /\ tries'[u][k] = tries[u][k] + 1
    BY <2>1 DEF TypeOK
  <2>5. \A v \in Uploads, p \in Parts : ~(v = u /\ p = k) => tries'[v][p] = tries[v][p]
    <3>1. tries' = [tries EXCEPT ![u] = [tries[u] EXCEPT ![k] = tries[u][k] + 1]]
      BY <2>1
    <3>. QED BY <3>1 DEF TypeOK
  <2>6. ASSUME NEW v \in Uploads, NEW p \in Parts PROVE Lane(v, p)'
    <3>0. Lane(v, p)
      BY <1>0
    <3>1. CASE v = u /\ p = k
      <4>1. \A q \in Requests : Live(q, u, k)' => q = r
        BY <2>2, <2>3 DEF Live, Others
      <4>2. k \notin covered'[u]
        BY <2>1, <3>0, <3>1
      <4>. HIDE DEF Live, Resendable
      <4>. QED BY <2>2, <2>4, <3>1, <4>1, <4>2
    <3>2. CASE ~(v = u /\ p = k)
      <4>1. \A q \in Requests : Live(q, v, p)' => Live(q, v, p) /\ req'[q] = req[q]
        BY <2>2, <3>2 DEF Live, Others
      <4>2. Resendable(v, p)' <=> Resendable(v, p)
        BY <2>1, <2>5, <3>2 DEF Resendable
      <4>. HIDE DEF Live, Resendable
      <4>. QED BY <2>1, <2>5, <3>0, <3>2, <4>1, <4>2
    <3>. QED BY <3>1, <3>2
  <2>. HIDE DEF Lane
  <2>. QED BY <1>0, <2>6
<1>6. ASSUME NEW r \in Requests, NEW u \in Uploads, SendOpen(r, u) \/ SendCommit(r, u) \/ SendDelete(r, u)
      PROVE  Lanes'
  <2>1. Others(r) /\ req'[r].at \in {"expire", "commit:find", "cancel"}
    BY <1>6, SendFacts, DeleteFacts
  <2>2. /\ UNCHANGED <<covered, left, tries>>
        /\ UNCHANGED client \/ \E st \in {"opening", "committing"} : client' = [client EXCEPT ![u] = st]
    BY <1>6 DEF SendOpen, SendCommit, SendDelete, server, page
  <2>3. ASSUME NEW v \in Uploads, NEW p \in Parts PROVE Lane(v, p)'
    <3>1. \A q \in Requests : Live(q, v, p)' => Live(q, v, p) /\ req'[q] = req[q]
      BY <2>1 DEF Live, Others
    <3>2. Resendable(v, p)' => Resendable(v, p)
      BY <2>2 DEF Resendable, TypeOK
    <3>3. \A q \in Requests : req[q].heard \in BOOLEAN
      BY DEF TypeOK
    <3>. HIDE DEF Lane
    <3>. QED BY <1>1, <2>2, <3>1, <3>2, <3>3
  <2>. HIDE DEF Lane
  <2>. QED BY <1>0, <2>3
<1>7. ASSUME NEW u \in Uploads, Cancel(u) PROVE Lanes'
  <2>1. UNCHANGED <<covered, left, tries>> /\ client' = [client EXCEPT ![u] = "failed"]
    BY <1>7 DEF Cancel, Fails, server, TypeOK
  <2>2. ASSUME NEW v \in Uploads, NEW p \in Parts PROVE Lane(v, p)'
    <3>1. v = u => ~Resendable(v, p)'
      BY <2>1 DEF Resendable, TypeOK
    <3>2. Resendable(v, p)' => Resendable(v, p)
      BY <2>1, <3>1 DEF Resendable, TypeOK
    <3>3. \A q \in Requests : Live(q, v, p)' =>
             Live(q, v, p) /\ (req'[q].heard \/ ~req[q].heard \/ v = u)
      BY <1>7, CancelFacts DEF Live, SameUpload
    <3>. HIDE DEF Lane
    <3>. QED BY <1>1, <2>1, <3>1, <3>2, <3>3
  <2>. HIDE DEF Lane
  <2>. QED BY <1>0, <2>2
<1>8. ASSUME NEW r \in Requests, Lose(r) PROVE Lanes'
  <2>0. PICK u \in Uploads : u = req[r].u
    BY <1>8, IdleFields DEF Lose, RequestsOK
  <2>1. UNCHANGED <<covered, left, tries>>
    BY <1>8 DEF Lose, server, PartRefused, Answer
  <2>2. UNCHANGED client \/ client' = [client EXCEPT ![u] = "failed"]
    <3>1. UNCHANGED client \/ Fails(u) \/ client' = [client EXCEPT ![u] = "failed"]
      BY <1>8, <2>0 DEF Lose, PartRefused, Answer
    <3>. QED BY <3>1 DEF Fails, TypeOK
  <2>3. Tries <= 1 /\ Tries \in Nat
    BY <1>8, UploadAssumption DEF OnceEach, Lose
  <2>4. ASSUME NEW v \in Uploads, NEW p \in Parts PROVE Lane(v, p)'
    <3>1. \A q \in Requests : Live(q, v, p)' => Live(q, v, p)
      BY <1>8, UnheardFacts DEF Lose, Others, SameUpload, Live
    <3>2. tries[v][p] \in Nat
      BY DEF TypeOK
    <3>3. (\E q \in Requests : Live(q, v, p)) => ~Resendable(v, p)
      <4>1. Lane(v, p)
        BY <1>0
      <4>. HIDE DEF Live
      <4>. QED BY <2>3, <3>2, <4>1 DEF Resendable
    <3>4. Resendable(v, p)' => Resendable(v, p)
      BY <2>1, <2>2 DEF Resendable, TypeOK
    <3>. HIDE DEF Lane, Live, Resendable
    <3>. QED BY <1>1, <2>1, <3>1, <3>3, <3>4
  <2>. HIDE DEF Lane
  <2>. QED BY <1>0, <2>4
<1>9. CASE UNCHANGED vars
  BY <1>9 DEF vars, server, page, Lanes, Live, Resendable
<1>10. CASE Page
  <2>. HIDE DEF Lane
  <2>. QED BY <1>10, <1>5, <1>6, <1>7, <1>8 DEF Page
<1>11. ASSUME NEW r \in Requests, Serve(r) PROVE Lanes'
  <2>. HIDE DEF Lane
  <2>. QED BY <1>11, <1>2, <1>3, <1>4
<1>. QED BY <1>9, <1>10, <1>11 DEF Next

\* What no step takes away: parts covered stay covered.
LEMMA CoveredGrows ==
    ASSUME TypeOK, RequestsOK, [Next]_vars, NEW v \in Uploads
    PROVE  covered[v] \subseteq covered'[v]
<1>1. ASSUME NEW r \in Requests, Serve(r), ~PartFinish(r) PROVE UNCHANGED covered
  BY <1>1 DEF Serve, Expire, DiscardStale, Open, PartFind, PartAttach, PartWrite, PartFree, CommitFind,
     CommitCheck, CommitTake, CommitRename, CommitClose, CommitForget, Delete, server
<1>2. ASSUME NEW r \in Requests, PartFinish(r) PROVE covered[v] \subseteq covered'[v]
  BY <1>2 DEF PartFinish, TypeOK
<1>3. Page => UNCHANGED covered
  BY DEF Page, SendOpen, SendCommit, SendDelete, SendPart, Cancel, Lose, server
<1>. QED BY <1>1, <1>2, <1>3 DEF Next, vars, server

\* The page's own steps start no work on a part but SendPart, and change no
\* request's progress.
LEMMA PageKeeps ==
    ASSUME TypeOK, Page, NEW q \in Requests
    PROVE  /\ UNCHANGED server
           /\ \/ /\ req'[q].u = req[q].u /\ req'[q].at = req[q].at /\ req'[q].p = req[q].p
                 /\ req'[q].fd = req[q].fd
              \/ req'[q].at \in {"expire", "commit:find", "cancel"}
              \/ \E u \in Uploads, p \in Parts : /\ SendPart(q, u, p) /\ req'[q].at = "part:find"
                                                 /\ req'[q].u = u /\ req'[q].p = p
<1>1. UNCHANGED server
  BY DEF Page, SendOpen, SendCommit, SendDelete, SendPart, Cancel, Lose
<1>2. ASSUME NEW r \in Requests, NEW u \in Uploads, SendOpen(r, u) \/ SendCommit(r, u) \/ SendDelete(r, u)
      PROVE  \/ req'[q] = req[q]
             \/ req'[q].at \in {"expire", "commit:find", "cancel"}
  BY <1>2, SendFacts, DeleteFacts DEF Others
<1>3. ASSUME NEW r \in Requests, NEW u \in Uploads, NEW p \in Parts, SendPart(r, u, p)
      PROVE  \/ req'[q] = req[q]
             \/ SendPart(q, u, p) /\ req'[q].at = "part:find" /\ req'[q].u = u /\ req'[q].p = p
  <2>1. Others(r) /\ req'[r].at = "part:find" /\ req'[r].u = u /\ req'[r].p = p
    BY <1>3, SendFacts
  <2>2. q # r => req'[q] = req[q]
    BY <2>1 DEF Others
  <2>. QED BY <1>3, <2>1, <2>2
<1>4. ASSUME NEW u \in Uploads, Cancel(u)
      PROVE  /\ req'[q].u = req[q].u /\ req'[q].at = req[q].at /\ req'[q].p = req[q].p
             /\ req'[q].fd = req[q].fd
  BY <1>4, CancelFacts DEF SameUpload
<1>5. ASSUME NEW r \in Requests, Lose(r)
      PROVE  /\ req'[q].u = req[q].u /\ req'[q].at = req[q].at /\ req'[q].p = req[q].p
             /\ req'[q].fd = req[q].fd
  BY <1>5, UnheardFacts DEF Lose, Others, SameUpload
<1>. QED BY <1>1, <1>2, <1>3, <1>4, <1>5 DEF Page

\* Every step keeps a commit alone: with its parts covered and nobody attached, no part
\* is on its way and none can be sent.
LEMMA CommitAloneStep ==
    ASSUME SessionsInv, Lanes, CommitAlone, [Next]_vars
    PROVE  CommitAlone'
<1>. USE DEF SessionsInv
<1>1. ASSUME NEW r \in Requests, Serve(r) PROVE CommitAlone'
  <2>0. Others(r) /\ req[r].u \in Uploads /\ (req'[r] = Idle \/ SameUpload(r))
    BY <1>1, ServedUpload
  <2>1. \A q \in Requests : req'[q].at \in PartSteps => req[q].at \in PartSteps /\ req'[q].u = req[q].u
    <3>1. req'[r].at \in PartSteps => req[r].at \in PartSteps /\ req'[r].u = req[r].u
      <4>1. CASE Expire(r) \/ DiscardStale(r) \/ Open(r) \/ Delete(r) \/ PartFinish(r) \/ PartFree(r)
        BY <4>1, ServeFacts, DiscardFacts, IdleFields DEF PartSteps
      <4>2. CASE PartFind(r) \/ PartAttach(r) \/ PartWrite(r)
        BY <4>2, ServeFacts, IdleFields DEF PartSteps, PartFind, PartAttach, PartWrite, SameUpload
      <4>3. CASE CommitFind(r) \/ CommitCheck(r) \/ CommitTake(r) \/ CommitRename(r) \/ CommitClose(r)
                 \/ CommitForget(r)
        BY <4>3, ServeFacts, IdleFields DEF PartSteps
      <4>. QED BY <1>1, <4>1, <4>2, <4>3 DEF Serve
    <3>. QED BY <2>0, <3>1 DEF Others
  <2>2. ASSUME NEW c \in Requests, req'[c].at \in Taking
        PROVE  /\ req'[c].u = req[c].u /\ req[c].u \in Uploads
               /\ \/ req[c].at \in Taking
                  \/ MayCommit(req[c].u)
    <3>1. CASE c # r
      BY <2>0, <2>2, <3>1 DEF Others, Taking, RequestsOK
    <3>2. CASE c = r
      <4>1. req'[r].u = req[r].u
        BY <2>0, <2>2, <3>2, IdleFields DEF SameUpload, Taking
      <4>2. req[r].at \in Taking \/ MayCommit(req[r].u)
        <5>1. CASE Expire(r) \/ DiscardStale(r) \/ Open(r) \/ Delete(r) \/ PartFinish(r) \/ PartFree(r)
                   \/ PartFind(r) \/ PartAttach(r) \/ PartWrite(r) \/ CommitFind(r) \/ CommitForget(r)
          BY <2>2, <3>2, <5>1, ServeFacts, DiscardFacts, IdleFields DEF Taking
        <5>2. CASE CommitCheck(r)
          BY <2>2, <3>2, <5>2, ServeFacts, IdleFields DEF Taking
        <5>3. CASE CommitTake(r) \/ CommitRename(r) \/ CommitClose(r)
          BY <5>3 DEF CommitTake, CommitRename, CommitClose, Taking
        <5>. QED BY <1>1, <5>1, <5>2, <5>3 DEF Serve
      <4>. QED BY <2>0, <3>2, <4>1, <4>2
    <3>. QED BY <3>1, <3>2
  <2>3. ASSUME NEW u \in Uploads, MayCommit(u)
        PROVE  covered[u] = Parts /\ \A q \in Requests : req[q].u = u => req[q].at \notin PartSteps
    <3>1. covered[u] = Parts /\ writers[u] = 0
      BY <2>3 DEF MayCommit
    <3>2. Attached(u) = {}
      BY <3>1, AttachedFinite DEF WritersCount
    <3>3. ASSUME NEW q \in Requests, req[q].u = u, req[q].at \in PartSteps PROVE FALSE
      <4>1. req[q].p \in Parts
        BY <3>3 DEF RequestsOK
      <4>2. ~Live(q, u, req[q].p)
        BY <3>1, <4>1 DEF Lanes
      <4>. QED BY <3>2, <3>3, <4>2 DEF Live, Attached, PartSteps
    <3>. QED BY <3>1, <3>3
  <2>4. ASSUME NEW c \in Requests, req'[c].at \in Taking
        PROVE  /\ covered'[req'[c].u] = Parts
               /\ \A q \in Requests : req'[q].u = req'[c].u => req'[q].at \notin PartSteps
    <3>1. covered[req[c].u] = Parts /\ \A q \in Requests : req[q].u = req[c].u => req[q].at \notin PartSteps
      BY <2>2, <2>3, <2>4 DEF CommitAlone, Taking
    <3>2. Parts \subseteq covered'[req[c].u]
      BY <2>2, <2>4, <3>1, CoveredGrows
    <3>3. covered'[req[c].u] \subseteq Parts
      BY <2>2, <2>4, TypesStep DEF TypeOK
    <3>. QED BY <2>1, <2>2, <2>4, <3>1, <3>2, <3>3
  <2>. QED BY <2>4 DEF CommitAlone, Taking
<1>2. CASE Page
  <2>1. \A c \in Requests : req'[c].at \in Taking => req[c].at \in Taking /\ req'[c].u = req[c].u
    BY <1>2, PageKeeps DEF Taking
  <2>2. UNCHANGED covered
    BY <1>2 DEF Page, SendOpen, SendCommit, SendDelete, SendPart, Cancel, Lose, server
  <2>3. ASSUME NEW c \in Requests, NEW q \in Requests, req'[c].at \in Taking,
               req'[q].u = req'[c].u, req'[q].at \in PartSteps
        PROVE  FALSE
    <3>1. req[c].at \in Taking /\ req'[c].u = req[c].u
      BY <2>1, <2>3
    <3>2. covered[req[c].u] = Parts /\ \A k \in Requests : req[k].u = req[c].u => req[k].at \notin PartSteps
      BY <3>1 DEF CommitAlone, Taking
    <3>3. ~(req'[q].u = req[q].u /\ req'[q].at = req[q].at)
      BY <2>3, <3>1, <3>2
    <3>4. PICK u \in Uploads, p \in Parts : SendPart(q, u, p) /\ req'[q].u = u
      BY <1>2, <2>3, <3>3, PageKeeps DEF PartSteps
    <3>5. Resendable(u, p)
      BY <3>4 DEF SendPart, Resendable
    <3>. QED BY <2>3, <3>1, <3>2, <3>4, <3>5 DEF Lanes
  <2>. QED BY <2>1, <2>2, <2>3 DEF CommitAlone, Taking
<1>3. CASE UNCHANGED vars
  BY <1>3 DEF vars, server, CommitAlone
<1>. QED BY <1>1, <1>2, <1>3 DEF Next

\* While no commit has taken its session, a writer's descriptor is open on its file.
LEMMA WriterOwns ==
    ASSUME SessionsInv, CommitAlone, Writing, NEW r \in Requests, req[r].at \in Writes
    PROVE  req[r].u \in Uploads /\ req[r].fd \in Fds /\ openFile[req[r].fd] = req[r].u
<1>1. req[r].u \in Uploads /\ req[r].fd \in Fds
  BY DEF SessionsInv, RequestsOK, Writes
<1>2. ~\E q \in Requests : req[q].u = req[r].u /\ req[q].at = "commit:forget"
  BY DEF CommitAlone, Writes, PartSteps
<1>. QED BY <1>1, <1>2 DEF SessionsInv, Descriptors, Forgetting, Writing

\* Every step keeps the writers' descriptors: a close finds no writer but the one leaving.
LEMMA WritingStep ==
    ASSUME SessionsInv, CommitAlone, Writing, [Next]_vars
    PROVE  Writing'
<1>. USE DEF SessionsInv
<1>1. ASSUME NEW r \in Requests, Serve(r) PROVE Writing'
  <2>0. Others(r) /\ req[r].u \in Uploads
    BY <1>1, ServedUpload
  <2>1. ASSUME NEW q \in Requests, req'[q].at \in Writes
        PROVE  fd'[req'[q].u] # None /\ req'[q].fd = fd'[req'[q].u]
    <3>1. CASE q = r
      <4>1. CASE PartAttach(r)
        BY <2>1, <3>1, <4>1, ServeFacts, IdleFields DEF PartAttach, SameUpload, Writes
      <4>2. CASE PartWrite(r)
        BY <2>1, <3>1, <4>2, ServeFacts DEF PartWrite, SameUpload, Writing
      <4>3. CASE ~PartAttach(r) /\ ~PartWrite(r)
        BY <1>1, <2>1, <3>1, <4>3, ServeFacts, DiscardFacts, IdleFields DEF Serve, Writes
      <4>. QED BY <4>1, <4>2, <4>3
    <3>2. CASE q # r
      <4>0. req'[q] = req[q]
        BY <2>0, <3>2 DEF Others
      <4>1. PICK v \in Uploads : v = req[q].u
        BY <2>1, <4>0 DEF RequestsOK, Writes
      <4>2. fd[v] # None /\ req[q].fd = fd[v] /\ q \in Attached(v) /\ req[q].at \in PartSteps
        BY <2>1, <4>0, <4>1 DEF Writing, Writes, Attached, PartSteps
      <4>3. writers[v] > 0
        <5>1. Cardinality(Attached(v)) # 0 /\ Cardinality(Attached(v)) \in Nat
          BY <4>2, AttachedFinite
        <5>. QED BY <5>1 DEF WritersCount
      <4>4. fd'[v] = fd[v]
        <5>1. CASE Expire(r) \/ PartFind(r) \/ PartAttach(r) \/ PartWrite(r) \/ CommitFind(r)
                   \/ CommitCheck(r) \/ CommitTake(r) \/ CommitRename(r) \/ CommitClose(r)
          BY <5>1 DEF Expire, PartFind, PartAttach, PartWrite, CommitFind, CommitCheck, CommitTake,
             CommitRename, CommitClose, server
        <5>2. CASE DiscardStale(r)
          <6>1. UNCHANGED fd \/ \E u \in Uploads : DiscardOf(u)
            BY <5>2, DiscardFacts
          <6>. QED BY <4>3, <6>1 DEF DiscardOf, CloseNow, TypeOK
        <5>3. CASE Delete(r)
          BY <2>0, <4>3, <5>3 DEF Delete, DiscardOf, CloseNow, TypeOK
        <5>4. CASE Open(r)
          <6>1. v # req[r].u
            BY <3>2, <4>1, <5>4 DEF Open, OpenOnce, Opening
          <6>. QED BY <2>0, <5>4, <6>1 DEF Open, TypeOK
        <5>5. CASE PartFinish(r) \/ PartFree(r)
          <6>1. writers[v] = 1 => v # req[r].u
            <7>1. SUFFICES ASSUME writers[v] = 1, v = req[r].u PROVE FALSE
              OBVIOUS
            <7>2. Attached(v) = {r}
              BY <5>5, <7>1, WritersLeft DEF PartFinish, PartFree
            <7>. QED BY <3>2, <4>2, <7>2
          <6>. QED BY <2>0, <5>5, <6>1 DEF PartFinish, PartFree, Leave, TypeOK
        <5>6. CASE CommitForget(r)
          <6>1. v # req[r].u
            BY <4>1, <4>2, <5>6 DEF CommitForget, CommitAlone
          <6>. QED BY <2>0, <5>6, <6>1 DEF CommitForget, TypeOK
        <5>. QED BY <1>1, <5>1, <5>2, <5>3, <5>4, <5>5, <5>6 DEF Serve
      <4>. QED BY <4>0, <4>1, <4>2, <4>4
    <3>. QED BY <3>1, <3>2
  <2>. QED BY <2>1 DEF Writing, Writes
<1>2. CASE Page
  <2>1. \A q \in Requests : req'[q].at \in Writes =>
          req[q].at \in Writes /\ req'[q].u = req[q].u /\ req'[q].fd = req[q].fd
    BY <1>2, PageKeeps DEF Writes
  <2>2. ASSUME NEW q \in Requests PROVE UNCHANGED fd
    BY <1>2, PageKeeps DEF server
  <2>. QED BY <2>1, <2>2 DEF Writing, Writes
<1>3. CASE UNCHANGED vars
  BY <1>3 DEF vars, server, Writing
<1>. QED BY <1>1, <1>2, <1>3 DEF Next

\* Every step keeps the bytes where they belong.
LEMMA BytesStep ==
    ASSUME SessionsInv, CommitAlone, Writing, Bytes, OnlyWholeFiles, [Next]_vars
    PROVE  Bytes' /\ OnlyWholeFiles'
<1>. USE DEF SessionsInv
<1>0. /\ \A u \in Uploads, p \in Parts : content[u][p] \in {u, None}
      /\ \A u \in Uploads, p \in Parts : p \in covered[u] => content[u][p] = u
      /\ \A r \in Requests : req[r].at = "part:finish" => content[req[r].u][req[r].p] = req[r].u
      /\ \A u \in Uploads : (\E n \in Names : folder[n] = u) => \A p \in Parts : content[u][p] = u
  BY DEF Bytes, OwnBytes, OnlyWholeFiles
\* A file's own bytes only grow.
<1>1. ASSUME NEW r \in Requests, PartWrite(r)
      PROVE  /\ \A u \in Uploads, p \in Parts :
                  content'[u][p] = content[u][p] \/ content'[u][p] = u
             /\ req'[r].at = "part:finish" => content'[req[r].u][req[r].p] = req[r].u
  <2>1. PICK u \in Uploads, k \in Parts : u = req[r].u /\ k = req[r].p /\ openFile[req[r].fd] = u
    BY <1>1, WriterOwns DEF PartWrite, Writes, RequestsOK, PartSteps
  <2>2. CASE content' = [content EXCEPT ![u][k] = u]
    <3>1. content' = [content EXCEPT ![u] = [content[u] EXCEPT ![k] = u]]
      BY <2>2
    <3>. QED BY <2>1, <3>1 DEF TypeOK
  <2>3. CASE UNCHANGED content /\ req' = [req EXCEPT ![r].at = "part:free", ![r].heard = FALSE]
    BY <2>3, RefusedFacts
  <2>. QED BY <1>1, <2>1, <2>2, <2>3 DEF PartWrite
<1>2. ASSUME NEW r \in Requests, Serve(r), ~PartWrite(r) PROVE UNCHANGED content
  BY <1>2 DEF Serve, Expire, DiscardStale, Open, PartFind, PartAttach, PartFinish, PartFree, CommitFind,
     CommitCheck, CommitTake, CommitRename, CommitClose, CommitForget, Delete, server
<1>3. ASSUME NEW r \in Requests, Serve(r) PROVE Bytes' /\ OnlyWholeFiles'
  <2>0. Others(r) /\ req[r].u \in Uploads
    BY <1>3, ServedUpload
  <2>1. \A u \in Uploads, p \in Parts : content'[u][p] = content[u][p] \/ content'[u][p] = u
    BY <1>1, <1>2, <1>3
  <2>2. OwnBytes'
    BY <1>0, <2>1 DEF OwnBytes
  <2>3. ASSUME NEW u \in Uploads, NEW p \in Parts, p \in covered'[u] PROVE content'[u][p] = u
    <3>1. CASE p \in covered[u]
      BY <1>0, <2>1, <3>1
    <3>2. CASE p \notin covered[u]
      <4>1. PartFinish(r)
        BY <1>3, <2>3, <3>2 DEF Serve, Expire, DiscardStale, Open, PartFind, PartAttach, PartWrite,
           PartFree, CommitFind, CommitCheck, CommitTake, CommitRename, CommitClose, CommitForget,
           Delete, server
      <4>2. u = req[r].u /\ p = req[r].p /\ req[r].at = "part:finish"
        BY <2>0, <2>3, <3>2, <4>1 DEF PartFinish, TypeOK
      <4>. QED BY <1>0, <2>1, <4>2
    <3>. QED BY <3>1, <3>2
  <2>4. ASSUME NEW q \in Requests, req'[q].at = "part:finish"
        PROVE  content'[req'[q].u][req'[q].p] = req'[q].u
    <3>1. CASE q # r
      <4>1. req'[q] = req[q]
        BY <2>0, <3>1 DEF Others
      <4>2. req[q].u \in Uploads /\ req[q].p \in Parts
        BY <2>4, <4>1 DEF RequestsOK, PartSteps
      <4>. QED BY <1>0, <2>1, <2>4, <4>1, <4>2
    <3>2. CASE q = r
      <4>1. PartWrite(r)
        BY <1>3, <2>4, <3>2, ServeFacts, DiscardFacts, IdleFields DEF Serve
      <4>2. SameUpload(r)
        BY <4>1, ServeFacts
      <4>. QED BY <1>1, <2>4, <3>2, <4>1, <4>2 DEF SameUpload
    <3>. QED BY <3>1, <3>2
  <2>5. ASSUME NEW u \in Uploads, NEW n \in Names, folder'[n] = u, NEW p \in Parts
        PROVE  content'[u][p] = u
    <3>1. CASE folder[n] = u
      BY <1>0, <2>1, <3>1
    <3>2. CASE folder[n] # u
      <4>1. CommitRename(r)
        BY <1>3, <2>5, <3>2 DEF Serve, Expire, DiscardStale, Open, PartFind, PartAttach, PartWrite,
           PartFinish, PartFree, CommitFind, CommitCheck, CommitTake, CommitClose, CommitForget,
           Delete, server
      <4>2. u = req[r].u /\ req[r].at = "commit:rename"
        BY <2>5, <3>2, <4>1 DEF CommitRename, TypeOK
      <4>3. covered[u] = Parts
        BY <4>2 DEF CommitAlone
      <4>. QED BY <1>0, <2>1, <4>3
    <3>. QED BY <3>1, <3>2
  <2>. QED BY <2>2, <2>3, <2>4, <2>5 DEF Bytes, OnlyWholeFiles
<1>4. CASE Page
  <2>1. ASSUME NEW q \in Requests
        PROVE  /\ UNCHANGED server
               /\ req'[q].at = "part:finish" => /\ req[q].at = "part:finish" /\ req'[q].u = req[q].u
                                                /\ req'[q].p = req[q].p
    BY <1>4, PageKeeps
  <2>2. UNCHANGED server
    BY <1>4 DEF Page, SendOpen, SendCommit, SendDelete, SendPart, Cancel, Lose
  <2>. QED BY <2>1, <2>2 DEF Bytes, OwnBytes, OnlyWholeFiles, server
<1>5. CASE UNCHANGED vars
  BY <1>5 DEF vars, server, Bytes, OwnBytes, OnlyWholeFiles
<1>. QED BY <1>3, <1>4, <1>5 DEF Next

\* At the start there are no parts.
LEMMA InitParts == Init => PartsInv
<1>. SUFFICES ASSUME Init PROVE PartsInv
  OBVIOUS
<1>1. SessionsInv
  BY InitSessions
<1>2. \A r \in Requests : req[r].at = "idle" /\ req[r].u = None
  BY IdleFields DEF Init
<1>3. Lanes /\ CommitAlone /\ Writing
  BY <1>2 DEF Init, Lanes, Live, CommitAlone, Writing, Writes, Taking, Renames, PartSteps
<1>4. Bytes
  BY <1>2 DEF Init, Bytes, OwnBytes
<1>5. OnlyWholeFiles
  BY UploadAssumption DEF Init, OnlyWholeFiles
<1>. QED BY <1>1, <1>3, <1>4, <1>5 DEF PartsInv

\* When no part is sent after its connection broke, the parts' invariant holds in
\* every state.
THEOREM PartsLand == ASSUME OnceEach PROVE Spec => []PartsInv
<1>1. PartsInv /\ [Next]_vars => PartsInv'
  <2>1. SessionsInv /\ [Next]_vars => SessionsInv'
    BY TypesStep, RequestsStep, OpenStep, HolderStep, WritersStep, DescriptorsStep, EndingsStep,
       RenamedStep DEF SessionsInv
  <2>. QED BY <2>1, LanesStep, CommitAloneStep, WritingStep, BytesStep DEF PartsInv
<1>. QED BY InitParts, <1>1, PTL DEF Spec

\* While a part may write, its descriptor is open on its own upload's file: neither a
\* discard nor a commit closed it under the writer.
THEOREM WritersKeepTheirFile == ASSUME OnceEach PROVE Spec => []WriterHasItsFile
<1>1. PartsInv => WriterHasItsFile
  BY WriterOwns DEF PartsInv, WriterHasItsFile, Writes
<1>. QED BY <1>1, PartsLand, PTL

\* A file that reached its name holds every byte of its upload.
THEOREM FilesAreWhole == ASSUME OnceEach PROVE Spec => []OnlyWholeFiles
<1>1. PartsInv => OnlyWholeFiles
  BY DEF PartsInv
<1>. QED BY <1>1, PartsLand, PTL

\* No file ever holds a byte of another upload.
THEOREM BytesAreOwn == ASSUME OnceEach PROVE Spec => []OwnBytes
<1>1. PartsInv => OwnBytes
  BY DEF PartsInv, Bytes
<1>. QED BY <1>1, PartsLand, PTL

=============================================================================

---------------------------- MODULE Scraper_proofs ---------------------------
(***************************************************************************)
(* Proofs about Scraper, for any number of jobs, games, workers, kinds and *)
(* sources: a game is in one worker's hands or in none, and what a job     *)
(* says of itself is so, in memory and in its file.                        *)
(*                                                                         *)
(* The invariant says of each worker what it has in hand, of each game who *)
(* has it, and of each job's file that it could be read back now.          *)
(***************************************************************************)
EXTENDS Scraper, FiniteSetTheorems, WellFoundedInduction, TLAPS

-----------------------------------------------------------------------------
(* The inductive invariant.                                                *)

Pcs   == {"idle", "look", "turn", "slot", "begin", "source", "prepare", "ask", "fetch", "quota", "weigh",
          "move", "release"}
Helds == {"none", "ambiguous", "unmatched", "failed"}

ItemRecs == [st : ItemStates, pass : Nat, holder : Workers \cup {None}, started : BOOLEAN,
             got : SUBSET Kinds, matched : BOOLEAN, matches : SUBSET Sources, cands : BOOLEAN,
             from : Sources \cup {None}, held : Helds]
ItemMaps == UNION {[G -> ItemRecs] : G \in SUBSET Games}
JobRecs  == [st : JobStates, pass : Nat, chain : Seq(Sources), kinds : SUBSET Kinds,
             overwrite : BOOLEAN, items : ItemMaps]
WorkerRecs == [pc : Pcs, job : Jobs \cup {None}, game : Games \cup {None}, old : ItemRecs, src : Nat,
               todo : SUBSET Kinds, hit : BOOLEAN, miss : BOOLEAN, matched : BOOLEAN, cands : BOOLEAN]
Budgets == [requests : SUBSET Asked, start : Nat, cancel : Nat, resume : Nat, skip : Nat,
            choose : Nat, search : Nat, quota : Nat, crash : Nat]

Types ==
    /\ jobs \in [Jobs -> JobRecs] /\ disk \in [Jobs -> JobRecs] /\ worker \in [Workers -> WorkerRecs]
    /\ active \in Jobs \cup {None} /\ cancelling \in BOOLEAN /\ stored \subseteq Games \X Kinds
    /\ budget \in Budgets

\* A job that was not started has no games; one that has games has sources, and a game's
\* pass is one of them or the first.
Begun(job) ==
    /\ job.st = "none" => DOMAIN job.items = {}
    /\ DOMAIN job.items # {} => Len(job.chain) > 0
    /\ job.pass > 0
    /\ \A g \in DOMAIN job.items : job.items[g].pass > 0

\* A job that is done: every game has its end and is in no one's hands.
Settled(job) == job.st = "done" =>
    \A g \in DOMAIN job.items : job.items[g].st \in Final /\ job.items[g].holder = None

\* What a job's file holds: no game in hand, none mid-way.
AtRest(job) == \A g \in DOMAIN job.items : job.items[g].st # "working" /\ job.items[g].holder = None
JobOK(j) ==
    /\ Begun(jobs[j]) /\ Begun(disk[j]) /\ Settled(jobs[j]) /\ Settled(disk[j]) /\ AtRest(disk[j])
    /\ disk[j].st = jobs[j].st /\ disk[j].pass = jobs[j].pass

\* A worker's game carries its number until the worker lets go of it, shown as working no
\* more by then; what the worker is still to ask for, the job has not found.
Asking == {"turn", "slot", "begin", "source", "prepare", "ask", "fetch"}
InHand(w) == worker[w].pc # "idle" =>
    /\ worker[w].job \in Jobs /\ worker[w].game \in GamesOf(worker[w].job)
    /\ worker[w].src \in 1..Len(ChainOf(w))
    /\ ItemOf(w).holder = w
    /\ worker[w].pc = "release" => ItemOf(w).st # "working"
    /\ worker[w].pc \in Asking /\ Funnel(w) => worker[w].todo \cap ItemOf(w).got = {}

\* A game that carries a worker's number is that worker's, and one that is working has one.
ItemHeld(j, g) == LET it == jobs[j].items[g] IN
    /\ it.holder # None => /\ worker[it.holder].pc # "idle" /\ worker[it.holder].job = j
                           /\ worker[it.holder].game = g
    /\ it.st = "working" => it.holder # None

ScraperInv ==
    /\ Types
    /\ \A j \in Jobs : JobOK(j) /\ \A g \in GamesOf(j) : ItemHeld(j, g)
    /\ \A w \in Workers : InHand(w)

USE DEF ItemStates, Final, JobStates, Pcs, Helds

-----------------------------------------------------------------------------
(* What the helpers return.                                                *)

\* The least of a set of numbers is one of them.
LEMMA FirstIsOne == ASSUME NEW S \in SUBSET Nat, S # {} PROVE First(S) \in S
<1>1. PICK n \in S : \A m \in S : ~(<<m, n>> \in OpToRel(<, Nat))
  BY WFMin, NatLessThanWellFounded
<1>2. \A m \in S : ~(m < n)
  BY <1>1 DEF OpToRel
<1>3. \A m \in S : n <= m
  BY <1>2
<1> QED
  BY <1>3 DEF First

\* A game as a job starts with it has its fields.
LEMMA Item0Type == Item0 \in ItemRecs
  BY DEF Item0, ItemRecs

\* A worker that has nothing in hand has its fields too.
LEMMA IdleType == Idle \in WorkerRecs
  BY Item0Type DEF Idle, WorkerRecs

\* The fields of a job, and of each of its games.
LEMMA JobType == ASSUME NEW b \in JobRecs PROVE
    /\ b.st \in JobStates /\ b.pass \in Nat /\ b.chain \in Seq(Sources) /\ b.kinds \subseteq Kinds
    /\ b.overwrite \in BOOLEAN
    /\ DOMAIN b.items \subseteq Games /\ b.items \in [DOMAIN b.items -> ItemRecs]
    /\ \A g \in DOMAIN b.items : g \in Games /\ b.items[g] \in ItemRecs
<1>1. b.items \in ItemMaps
  BY DEF JobRecs
<1>2. PICK G \in SUBSET Games : b.items \in [G -> ItemRecs]
  BY <1>1 DEF ItemMaps
<1> QED
  BY <1>2 DEF JobRecs

\* A job that was not started is one too, without games.
LEMMA Job0Type == Job0 \in JobRecs /\ DOMAIN Job0.items = {}
<1>1. <<>> \in [{} -> ItemRecs]
  OBVIOUS
<1>2. <<>> \in ItemMaps
  BY <1>1 DEF ItemMaps
<1>3. <<>> \in Seq(Sources)
  OBVIOUS
<1> QED
  BY <1>2, <1>3 DEF Job0, JobRecs

\* What is saved of a job: its games, put back and let go of.
LEMMA SavedType == ASSUME NEW b \in JobRecs PROVE
    /\ Saved(b) \in JobRecs /\ AtRest(Saved(b))
    /\ Saved(b).st = b.st /\ Saved(b).pass = b.pass /\ Saved(b).chain = b.chain
    /\ Begun(b) => Begun(Saved(b))
    /\ Settled(b) => Settled(Saved(b))
<1> DEFINE f == [g \in DOMAIN b.items |-> SavedItem(b.items[g])]
<1>1. ASSUME NEW g \in DOMAIN b.items
      PROVE /\ SavedItem(b.items[g]) \in ItemRecs
            /\ SavedItem(b.items[g]).holder = None /\ SavedItem(b.items[g]).st # "working"
            /\ SavedItem(b.items[g]).pass = b.items[g].pass
            /\ b.items[g].st \in Final => SavedItem(b.items[g]).st \in Final
  <2>1. b.items[g] \in ItemRecs
    BY JobType
  <2> QED
    BY <2>1 DEF SavedItem, Waiting, ItemRecs
<1>2. f \in [DOMAIN b.items -> ItemRecs]
  BY <1>1
<1>3. b.items \in [DOMAIN b.items -> ItemRecs]
  BY JobType
<1>4. f \in ItemMaps
  BY <1>2, JobType DEF ItemMaps
<1>5. /\ Saved(b) \in JobRecs /\ Saved(b).items = f /\ DOMAIN Saved(b).items = DOMAIN b.items
      /\ Saved(b).st = b.st /\ Saved(b).pass = b.pass /\ Saved(b).chain = b.chain
  BY <1>4 DEF Saved, JobRecs
<1>6. \A g \in DOMAIN b.items : /\ f[g].holder = None /\ f[g].st # "working" /\ f[g].pass = b.items[g].pass
                                /\ b.items[g].st \in Final => f[g].st \in Final
  BY <1>1
<1> HIDE DEF f
<1>7. AtRest(Saved(b))
  BY <1>5, <1>6 DEF AtRest
<1>8. Begun(b) => Begun(Saved(b))
  BY <1>5, <1>6 DEF Begun
<1>9. Settled(b) => Settled(Saved(b))
  BY <1>5, <1>6 DEF Settled
<1> QED
  BY <1>5, <1>7, <1>8, <1>9

\* What a write into a game changes: that game, and only it.
Wrote(j0, g0, it) ==
    /\ jobs' \in [Jobs -> JobRecs]
    /\ \A j \in Jobs : /\ jobs'[j].st = jobs[j].st /\ jobs'[j].pass = jobs[j].pass
                       /\ jobs'[j].chain = jobs[j].chain /\ DOMAIN jobs'[j].items = GamesOf(j)
    /\ \A j \in Jobs : \A g \in GamesOf(j) : jobs'[j].items[g] =
           IF j = j0 /\ g = g0 THEN it ELSE jobs[j].items[g]

\* A write into one game is such a write.
LEMMA ItemFacts == ASSUME Types, NEW j0 \in Jobs, NEW g0 \in GamesOf(j0), NEW it \in ItemRecs,
                          jobs' = [jobs EXCEPT ![j0].items[g0] = it]
    PROVE Wrote(j0, g0, it)
<1> DEFINE f == [jobs[j0].items EXCEPT ![g0] = it]
           b == [jobs[j0] EXCEPT !.items = f]
<1>1. jobs[j0] \in JobRecs /\ jobs \in [Jobs -> JobRecs]
  BY DEF Types
<1>2. jobs[j0].items \in [DOMAIN jobs[j0].items -> ItemRecs] /\ g0 \in DOMAIN jobs[j0].items
  BY <1>1, JobType DEF GamesOf
<1>3. f \in [DOMAIN jobs[j0].items -> ItemRecs]
  BY <1>2
<1>4. f \in ItemMaps
  BY <1>1, <1>3, JobType DEF ItemMaps
<1>5. jobs' = [jobs EXCEPT ![j0] = b]
  BY <1>1
<1>6. /\ b \in JobRecs /\ b.st = jobs[j0].st /\ b.pass = jobs[j0].pass /\ b.chain = jobs[j0].chain
      /\ b.items = f
  BY <1>1, <1>4 DEF JobRecs
<1>7. \A g \in DOMAIN jobs[j0].items : f[g] = IF g = g0 THEN it ELSE jobs[j0].items[g]
  BY <1>2
<1>8. DOMAIN f = DOMAIN jobs[j0].items
  BY <1>2
<1> HIDE DEF f, b
<1>9. \A j \in Jobs : jobs'[j] = IF j = j0 THEN b ELSE jobs[j]
  BY <1>1, <1>5
<1>10. jobs' \in [Jobs -> JobRecs]
  BY <1>1, <1>5, <1>6
<1>11. ASSUME NEW j \in Jobs
       PROVE  /\ jobs'[j].st = jobs[j].st /\ jobs'[j].pass = jobs[j].pass
              /\ jobs'[j].chain = jobs[j].chain /\ DOMAIN jobs'[j].items = GamesOf(j)
  BY <1>6, <1>8, <1>9 DEF GamesOf
<1>12. ASSUME NEW j \in Jobs, NEW g \in GamesOf(j)
       PROVE  jobs'[j].items[g] = IF j = j0 /\ g = g0 THEN it ELSE jobs[j].items[g]
  BY <1>6, <1>7, <1>9 DEF GamesOf
<1> QED
  BY <1>10, <1>11, <1>12 DEF Wrote

\* Such a write by a worker, of the game it has.
LEMMA PutFacts == ASSUME Types, NEW w \in Workers, worker[w].job \in Jobs,
                         worker[w].game \in GamesOf(worker[w].job), NEW it \in ItemRecs, PutItem(w, it)
    PROVE Wrote(worker[w].job, worker[w].game, it)
<1>1. PICK j0 \in Jobs, g0 \in Games : j0 = worker[w].job /\ g0 = worker[w].game /\ g0 \in GamesOf(j0)
  <2>1. jobs[worker[w].job] \in JobRecs
    BY DEF Types
  <2> QED
    BY <2>1, JobType DEF GamesOf
<1>2. jobs' = [jobs EXCEPT ![j0].items[g0] = it]
  BY <1>1 DEF PutItem
<1>3. Wrote(j0, g0, it)
  BY <1>1, <1>2, ItemFacts
<1> QED
  BY <1>1, <1>3

-----------------------------------------------------------------------------
(* How a step of each sort keeps the invariant.                            *)

\* A worker is at its own game: no one else's, and not one of a job that is done.
LEMMA Hand == ASSUME ScraperInv, NEW w \in Workers, worker[w].pc # "idle"
    PROVE /\ worker[w].job \in Jobs /\ worker[w].game \in GamesOf(worker[w].job)
          /\ worker[w].src \in 1..Len(ChainOf(w)) /\ SourceOf(w) \in Sources
          /\ worker[w].src \in Nat /\ Len(ChainOf(w)) \in Nat
          /\ JobOf(w) \in JobRecs /\ ItemOf(w) \in ItemRecs /\ worker[w] \in WorkerRecs
          /\ ItemOf(w).holder = w /\ ItemOf(w).pass > 0 /\ w # None
          /\ JobOf(w).st # "done"
          /\ worker[w].pc = "release" => ItemOf(w).st # "working"
          /\ worker[w].pc \in Asking /\ Funnel(w) => worker[w].todo \cap ItemOf(w).got = {}
<1>1. /\ InHand(w) /\ worker[w] \in WorkerRecs /\ jobs \in [Jobs -> JobRecs] /\ w # None
  BY ScraperAssumption DEF ScraperInv, Types
<1>2. /\ worker[w].job \in Jobs /\ worker[w].game \in GamesOf(worker[w].job)
      /\ worker[w].src \in 1..Len(ChainOf(w)) /\ ItemOf(w).holder = w
      /\ worker[w].pc = "release" => ItemOf(w).st # "working"
      /\ worker[w].pc \in Asking /\ Funnel(w) => worker[w].todo \cap ItemOf(w).got = {}
  BY <1>1 DEF InHand
<1>3. JobOf(w) \in JobRecs /\ ChainOf(w) \in Seq(Sources) /\ ItemOf(w) \in ItemRecs
  BY <1>1, <1>2, JobType DEF JobOf, ChainOf, ItemOf, GamesOf
<1>4. SourceOf(w) \in Sources /\ worker[w].src \in Nat /\ Len(ChainOf(w)) \in Nat
  <2>1. \A s \in Seq(Sources) : Len(s) \in Nat /\ \A i \in 1..Len(s) : s[i] \in Sources
    OBVIOUS
  <2> QED
    BY <1>2, <1>3, <2>1 DEF SourceOf
<1>5. JobOK(worker[w].job)
  BY <1>2 DEF ScraperInv
<1>6. ItemOf(w).pass > 0 /\ JobOf(w).st # "done"
  BY <1>1, <1>2, <1>5 DEF JobOK, Begun, Settled, ItemOf, JobOf, GamesOf
<1> QED
  BY <1>1, <1>2, <1>3, <1>4, <1>6

\* A worker writes its game and goes on, its hold kept.
LEMMA HandStep == ASSUME ScraperInv, NEW w \in Workers, worker[w].pc # "idle",
    NEW it \in ItemRecs, it.holder = w, it.pass > 0, PutItem(w, it),
    NEW me \in WorkerRecs, me.job = worker[w].job, me.game = worker[w].game, me.pc # "idle",
    me.src \in 1..Len(ChainOf(w)), me.pc = "release" => it.st # "working",
    me.pc \in Asking /\ Funnel(w) => me.todo \cap it.got = {},
    worker' = [worker EXCEPT ![w] = me],
    UNCHANGED disk \/ Save(worker[w].job),
    UNCHANGED <<active, cancelling>>, stored' \subseteq Games \X Kinds, budget' \in Budgets
    PROVE ScraperInv'
<1> DEFINE j0 == worker[w].job  g0 == worker[w].game
<1>1. /\ j0 \in Jobs /\ g0 \in GamesOf(j0) /\ w # None /\ JobOf(w).st # "done" /\ ItemOf(w).holder = w
  BY Hand
<1>2. Types
  BY DEF ScraperInv
<1>3. /\ jobs' \in [Jobs -> JobRecs]
      /\ \A j \in Jobs : /\ jobs'[j].st = jobs[j].st /\ jobs'[j].pass = jobs[j].pass
                         /\ jobs'[j].chain = jobs[j].chain /\ DOMAIN jobs'[j].items = GamesOf(j)
  BY <1>1, <1>2, PutFacts DEF Wrote
<1>4. \A j \in Jobs : \A g \in GamesOf(j) : jobs'[j].items[g] =
           IF j = j0 /\ g = g0 THEN it ELSE jobs[j].items[g]
  BY <1>1, <1>2, PutFacts DEF Wrote
<1>5. /\ \A v \in Workers : worker'[v] = IF v = w THEN me ELSE worker[v]
      /\ worker' \in [Workers -> WorkerRecs]
  BY <1>2 DEF Types
<1>6. ASSUME NEW j \in Jobs
      PROVE  /\ disk'[j] = disk[j] \/ (j = j0 /\ disk'[j] = Saved(jobs'[j]))
             /\ disk' \in [Jobs -> JobRecs]
  <2>1. Saved(jobs'[j0]) \in JobRecs
    BY <1>1, <1>3, SavedType
  <2>2. disk' = disk \/ disk' = [disk EXCEPT ![j0] = Saved(jobs'[j0])]
    BY DEF Save
  <2> QED
    BY <1>2, <2>1, <2>2 DEF Types
<1>7. Types'
  <2>1. disk' \in [Jobs -> JobRecs]
    BY <1>1, <1>6
  <2> QED
    BY <1>2, <1>3, <1>5, <2>1 DEF Types
<1>8. ASSUME NEW j \in Jobs PROVE JobOK(j)'
  <2>1. JobOK(j) /\ jobs'[j] \in JobRecs
    BY <1>3 DEF ScraperInv
  <2>2. Begun(jobs'[j])
    <3>1. \A g \in GamesOf(j) : jobs'[j].items[g].pass > 0
      BY <1>4, <2>1 DEF JobOK, Begun, GamesOf
    <3> QED
      BY <1>3, <2>1, <3>1 DEF JobOK, Begun, GamesOf
  <2>3. Settled(jobs'[j])
    <3>1. CASE j = j0
      BY <1>1, <1>3, <3>1 DEF Settled, JobOf
    <3>2. CASE j # j0
      BY <1>3, <1>4, <2>1, <3>2 DEF JobOK, Settled, GamesOf
    <3> QED
      BY <3>1, <3>2
  <2>4. Begun(disk'[j]) /\ Settled(disk'[j]) /\ AtRest(disk'[j])
    BY <1>6, <2>1, <2>2, <2>3, SavedType DEF JobOK
  <2>5. disk'[j].st = jobs'[j].st /\ disk'[j].pass = jobs'[j].pass
    BY <1>3, <1>6, <2>1, SavedType DEF JobOK
  <2> QED
    BY <2>2, <2>3, <2>4, <2>5 DEF JobOK
<1>9. ASSUME NEW j \in Jobs, NEW g \in GamesOf(j)' PROVE ItemHeld(j, g)'
  <2>1. g \in GamesOf(j)
    BY <1>3 DEF GamesOf
  <2>2. ItemHeld(j, g) /\ jobs[j].items[g] \in ItemRecs
    <3>1. jobs[j] \in JobRecs
      BY <1>2 DEF Types
    <3> QED
      BY <2>1, <3>1, JobType DEF ScraperInv, GamesOf
  <2>3. CASE j = j0 /\ g = g0
    <3>1. jobs'[j].items[g] = it /\ worker'[w] = me
      BY <1>4, <1>5, <2>1, <2>3
    <3> QED
      BY <1>1, <2>3, <3>1 DEF ItemHeld
  <2>4. CASE ~(j = j0 /\ g = g0)
    <3> DEFINE h == jobs[j].items[g].holder
    <3>1. jobs'[j].items[g] = jobs[j].items[g]
      BY <1>4, <2>1, <2>4
    <3>2. h # None => h \in Workers /\ h # w
      BY <2>2, <2>4 DEF ItemHeld, ItemRecs
    <3>3. h # None => worker'[h] = worker[h]
      BY <1>5, <3>2
    <3> QED
      BY <2>2, <3>1, <3>3 DEF ItemHeld
  <2> QED
    BY <2>3, <2>4
<1>10. ASSUME NEW v \in Workers PROVE InHand(v)'
  <2>1. CASE v = w
    <3>1. worker'[w] = me /\ jobs'[j0].items[g0] = it
      BY <1>1, <1>4, <1>5
    <3>2. g0 \in DOMAIN jobs'[j0].items /\ jobs'[j0].chain = jobs[j0].chain
      BY <1>1, <1>3
    <3> QED
      BY <1>1, <2>1, <3>1, <3>2 DEF InHand, GamesOf, ItemOf, ChainOf, Funnel
  <2>2. CASE v # w
    <3>1. worker'[v] = worker[v] /\ InHand(v)
      BY <1>5, <2>2 DEF ScraperInv
    <3> SUFFICES ASSUME worker[v].pc # "idle" PROVE InHand(v)'
      BY <3>1 DEF InHand
    <3>2. worker[v].job \in Jobs /\ worker[v].game \in GamesOf(worker[v].job) /\ ItemOf(v).holder = v
      BY Hand
    <3>3. jobs'[worker[v].job].items[worker[v].game] = ItemOf(v)
      BY <1>1, <1>4, <2>2, <3>2 DEF ItemOf
    <3>4. /\ worker[v].game \in DOMAIN jobs'[worker[v].job].items
          /\ jobs'[worker[v].job].chain = jobs[worker[v].job].chain
      BY <1>3, <3>2
    <3> QED
      BY <3>1, <3>2, <3>3, <3>4 DEF InHand, GamesOf, ItemOf, ChainOf, Funnel
  <2> QED
    BY <2>1, <2>2
<1> QED
  BY <1>7, <1>8, <1>9, <1>10 DEF ScraperInv

\* A step on a job as a whole: its games stay with who has them, and its file tells of it.
SameHands(j0, b) ==
    /\ b.chain = jobs[j0].chain /\ DOMAIN b.items = GamesOf(j0)
    /\ \A g \in GamesOf(j0) :
          /\ b.items[g].holder = jobs[j0].items[g].holder
          /\ b.items[g].got = jobs[j0].items[g].got
          /\ b.items[g].st = "working" => jobs[j0].items[g].st = "working"
Told(j0, b) == Save(j0) \/ (UNCHANGED disk /\ b.st = jobs[j0].st /\ b.pass = jobs[j0].pass)
WorkersStay == \A v \in Workers :
    /\ worker'[v].job = worker[v].job /\ worker'[v].game = worker[v].game
    /\ worker'[v].src = worker[v].src /\ worker'[v].todo = worker[v].todo
    /\ \/ worker'[v].pc = worker[v].pc
       \/ worker[v].pc # "idle" /\ worker'[v].pc = "quota"

\* A step on a job as a whole keeps the invariant.
LEMMA JobStep == ASSUME ScraperInv, NEW j0 \in Jobs, NEW b \in JobRecs,
    jobs' = [jobs EXCEPT ![j0] = b], SameHands(j0, b), Begun(b), Settled(b), Told(j0, b),
    worker' \in [Workers -> WorkerRecs], WorkersStay,
    active' \in Jobs \cup {None}, cancelling' \in BOOLEAN, UNCHANGED stored, budget' \in Budgets
    PROVE ScraperInv'
<1>10. \A v \in Workers :
          /\ worker'[v].job = worker[v].job /\ worker'[v].game = worker[v].game
          /\ worker'[v].src = worker[v].src /\ worker'[v].todo = worker[v].todo
          /\ worker'[v].pc = worker[v].pc \/ (worker[v].pc # "idle" /\ worker'[v].pc = "quota")
  BY DEF WorkersStay
<1>11. \A g \in GamesOf(j0) :
          /\ b.items[g].holder = jobs[j0].items[g].holder
          /\ b.items[g].got = jobs[j0].items[g].got
          /\ b.items[g].st = "working" => jobs[j0].items[g].st = "working"
  BY DEF SameHands
<1>1. Types /\ jobs \in [Jobs -> JobRecs]
  BY DEF ScraperInv, Types
<1>2. jobs' \in [Jobs -> JobRecs] /\ \A j \in Jobs : jobs'[j] = IF j = j0 THEN b ELSE jobs[j]
  BY <1>1
<1>3. ASSUME NEW j \in Jobs
      PROVE  jobs'[j].chain = jobs[j].chain /\ DOMAIN jobs'[j].items = GamesOf(j)
  BY <1>2 DEF GamesOf, SameHands
<1>4. ASSUME NEW j \in Jobs, NEW g \in GamesOf(j)
      PROVE  /\ jobs'[j].items[g].holder = jobs[j].items[g].holder
             /\ jobs'[j].items[g].got = jobs[j].items[g].got
             /\ jobs'[j].items[g].st = "working" => jobs[j].items[g].st = "working"
  <2>1. CASE j = j0
    <3>1. jobs'[j] = b /\ g \in GamesOf(j0) /\ jobs[j] = jobs[j0]
      BY <1>2, <2>1
    <3>2. /\ b.items[g].holder = jobs[j0].items[g].holder
          /\ b.items[g].got = jobs[j0].items[g].got
          /\ b.items[g].st = "working" => jobs[j0].items[g].st = "working"
      BY <1>11, <3>1
    <3> QED
      BY <3>1, <3>2
  <2>2. CASE j # j0
    BY <1>2, <2>2
  <2> QED
    BY <2>1, <2>2
<1>5. ASSUME NEW j \in Jobs
      PROVE  /\ \/ disk'[j] = disk[j] /\ jobs'[j].st = jobs[j].st /\ jobs'[j].pass = jobs[j].pass
                \/ disk'[j] = Saved(jobs'[j])
             /\ disk' \in [Jobs -> JobRecs]
  <2>1. Saved(jobs'[j0]) \in JobRecs /\ disk \in [Jobs -> JobRecs]
    BY <1>1, <1>2, SavedType DEF Types
  <2>2. CASE Save(j0)
    BY <1>2, <2>1, <2>2 DEF Save
  <2>3. CASE UNCHANGED disk /\ b.st = jobs[j0].st /\ b.pass = jobs[j0].pass
    BY <1>2, <2>1, <2>3
  <2> QED
    BY <2>2, <2>3 DEF Told
<1>6. Types'
  <2>1. disk' \in [Jobs -> JobRecs]
    BY <1>5
  <2> QED
    BY <1>1, <1>2, <2>1 DEF Types
<1>7. ASSUME NEW j \in Jobs PROVE JobOK(j)'
  <2>1. JobOK(j) /\ jobs'[j] \in JobRecs
    BY <1>2 DEF ScraperInv
  <2>2. Begun(jobs'[j]) /\ Settled(jobs'[j])
    BY <1>2, <2>1 DEF JobOK
  <2>3. Begun(disk'[j]) /\ Settled(disk'[j]) /\ AtRest(disk'[j])
    BY <1>5, <2>1, <2>2, SavedType DEF JobOK
  <2>4. disk'[j].st = jobs'[j].st /\ disk'[j].pass = jobs'[j].pass
    BY <1>5, <2>1, SavedType DEF JobOK
  <2> QED
    BY <2>2, <2>3, <2>4 DEF JobOK
<1>8. ASSUME NEW j \in Jobs, NEW g \in GamesOf(j)' PROVE ItemHeld(j, g)'
  <2>1. g \in GamesOf(j)
    BY <1>3 DEF GamesOf
  <2>2. ItemHeld(j, g) /\ jobs[j].items[g] \in ItemRecs
    <3>1. jobs[j] \in JobRecs
      BY <1>1
    <3> QED
      BY <2>1, <3>1, JobType DEF ScraperInv, GamesOf
  <2> DEFINE h == jobs[j].items[g].holder
  <2>3. h # None => h \in Workers /\ worker[h].pc # "idle" /\ worker[h].job = j /\ worker[h].game = g
    BY <2>2 DEF ItemHeld, ItemRecs
  <2>4. h # None => worker'[h].pc # "idle" /\ worker'[h].job = j /\ worker'[h].game = g
    BY <1>10, <2>3
  <2> QED
    BY <1>4, <2>1, <2>2, <2>4 DEF ItemHeld
<1>9. ASSUME NEW v \in Workers PROVE InHand(v)'
  <2> DEFINE j == worker[v].job  g == worker[v].game
  <2> SUFFICES ASSUME worker'[v].pc # "idle" PROVE InHand(v)'
    BY DEF InHand
  <2>1. worker[v].pc # "idle"
    BY <1>10
  <2>2. /\ j \in Jobs /\ g \in GamesOf(j) /\ worker[v].src \in 1..Len(ChainOf(v)) /\ ItemOf(v).holder = v
        /\ worker[v].pc = "release" => ItemOf(v).st # "working"
        /\ worker[v].pc \in Asking /\ Funnel(v) => worker[v].todo \cap ItemOf(v).got = {}
    BY <2>1, Hand
  <2>3. /\ jobs'[j].items[g].holder = ItemOf(v).holder /\ jobs'[j].items[g].got = ItemOf(v).got
        /\ jobs'[j].items[g].st = "working" => ItemOf(v).st = "working"
    BY <1>4, <2>2 DEF ItemOf
  <2>4. g \in DOMAIN jobs'[j].items /\ jobs'[j].chain = jobs[j].chain
    BY <1>3, <2>2
  <2>5. /\ worker'[v].job = j /\ worker'[v].game = g /\ worker'[v].src = worker[v].src
        /\ worker'[v].todo = worker[v].todo
        /\ worker'[v].pc = worker[v].pc \/ worker'[v].pc = "quota"
    BY <1>10
  <2> HIDE DEF j, g
  <2> QED
    BY <2>2, <2>3, <2>4, <2>5 DEF InHand, GamesOf, ItemOf, ChainOf, Funnel, Asking, j, g
<1> QED
  BY <1>6, <1>7, <1>8, <1>9 DEF ScraperInv

-----------------------------------------------------------------------------
(* The workers' steps.                                                     *)

\* What a step takes from the scenario leaves one.
LEMMA SpendType == ASSUME Types, NEW b \in {"start", "cancel", "resume", "skip", "choose", "search", "quota", "crash"},
                          Spend(b) PROVE budget' \in Budgets
<1>1. budget \in Budgets /\ budget[b] > 0 /\ budget[b] \in Nat
  BY DEF Types, Budgets, Spend
<1>2. budget[b] - 1 \in Nat
  BY <1>1
<1> QED
  BY <1>1, <1>2 DEF Spend, Budgets

\* A worker that goes on changes where it is.
LEMMA GotoFacts == ASSUME ScraperInv, NEW w \in Workers, NEW pc \in Pcs, Goto(w, pc)
    PROVE \E me \in WorkerRecs : /\ worker' = [worker EXCEPT ![w] = me] /\ me.pc = pc
                                 /\ me.job = worker[w].job /\ me.game = worker[w].game
                                 /\ me.src = worker[w].src /\ me.todo = worker[w].todo
<1>1. worker[w] \in WorkerRecs /\ worker \in [Workers -> WorkerRecs]
  BY DEF ScraperInv, Types
<1> DEFINE me == [worker[w] EXCEPT !.pc = pc]
<1>2. me \in WorkerRecs
  BY <1>1 DEF WorkerRecs
<1>3. worker' = [worker EXCEPT ![w] = me]
  BY <1>1 DEF Goto
<1> QED
  BY <1>1, <1>2, <1>3 DEF WorkerRecs

\* A worker that leaves its game as it is.
LEMMA SameItem == ASSUME ScraperInv, NEW w \in Workers, worker[w].pc # "idle", UNCHANGED jobs
                  PROVE  PutItem(w, ItemOf(w))
<1> DEFINE j == worker[w].job  g == worker[w].game
<1>1. j \in Jobs /\ g \in GamesOf(j) /\ jobs \in [Jobs -> JobRecs] /\ jobs[j] \in JobRecs
  BY Hand DEF ScraperInv, Types
<1>2. jobs[j].items \in [GamesOf(j) -> ItemRecs]
  BY <1>1, JobType DEF GamesOf
<1>3. [jobs[j].items EXCEPT ![g] = jobs[j].items[g]] = jobs[j].items
  BY <1>1, <1>2
<1>4. [jobs[j] EXCEPT !.items = jobs[j].items] = jobs[j]
  BY <1>1 DEF JobRecs
<1> HIDE DEF j, g
<1>5. [jobs EXCEPT ![j].items[g] = jobs[j].items[g]] = [jobs EXCEPT ![j] = [jobs[j] EXCEPT !.items = [jobs[j].items EXCEPT ![g] = jobs[j].items[g]]]]
  BY <1>1
<1>6. [jobs EXCEPT ![j].items[g] = jobs[j].items[g]] = jobs
  BY <1>1, <1>3, <1>4, <1>5
<1> QED
  BY <1>6 DEF PutItem, ItemOf, j, g

\* A save that may be held back is one, or none.
LEMMA Maybe == ASSUME NEW j, MaybeSave(j) PROVE UNCHANGED disk \/ Save(j)
  BY DEF MaybeSave

\* A source's work ends.
LEMMA FinishStep == ASSUME ScraperInv, NEW w \in Workers, worker[w].pc # "idle",
    NEW st \in Final \cup {"pending"}, NEW matched \in BOOLEAN, NEW cands \in BOOLEAN,
    Finish(w, st, matched, cands), UNCHANGED <<active, cancelling, stored, budget>>
    PROVE ScraperInv'
<1>1. /\ worker[w].src \in 1..Len(ChainOf(w)) /\ ItemOf(w) \in ItemRecs /\ ItemOf(w).holder = w
      /\ ItemOf(w).pass > 0
  BY Hand
<1>2. PICK it \in ItemRecs : it = [ItemOf(w) EXCEPT !.st = st, !.matched = matched, !.cands = cands]
  <2>1. [ItemOf(w) EXCEPT !.st = st, !.matched = matched, !.cands = cands] \in ItemRecs
    BY <1>1 DEF ItemRecs
  <2> QED
    BY <2>1
<1>3. AfterSource(w) \in {"weigh", "release"} /\ Goto(w, AfterSource(w))
  BY DEF AfterSource, Finish
<1>8. it.holder = w /\ it.pass > 0 /\ it.st # "working"
  BY <1>1, <1>2 DEF ItemRecs
<1>4. PICK me \in WorkerRecs : /\ worker' = [worker EXCEPT ![w] = me] /\ me.pc = AfterSource(w)
                               /\ me.job = worker[w].job /\ me.game = worker[w].game
                               /\ me.src = worker[w].src
  BY <1>3, GotoFacts
<1>5. PutItem(w, it) /\ (UNCHANGED disk \/ Save(worker[w].job))
  BY <1>2, Maybe DEF Finish
<1>6. stored' \subseteq Games \X Kinds /\ budget' \in Budgets
  BY DEF ScraperInv, Types
<1>7. me.pc # "idle" /\ me.pc \notin Asking
  BY <1>3, <1>4 DEF Asking
<1> QED
  BY <1>1, <1>4, <1>5, <1>6, <1>7, <1>8, HandStep

\* A worker takes a game that no one holds.
LEMMA TakeStep == ASSUME ScraperInv, NEW w \in Workers, Take(w) PROVE ScraperInv'
<1> DEFINE a == active
<1>1. /\ a \in Jobs /\ worker[w].pc = "idle" /\ Running(a) /\ Types /\ jobs[a] \in JobRecs
      /\ w # None
  BY ScraperAssumption DEF Take, AtWork, ScraperInv, Types
<1>2. jobs[a].items \in [GamesOf(a) -> ItemRecs] /\ GamesOf(a) \subseteq Games /\ GamesOf(a) \subseteq Nat
  BY <1>1, JobType, ScraperAssumption DEF GamesOf
<1>3. Takeable(a) \in SUBSET Nat /\ Takeable(a) \subseteq GamesOf(a) /\ Takeable(a) # {}
  BY <1>2 DEF Takeable, Take
<1>4. PICK g0 \in Takeable(a) : g0 = First(Takeable(a))
  BY <1>3, FirstIsOne
<1>5. /\ g0 \in GamesOf(a) /\ g0 \in Games /\ jobs[a].items[g0] \in ItemRecs
      /\ jobs[a].items[g0].holder = None /\ jobs[a].items[g0].st = "pending"
  BY <1>2, <1>3, <1>4 DEF Takeable
<1> HIDE DEF a
<1>16. PICK it \in ItemRecs : it = [jobs[a].items[g0] EXCEPT !.st = "working", !.holder = w]
  <2>1. [jobs[a].items[g0] EXCEPT !.st = "working", !.holder = w] \in ItemRecs
    BY <1>5 DEF ItemRecs
  <2> QED
    BY <2>1
<1>6. it.holder = w /\ it.st = "working" /\ it.pass = jobs[a].items[g0].pass
  BY <1>5, <1>16 DEF ItemRecs
<1>17. PICK me \in WorkerRecs : me = [Idle EXCEPT !.pc = "look", !.job = a, !.game = g0]
  <2>1. [Idle EXCEPT !.pc = "look", !.job = a, !.game = g0] \in WorkerRecs
    BY <1>1, <1>5, IdleType DEF WorkerRecs
  <2> QED
    BY <2>1
<1>7. me.pc = "look" /\ me.job = a /\ me.game = g0 /\ me.src = 1
  BY <1>1, <1>5, <1>17 DEF Idle
<1>8. jobs' = [jobs EXCEPT ![a].items[g0] = it]
  BY <1>1, <1>4, <1>16 DEF Take, a
<1>9. /\ worker' \in [Workers -> WorkerRecs]
      /\ \A v \in Workers : worker'[v] = IF v = w THEN me ELSE worker[v]
  <2>1. worker' = [worker EXCEPT ![w] = me]
    BY <1>4, <1>17 DEF Take, a
  <2> QED
    BY <1>1, <2>1 DEF Types
<1>18. Wrote(a, g0, it)
  BY <1>1, <1>5, <1>8, ItemFacts
<1>10. /\ jobs' \in [Jobs -> JobRecs]
       /\ \A j \in Jobs : /\ jobs'[j].st = jobs[j].st /\ jobs'[j].pass = jobs[j].pass
                          /\ jobs'[j].chain = jobs[j].chain /\ DOMAIN jobs'[j].items = GamesOf(j)
  BY <1>18 DEF Wrote
<1>11. \A j \in Jobs : \A g \in GamesOf(j) : jobs'[j].items[g] =
           IF j = a /\ g = g0 THEN it ELSE jobs[j].items[g]
  BY <1>18 DEF Wrote
<1>12. Types' /\ disk' = disk
  BY <1>1, <1>9, <1>10 DEF Types, Take
<1>13. ASSUME NEW j \in Jobs PROVE JobOK(j)'
  <2>1. JobOK(j)
    BY DEF ScraperInv
  <2>2. ASSUME NEW g \in GamesOf(j) PROVE jobs'[j].items[g].pass > 0
    BY <1>6, <1>11, <2>1 DEF JobOK, Begun, GamesOf
  <2>3. Begun(jobs'[j])
    BY <1>10, <2>1, <2>2 DEF JobOK, Begun, GamesOf
  <2>4. Settled(jobs'[j])
    <3>1. CASE j = a
      BY <1>1, <1>10, <3>1 DEF Settled, Running
    <3>2. CASE j # a
      BY <1>10, <1>11, <2>1, <3>2 DEF JobOK, Settled, GamesOf
    <3> QED
      BY <3>1, <3>2
  <2> QED
    BY <1>10, <1>12, <2>1, <2>3, <2>4 DEF JobOK
<1>14. ASSUME NEW j \in Jobs, NEW g \in GamesOf(j)' PROVE ItemHeld(j, g)'
  <2>1. g \in GamesOf(j) /\ ItemHeld(j, g) /\ jobs[j] \in JobRecs
    BY <1>1, <1>10 DEF GamesOf, ScraperInv, Types
  <2>2. CASE j = a /\ g = g0
    <3>1. jobs'[j].items[g] = it /\ worker'[w] = me
      BY <1>9, <1>11, <2>1, <2>2
    <3> QED
      BY <1>1, <1>6, <1>7, <2>2, <3>1 DEF ItemHeld
  <2>3. CASE ~(j = a /\ g = g0)
    <3> DEFINE h == jobs[j].items[g].holder
    <3>1. jobs'[j].items[g] = jobs[j].items[g] /\ jobs[j].items[g] \in ItemRecs
      BY <1>11, <2>1, <2>3, JobType DEF GamesOf
    <3>2. h # None => h \in Workers /\ worker'[h] = worker[h]
      BY <1>1, <1>9, <2>1, <3>1 DEF ItemHeld, ItemRecs
    <3> QED
      BY <2>1, <3>1, <3>2 DEF ItemHeld
  <2> QED
    BY <2>2, <2>3
<1>15. ASSUME NEW v \in Workers PROVE InHand(v)'
  <2>1. CASE v = w
    <3>1. worker'[w] = me /\ jobs'[a].items[g0] = it /\ jobs'[a].chain = jobs[a].chain
          /\ g0 \in DOMAIN jobs'[a].items
      BY <1>1, <1>5, <1>9, <1>10, <1>11
    <3>2. Len(jobs[a].chain) > 0 /\ Len(jobs[a].chain) \in Nat
      <4>1. Begun(jobs[a]) /\ jobs[a].chain \in Seq(Sources)
        BY <1>1, JobType DEF ScraperInv, JobOK
      <4> QED
        BY <1>5, <4>1 DEF Begun, GamesOf
    <3>3. 1 \in 1..Len(jobs[a].chain)
      BY <3>2
    <3> QED
      BY <1>1, <1>6, <1>7, <2>1, <3>1, <3>3 DEF InHand, GamesOf, ItemOf, ChainOf, Funnel, Asking
  <2>2. CASE v # w
    <3>1. worker'[v] = worker[v] /\ InHand(v)
      BY <1>9, <2>2 DEF ScraperInv
    <3> SUFFICES ASSUME worker[v].pc # "idle" PROVE InHand(v)'
      BY <3>1 DEF InHand
    <3>2. /\ worker[v].job \in Jobs /\ worker[v].game \in GamesOf(worker[v].job)
          /\ ItemOf(v).holder = v /\ v # None
      BY Hand
    <3>3. jobs'[worker[v].job].items[worker[v].game] = ItemOf(v)
      BY <1>5, <1>11, <3>2 DEF ItemOf
    <3>4. /\ worker[v].game \in DOMAIN jobs'[worker[v].job].items
          /\ jobs'[worker[v].job].chain = jobs[worker[v].job].chain
      BY <1>10, <3>2
    <3> QED
      BY <3>1, <3>2, <3>3, <3>4 DEF InHand, GamesOf, ItemOf, ChainOf, Funnel
  <2> QED
    BY <2>1, <2>2
<1> QED
  BY <1>12, <1>13, <1>14, <1>15 DEF ScraperInv

\* A worker lets go of its game, which is working no more.
LEMMA ReleaseStep == ASSUME ScraperInv, NEW w \in Workers, Release(w) PROVE ScraperInv'
<1> DEFINE a == worker[w].job  g0 == worker[w].game
<1>1. /\ a \in Jobs /\ g0 \in GamesOf(a) /\ worker[w].pc = "release" /\ Types
      /\ jobs[a].items[g0] = ItemOf(w) /\ ItemOf(w) \in ItemRecs
      /\ ItemOf(w).holder = w /\ ItemOf(w).st # "working" /\ w # None
      /\ JobOf(w).st # "done"
  BY Hand DEF Release, ScraperInv, ItemOf
<1>11. PICK it \in ItemRecs : it = [ItemOf(w) EXCEPT !.holder = None]
  <2>1. [ItemOf(w) EXCEPT !.holder = None] \in ItemRecs
    BY <1>1 DEF ItemRecs
  <2> QED
    BY <2>1
<1>2. it.holder = None /\ it.st = ItemOf(w).st /\ it.pass = ItemOf(w).pass
  BY <1>1, <1>11 DEF ItemRecs
<1>3. PutItem(w, it)
  <2>1. [ItemOf(w) EXCEPT !.holder = IF @ = w THEN None ELSE @] = it
    BY <1>1, <1>11
  <2> QED
    BY <2>1 DEF Release
<1>4. /\ worker' \in [Workers -> WorkerRecs]
      /\ \A v \in Workers : worker'[v] = IF v = w THEN Idle ELSE worker[v]
  BY <1>1, IdleType DEF Release, Types
<1>5. /\ jobs' \in [Jobs -> JobRecs]
      /\ \A j \in Jobs : /\ jobs'[j].st = jobs[j].st /\ jobs'[j].pass = jobs[j].pass
                         /\ jobs'[j].chain = jobs[j].chain /\ DOMAIN jobs'[j].items = GamesOf(j)
  BY <1>1, <1>3, PutFacts DEF Wrote
<1>6. \A j \in Jobs : \A g \in GamesOf(j) : jobs'[j].items[g] =
           IF j = a /\ g = g0 THEN it ELSE jobs[j].items[g]
  BY <1>1, <1>3, PutFacts DEF Wrote
<1>7. Types' /\ disk' = disk
  BY <1>1, <1>4, <1>5 DEF Types, Release
<1>8. ASSUME NEW j \in Jobs PROVE JobOK(j)'
  <2>1. JobOK(j)
    BY DEF ScraperInv
  <2>2. ASSUME NEW g \in GamesOf(j) PROVE jobs'[j].items[g].pass > 0
    BY <1>1, <1>2, <1>6, <2>1 DEF JobOK, Begun, GamesOf
  <2>3. Begun(jobs'[j])
    BY <1>5, <2>1, <2>2 DEF JobOK, Begun, GamesOf
  <2>4. Settled(jobs'[j])
    <3>1. CASE j = a
      BY <1>1, <1>5, <3>1 DEF Settled, JobOf
    <3>2. CASE j # a
      BY <1>5, <1>6, <2>1, <3>2 DEF JobOK, Settled, GamesOf
    <3> QED
      BY <3>1, <3>2
  <2> QED
    BY <1>5, <1>7, <2>1, <2>3, <2>4 DEF JobOK
<1>9. ASSUME NEW j \in Jobs, NEW g \in GamesOf(j)' PROVE ItemHeld(j, g)'
  <2>1. g \in GamesOf(j) /\ ItemHeld(j, g) /\ jobs[j] \in JobRecs
    BY <1>1, <1>5 DEF GamesOf, ScraperInv, Types
  <2>2. CASE j = a /\ g = g0
    BY <1>1, <1>2, <1>6, <2>1, <2>2 DEF ItemHeld
  <2>3. CASE ~(j = a /\ g = g0)
    <3> DEFINE h == jobs[j].items[g].holder
    <3>1. jobs'[j].items[g] = jobs[j].items[g] /\ jobs[j].items[g] \in ItemRecs
      BY <1>6, <2>1, <2>3, JobType DEF GamesOf
    <3>2. h # None => h \in Workers /\ worker'[h] = worker[h]
      BY <1>4, <2>1, <2>3, <3>1 DEF ItemHeld, ItemRecs
    <3> QED
      BY <2>1, <3>1, <3>2 DEF ItemHeld
  <2> QED
    BY <2>2, <2>3
<1>10. ASSUME NEW v \in Workers PROVE InHand(v)'
  <2>1. CASE v = w
    BY <1>4, <2>1 DEF InHand, Idle
  <2>2. CASE v # w
    <3>1. worker'[v] = worker[v] /\ InHand(v)
      BY <1>4, <2>2 DEF ScraperInv
    <3> SUFFICES ASSUME worker[v].pc # "idle" PROVE InHand(v)'
      BY <3>1 DEF InHand
    <3>2. /\ worker[v].job \in Jobs /\ worker[v].game \in GamesOf(worker[v].job) /\ ItemOf(v).holder = v
      BY Hand
    <3>3. jobs'[worker[v].job].items[worker[v].game] = ItemOf(v)
      BY <1>1, <1>6, <2>2, <3>2 DEF ItemOf
    <3>4. /\ worker[v].game \in DOMAIN jobs'[worker[v].job].items
          /\ jobs'[worker[v].job].chain = jobs[worker[v].job].chain
      BY <1>5, <3>2
    <3> QED
      BY <3>1, <3>2, <3>3, <3>4 DEF InHand, GamesOf, ItemOf, ChainOf, Funnel
  <2> QED
    BY <2>1, <2>2
<1> QED
  BY <1>7, <1>8, <1>9, <1>10 DEF ScraperInv

\* A record with an item's fields, each of its type, is an item.
ItemFields == {"st", "pass", "holder", "started", "got", "matched", "matches", "cands", "from", "held"}
LEMMA IsItem == ASSUME NEW r, r = [x \in DOMAIN r |-> r[x]], DOMAIN r = ItemFields,
        r.st \in ItemStates, r.pass \in Nat, r.holder \in Workers \cup {None}, r.started \in BOOLEAN,
        r.got \subseteq Kinds, r.matched \in BOOLEAN, r.matches \subseteq Sources, r.cands \in BOOLEAN,
        r.from \in Sources \cup {None}, r.held \in Helds
    PROVE r \in ItemRecs
  BY DEF ItemRecs, ItemFields

\* What is on its way to its end, a source's answer put away.
LEMMA FunnelFinishType == ASSUME NEW it \in ItemRecs, NEW lack
    PROVE /\ FunnelFinish(it, lack) \in ItemRecs /\ FunnelFinish(it, lack).holder = it.holder
          /\ FunnelFinish(it, lack).st # "working" /\ FunnelFinish(it, lack).pass = it.pass
          /\ FunnelFinish(it, lack).got = it.got
<1> DEFINE new == FunnelFinish(it, lack)
<1>1. FunnelState(it, lack) \in Final
  BY DEF FunnelState
<1>2. DOMAIN it = ItemFields
  BY DEF ItemRecs, ItemFields
<1>3. new = [x \in DOMAIN new |-> new[x]] /\ DOMAIN new = ItemFields
  BY <1>2 DEF FunnelFinish
<1>4. /\ new.st = FunnelState(it, lack) /\ new.pass = it.pass /\ new.holder = it.holder
      /\ new.started = it.started /\ new.got = it.got /\ new.matches = it.matches
  BY <1>2 DEF FunnelFinish, ItemFields
<1>5. /\ new.matched \in BOOLEAN /\ new.cands \in BOOLEAN /\ new.held = "none"
      /\ new.from \in {None, it.from}
  BY <1>2 DEF FunnelFinish, ItemFields
<1>6. /\ it.pass \in Nat /\ it.holder \in Workers \cup {None} /\ it.started \in BOOLEAN
      /\ it.got \subseteq Kinds /\ it.matches \subseteq Sources /\ it.from \in Sources \cup {None}
  BY DEF ItemRecs
<1> HIDE DEF new
<1>7. new \in ItemRecs
  BY <1>1, <1>3, <1>4, <1>5, <1>6, IsItem DEF Final, ItemStates, Helds
<1> QED
  BY <1>1, <1>4, <1>7 DEF Final, new

\* The trouble a source had with a game is put away in the game's own fields.
LEMMA WithTroubleType == ASSUME NEW it \in ItemRecs, NEW old \in ItemRecs, NEW src \in Sources
    PROVE /\ WithTrouble(it, old, src) \in ItemRecs /\ WithTrouble(it, old, src).holder = it.holder
          /\ WithTrouble(it, old, src).pass = it.pass
          /\ WithTrouble(it, old, src).matches \subseteq Sources
<1> DEFINE new == WithTrouble(it, old, src)
<1>1. DOMAIN it = ItemFields /\ DOMAIN old = ItemFields
  BY DEF ItemRecs, ItemFields
<1>2. new = [x \in DOMAIN new |-> new[x]] /\ DOMAIN new = ItemFields
  BY <1>1 DEF WithTrouble
<1>3. /\ new.st = it.st /\ new.pass = it.pass /\ new.holder = it.holder /\ new.started = it.started
      /\ new.got = it.got /\ new.matched = it.matched /\ new.matches = it.matches
  BY <1>1 DEF WithTrouble, ItemFields
<1>4. /\ new.cands \in {it.cands, old.cands} /\ new.from \in {it.from, old.from, src}
      /\ new.held \in {"ambiguous", it.st, it.held} /\ (new.held = it.st => it.st \in Helds \/ new.held = it.held)
  BY <1>1 DEF WithTrouble, ItemFields
<1>5. /\ it.st \in ItemStates /\ it.pass \in Nat /\ it.holder \in Workers \cup {None} /\ it.started \in BOOLEAN
      /\ it.got \subseteq Kinds /\ it.matched \in BOOLEAN /\ it.matches \subseteq Sources
      /\ it.held \in Helds /\ {it.cands, old.cands} \subseteq BOOLEAN
      /\ {it.from, old.from, src} \subseteq Sources \cup {None}
  BY DEF ItemRecs
<1> HIDE DEF new
<1>6. new \in ItemRecs
  BY <1>2, <1>3, <1>4, <1>5, IsItem DEF Helds
<1> QED
  BY <1>3, <1>5, <1>6 DEF new

\* A worker copies its game, and what it lacks.
LEMMA CopyStep == ASSUME ScraperInv, NEW w \in Workers, Copy(w) PROVE ScraperInv'
<1> DEFINE it == ItemOf(w)  first == ChainOf(w)[1]
           far == [worker[w] EXCEPT !.old = it, !.src = PassOf(w), !.todo = Lacking(w, it), !.pc = "turn"]
           near == [worker[w] EXCEPT !.src = 1, !.todo = JobOf(w).kinds \cap Offers[first], !.pc = Door(first)]
<1>1. /\ worker[w].pc = "look" /\ ItemOf(w) \in ItemRecs /\ ItemOf(w).holder = w /\ ItemOf(w).pass > 0
      /\ worker[w] \in WorkerRecs /\ JobOf(w) \in JobRecs /\ Len(ChainOf(w)) \in Nat
      /\ worker[w].src \in 1..Len(ChainOf(w)) /\ ItemOf(w).pass \in Nat /\ worker \in [Workers -> WorkerRecs]
  BY Hand DEF Copy, ItemRecs, ScraperInv, Types
<1>2. /\ stored' \subseteq Games \X Kinds /\ budget' \in Budgets /\ UNCHANGED <<active, cancelling, jobs, disk>>
  BY DEF Copy, ScraperInv, Types
<1>3. PutItem(w, ItemOf(w))
  BY <1>1, <1>2, SameItem
<1>4. JobOf(w).kinds \subseteq Kinds /\ Lacking(w, it) \subseteq Kinds /\ Lacking(w, it) \cap it.got = {}
  BY <1>1, JobType DEF Lacking
<1>5. CASE Funnel(w)
  <2>1. PassOf(w) \in 1..Len(ChainOf(w)) /\ PassOf(w) \in Nat
    BY <1>1, <1>5 DEF Funnel, PassOf
  <2>2. worker' = [worker EXCEPT ![w] = far]
    BY <1>5 DEF Copy
  <2> HIDE DEF it
  <2>3. /\ far \in WorkerRecs /\ far.pc = "turn" /\ far.job = worker[w].job /\ far.game = worker[w].game
        /\ far.src = PassOf(w) /\ far.todo = Lacking(w, it)
    <3>1. it \in ItemRecs
      BY <1>1 DEF it
    <3> QED
      BY <1>1, <1>4, <2>1, <3>1 DEF WorkerRecs
  <2>4. far.todo \cap ItemOf(w).got = {}
    BY <1>4, <2>3 DEF it
  <2> HIDE DEF far
  <2> QED
    BY <1>1, <1>2, <1>3, <2>1, <2>2, <2>3, <2>4, HandStep
<1>6. CASE ~Funnel(w)
  <2>1. worker' = [worker EXCEPT ![w] = near]
    BY <1>6 DEF Copy
  <2>2. Door(first) \in {"slot", "begin"} /\ JobOf(w).kinds \cap Offers[first] \subseteq Kinds
    BY <1>4 DEF Door
  <2> HIDE DEF first
  <2>3. /\ near \in WorkerRecs /\ near.pc \in {"slot", "begin"} /\ near.job = worker[w].job
        /\ near.game = worker[w].game /\ near.src = 1
    BY <1>1, <2>2 DEF WorkerRecs
  <2>4. 1 \in 1..Len(ChainOf(w))
    BY <1>1
  <2> HIDE DEF near
  <2> QED
    BY <1>1, <1>2, <1>3, <1>6, <2>1, <2>3, <2>4, HandStep
<1> QED
  BY <1>5, <1>6

\* A worker looks at its game: it lacks nothing, nothing of this source, or it is asked.
LEMMA LookStep == ASSUME ScraperInv, NEW w \in Workers, Look(w) PROVE ScraperInv'
<1> DEFINE it == ItemOf(w)
           src == SourceOf(w)
           one == worker[w].todo \cap Offers[src]
<1>1. /\ worker[w].pc = "turn" /\ ItemOf(w) \in ItemRecs /\ ItemOf(w).holder = w /\ ItemOf(w).pass > 0
      /\ worker[w] \in WorkerRecs /\ worker[w].src \in 1..Len(ChainOf(w)) /\ worker \in [Workers -> WorkerRecs]
      /\ Funnel(w) => worker[w].todo \cap ItemOf(w).got = {}
  BY Hand DEF Look, Asking, ScraperInv, Types
<1>4. stored' \subseteq Games \X Kinds /\ budget' \in Budgets /\ UNCHANGED <<active, cancelling>>
  BY DEF Look, ScraperInv, Types
<1>6. CASE worker[w].todo = {}
  <2> DEFINE new == IF it.started \/ it.got # {} THEN FunnelFinish(it, {}) ELSE [it EXCEPT !.st = "skipped"]
  <2>1. /\ [it EXCEPT !.st = "skipped"] \in ItemRecs /\ [it EXCEPT !.st = "skipped"].holder = w
        /\ [it EXCEPT !.st = "skipped"].pass > 0 /\ [it EXCEPT !.st = "skipped"].st = "skipped"
    BY <1>1 DEF ItemRecs
  <2>2. new \in ItemRecs /\ new.holder = w /\ new.pass > 0 /\ new.st # "working"
    BY <1>1, <2>1, FunnelFinishType
  <2>3. PutItem(w, new) /\ MaybeSave(worker[w].job) /\ Goto(w, "release")
    BY <1>6 DEF Look
  <2> HIDE DEF new, it
  <2>4. PICK me \in WorkerRecs : /\ worker' = [worker EXCEPT ![w] = me] /\ me.pc = "release"
                                 /\ me.job = worker[w].job /\ me.game = worker[w].game
                                 /\ me.src = worker[w].src
    BY <2>3, GotoFacts
  <2>5. UNCHANGED disk \/ Save(worker[w].job)
    BY <2>3, Maybe
  <2> QED
    BY <1>1, <1>4, <2>2, <2>3, <2>4, <2>5, HandStep DEF Asking
<1>7. CASE worker[w].todo # {} /\ one = {}
  <2>1. Goto(w, "move") /\ UNCHANGED <<jobs, disk>>
    BY <1>7 DEF Look
  <2>2. PICK me \in WorkerRecs : /\ worker' = [worker EXCEPT ![w] = me] /\ me.pc = "move"
                                 /\ me.job = worker[w].job /\ me.game = worker[w].game
                                 /\ me.src = worker[w].src
    <3>1. "move" \in Pcs
      OBVIOUS
    <3> QED
      BY <2>1, <3>1, GotoFacts
  <2>3. PutItem(w, ItemOf(w))
    BY <1>1, <2>1, SameItem
  <2> QED
    BY <1>1, <1>4, <2>1, <2>2, <2>3, HandStep DEF Asking
<1>8. CASE worker[w].todo # {} /\ one # {}
  <2> DEFINE me == [worker[w] EXCEPT !.todo = one, !.pc = Door(src)]
             new == [it EXCEPT !.matched = src \in it.matches, !.cands = FALSE, !.st = "working"]
  <2>1. worker' = [worker EXCEPT ![w] = me] /\ UNCHANGED disk /\ PutItem(w, new)
    BY <1>1, <1>8 DEF Look
  <2>2. /\ me \in WorkerRecs /\ me.pc \in {"slot", "begin"} /\ me.job = worker[w].job
        /\ me.game = worker[w].game /\ me.src = worker[w].src /\ me.todo \subseteq worker[w].todo
    <3>1. Door(src) \in {"slot", "begin"}
      BY DEF Door
    <3>2. one \subseteq worker[w].todo /\ worker[w].todo \subseteq Kinds
      BY <1>1 DEF WorkerRecs
    <3> HIDE DEF one, src
    <3> QED
      BY <1>1, <3>1, <3>2 DEF WorkerRecs
  <2>3. new \in ItemRecs /\ new.holder = w /\ new.pass > 0 /\ new.got = it.got
    <3>1. (src \in it.matches) \in BOOLEAN
      OBVIOUS
    <3> QED
      BY <1>1, <3>1 DEF ItemRecs
  <2> HIDE DEF me, new
  <2>4. Funnel(w) => me.todo \cap new.got = {}
    BY <1>1, <2>2, <2>3
  <2> QED
    BY <1>1, <1>4, <2>1, <2>2, <2>3, <2>4, HandStep
<1> QED
  BY <1>6, <1>7, <1>8

\* What a worker marks of its game: it is started.
LEMMA MarkFacts == ASSUME ScraperInv, NEW w \in Workers, worker[w].pc # "idle", MarkStarted(w)
    PROVE /\ \E it \in ItemRecs : /\ PutItem(w, it) /\ it.holder = w /\ it.pass > 0
                                  /\ it.got = ItemOf(w).got /\ it.st = ItemOf(w).st
          /\ UNCHANGED disk \/ Save(worker[w].job)
<1>1. ItemOf(w) \in ItemRecs /\ ItemOf(w).holder = w /\ ItemOf(w).pass > 0
  BY Hand
<1>2. /\ [ItemOf(w) EXCEPT !.started = TRUE] \in ItemRecs
      /\ [ItemOf(w) EXCEPT !.started = TRUE].holder = w /\ [ItemOf(w) EXCEPT !.started = TRUE].pass > 0
      /\ [ItemOf(w) EXCEPT !.started = TRUE].got = ItemOf(w).got
      /\ [ItemOf(w) EXCEPT !.started = TRUE].st = ItemOf(w).st
  BY <1>1 DEF ItemRecs
<1> QED
  BY <1>2 DEF MarkStarted

\* A source's work starts with a copy of what the game is known by, or not at all.
LEMMA EnterStep == ASSUME ScraperInv, NEW w \in Workers, Enter(w) PROVE ScraperInv'
<1>1. /\ worker[w].pc \in Asking /\ worker[w].pc # "idle"
      /\ UNCHANGED <<active, cancelling, stored, disk, budget>>
  BY DEF Enter, Asking
<1>2. /\ ItemOf(w) \in ItemRecs /\ ItemOf(w).holder = w /\ ItemOf(w).pass > 0
      /\ worker[w] \in WorkerRecs /\ worker[w].src \in 1..Len(ChainOf(w))
      /\ Funnel(w) => worker[w].todo \cap ItemOf(w).got = {}
      /\ worker \in [Workers -> WorkerRecs]
  BY <1>1, Hand DEF ScraperInv, Types
<1>3. stored' \subseteq Games \X Kinds /\ budget' \in Budgets
  BY <1>1 DEF ScraperInv, Types
<1>7. CASE worker[w].pc = "slot" /\ Stopped(worker[w].job)
  <2>1. PutItem(w, [ItemOf(w) EXCEPT !.st = "pending"]) /\ Goto(w, AfterSource(w))
    BY <1>7 DEF Enter
  <2>2. AfterSource(w) \in {"weigh", "release"}
    BY DEF AfterSource
  <2>3. PICK me \in WorkerRecs : /\ worker' = [worker EXCEPT ![w] = me] /\ me.pc \in {"weigh", "release"}
                                 /\ me.job = worker[w].job /\ me.game = worker[w].game
                                 /\ me.src = worker[w].src
    <3>1. AfterSource(w) \in Pcs
      BY <2>2
    <3> QED
      BY <2>1, <2>2, <3>1, GotoFacts
  <2>4. [ItemOf(w) EXCEPT !.st = "pending"] \in ItemRecs
    BY <1>2 DEF ItemRecs
  <2>5. PICK it \in ItemRecs : it = [ItemOf(w) EXCEPT !.st = "pending"]
    BY <2>4
  <2>6. it.holder = w /\ it.pass > 0 /\ it.st # "working" /\ PutItem(w, it)
    BY <1>2, <2>1, <2>5 DEF ItemRecs
  <2> QED
    BY <1>1, <1>2, <1>3, <2>3, <2>6, HandStep DEF Asking
<1>8. CASE ~(worker[w].pc = "slot" /\ Stopped(worker[w].job))
  <2> DEFINE me == [worker[w] EXCEPT !.pc = "source", !.matched = ItemOf(w).matched, !.cands = ItemOf(w).cands]
  <2>1. worker' = [worker EXCEPT ![w] = me] /\ UNCHANGED jobs
    BY <1>8 DEF Enter
  <2>2. ItemOf(w).matched \in BOOLEAN /\ ItemOf(w).cands \in BOOLEAN
    BY <1>2 DEF ItemRecs
  <2>3. /\ me \in WorkerRecs /\ me.pc = "source" /\ me.job = worker[w].job /\ me.game = worker[w].game
        /\ me.src = worker[w].src /\ me.todo = worker[w].todo
    BY <1>2, <2>2 DEF WorkerRecs
  <2>4. PutItem(w, ItemOf(w))
    BY <1>1, <2>1, SameItem
  <2> HIDE DEF me
  <2> QED
    BY <1>1, <1>2, <1>3, <2>1, <2>3, <2>4, HandStep
<1> QED
  BY <1>7, <1>8

\* A source's work begins, or ends before it has begun.
LEMMA BeginStep == ASSUME ScraperInv, NEW w \in Workers, Begin(w) PROVE ScraperInv'
<1>1. /\ worker[w].pc = "source" /\ worker[w].pc \in Asking
      /\ UNCHANGED <<active, cancelling, stored, budget>>
  BY DEF Begin, Asking
<1>2. /\ ItemOf(w) \in ItemRecs /\ ItemOf(w).holder = w /\ ItemOf(w).pass > 0
      /\ worker[w] \in WorkerRecs /\ worker[w].src \in 1..Len(ChainOf(w))
      /\ Funnel(w) => worker[w].todo \cap ItemOf(w).got = {}
      /\ worker \in [Workers -> WorkerRecs]
  BY <1>1, Hand DEF ScraperInv, Types
<1>3. stored' \subseteq Games \X Kinds /\ budget' \in Budgets
  BY <1>1 DEF ScraperInv, Types
<1>4. worker[w].matched \in BOOLEAN /\ worker[w].cands \in BOOLEAN
  BY <1>2 DEF WorkerRecs
<1>5. Needed(w) \subseteq worker[w].todo /\ worker[w].todo \subseteq Kinds
  BY <1>2 DEF Needed, WorkerRecs
<1>6. ASSUME NEW pc \in Pcs
      PROVE  LET me == [worker[w] EXCEPT !.todo = Needed(w), !.pc = pc]
             IN  /\ me \in WorkerRecs /\ me.pc = pc /\ me.job = worker[w].job /\ me.game = worker[w].game
                 /\ me.src = worker[w].src /\ me.todo = Needed(w)
  BY <1>2, <1>5 DEF WorkerRecs
<1>8. CASE worker[w].game \notin Covers[SourceOf(w)]
  BY <1>1, <1>4, <1>8, FinishStep DEF Begin
<1>9. CASE worker[w].game \in Covers[SourceOf(w)] /\ NothingToFetch(w)
  BY <1>1, <1>4, <1>9, FinishStep DEF Begin
<1>10. CASE worker[w].game \in Covers[SourceOf(w)] /\ ~NothingToFetch(w) /\ SourceOf(w) \in Databases
  <2> DEFINE me == [worker[w] EXCEPT !.todo = Needed(w), !.pc = "prepare"]
  <2>1. /\ me \in WorkerRecs /\ me.pc = "prepare" /\ me.job = worker[w].job /\ me.game = worker[w].game
        /\ me.src = worker[w].src /\ me.todo = Needed(w)
    BY <1>6
  <2>2. worker' = [worker EXCEPT ![w] = me] /\ UNCHANGED <<jobs, disk>>
    BY <1>10 DEF Begin
  <2>3. PutItem(w, ItemOf(w))
    BY <1>1, <2>2, SameItem
  <2> HIDE DEF me
  <2>4. Funnel(w) => me.todo \cap ItemOf(w).got = {}
    BY <1>2, <1>5, <2>1
  <2> QED
    BY <1>1, <1>2, <1>3, <2>1, <2>2, <2>3, <2>4, HandStep
<1>11. CASE worker[w].game \in Covers[SourceOf(w)] /\ ~NothingToFetch(w) /\ SourceOf(w) \notin Databases
  <2> DEFINE next == IF Plain(w) THEN "fetch" ELSE "ask"
             me   == [worker[w] EXCEPT !.todo = Needed(w), !.pc = next]
  <2>0. next \in Pcs /\ next \in {"fetch", "ask"}
    OBVIOUS
  <2>1. /\ me \in WorkerRecs /\ me.pc \in {"fetch", "ask"} /\ me.job = worker[w].job /\ me.game = worker[w].game
        /\ me.src = worker[w].src /\ me.todo = Needed(w)
    <3> HIDE DEF next
    <3> QED
      BY <1>6, <2>0
  <2>2. worker' = [worker EXCEPT ![w] = me] /\ MarkStarted(w)
    BY <1>11 DEF Begin
  <2>3. UNCHANGED disk \/ Save(worker[w].job)
    BY <1>1, <2>2, MarkFacts
  <2>4. PICK it \in ItemRecs : PutItem(w, it) /\ it.holder = w /\ it.pass > 0 /\ it.got = ItemOf(w).got
    BY <1>1, <2>2, MarkFacts
  <2> HIDE DEF me
  <2>5. Funnel(w) => me.todo \cap it.got = {}
    BY <1>2, <1>5, <2>1, <2>4
  <2> QED
    BY <1>1, <1>2, <1>3, <2>1, <2>2, <2>3, <2>4, <2>5, HandStep
<1> QED
  BY <1>8, <1>9, <1>10, <1>11

\* A job that must wait is paused, in its file too.
LEMMA PauseStep == ASSUME ScraperInv, NEW w \in Workers, worker[w].pc # "idle", NEW some \in BOOLEAN,
                          Pause(w, some), UNCHANGED <<active, cancelling, stored>>, budget' \in Budgets
                   PROVE  ScraperInv'
<1>1. PICK me \in WorkerRecs : /\ worker' = [worker EXCEPT ![w] = me] /\ me.pc = "quota"
                               /\ me.job = worker[w].job /\ me.game = worker[w].game
                               /\ me.src = worker[w].src /\ me.todo = worker[w].todo
  <2> DEFINE me == [worker[w] EXCEPT !.pc = "quota", !.cands = some]
  <2>1. worker[w] \in WorkerRecs /\ worker' = [worker EXCEPT ![w] = me]
    BY DEF Pause, ScraperInv, Types
  <2>2. /\ me \in WorkerRecs /\ me.pc = "quota" /\ me.job = worker[w].job /\ me.game = worker[w].game
        /\ me.src = worker[w].src /\ me.todo = worker[w].todo
    BY <2>1 DEF WorkerRecs
  <2> HIDE DEF me
  <2> QED
    BY <2>1, <2>2
<1>2. /\ worker[w].job \in Jobs /\ jobs[worker[w].job] \in JobRecs /\ Types
      /\ JobOK(worker[w].job) /\ worker \in [Workers -> WorkerRecs]
  BY Hand DEF JobOf, ScraperInv, Types
<1>3. CASE Running(worker[w].job)
  <2> DEFINE j == worker[w].job
  <2>1. PICK b \in JobRecs : b = [jobs[j] EXCEPT !.st = "paused"]
    <3>1. [jobs[j] EXCEPT !.st = "paused"] \in JobRecs
      BY <1>2 DEF JobRecs
    <3> QED
      BY <3>1
  <2>2. b.st = "paused" /\ b.chain = jobs[j].chain /\ b.items = jobs[j].items /\ b.pass = jobs[j].pass
    BY <1>2, <2>1 DEF JobRecs
  <2>3. jobs' = [jobs EXCEPT ![j] = b] /\ Save(j)
    BY <1>2, <1>3, <2>1 DEF Pause, Types
  <2>4. Begun(b) /\ Settled(b)
    BY <1>2, <1>3, <2>2 DEF JobOK, Begun, Settled, Running
  <2>5. WorkersStay /\ worker' \in [Workers -> WorkerRecs]
    BY <1>1, <1>2 DEF WorkersStay
  <2>7. active' \in Jobs \cup {None} /\ cancelling' \in BOOLEAN
    BY <1>2 DEF Types
  <2>8. SameHands(j, b)
    BY <2>2 DEF GamesOf, SameHands
  <2>9. j \in Jobs /\ Told(j, b) /\ UNCHANGED stored
    BY <1>2, <2>3 DEF Told
  <2> HIDE DEF j
  <2> QED
    BY <2>3, <2>4, <2>5, <2>7, <2>8, <2>9, JobStep
<1>4. CASE ~Running(worker[w].job)
  <2>1. UNCHANGED <<jobs, disk>>
    BY <1>4 DEF Pause
  <2>2. PutItem(w, ItemOf(w)) /\ ItemOf(w) \in ItemRecs /\ ItemOf(w).holder = w /\ ItemOf(w).pass > 0
        /\ worker[w].src \in 1..Len(ChainOf(w))
    BY <2>1, SameItem, Hand
  <2>3. stored' \subseteq Games \X Kinds
    BY <1>2 DEF Types
  <2> QED
    BY <1>1, <2>1, <2>2, <2>3, HandStep DEF Asking
<1> QED
  BY <1>3, <1>4

\* The steps of a source's work: each ends it, or goes on with it.
LEMMA AnswerSteps == ASSUME ScraperInv, NEW w \in Workers,
                            PutBack(w) \/ Unknown(w) \/ Fails(w) \/ Fetched(w) PROVE ScraperInv'
<1>1. worker[w] \in WorkerRecs /\ UNCHANGED <<active, cancelling, stored, budget>>
  BY DEF ScraperInv, Types, PutBack, Unknown, Fails, Fetched
<1>2. /\ worker[w].pc # "idle" /\ worker[w].matched \in BOOLEAN /\ worker[w].cands \in BOOLEAN
      /\ worker[w].hit \in BOOLEAN
  BY <1>1 DEF PutBack, Unknown, Fails, Fetched, WorkerRecs
<1>3. CASE PutBack(w)
  BY <1>1, <1>2, <1>3, FinishStep DEF PutBack
<1>4. ASSUME NEW some \in BOOLEAN, NotFound(w, some) PROVE ScraperInv'
  <2>1. (IF some /\ ~worker[w].matched THEN "ambiguous" ELSE "unmatched") \in Final
    OBVIOUS
  <2> QED
    BY <1>1, <1>2, <1>4, <2>1, FinishStep DEF NotFound
<1>5. CASE Unknown(w)
  BY <1>2, <1>4, <1>5 DEF Unknown
<1>6. CASE Fails(w)
  <2>1. PICK some \in BOOLEAN : Finish(w, "failed", worker[w].matched, some)
    <3>1. Searched(w) \subseteq BOOLEAN /\ (Guessing(w) \/ worker[w].cands) \in BOOLEAN
      BY <1>2 DEF Searched
    <3> QED
      BY <1>2, <1>6, <3>1 DEF Fails
  <2> QED
    BY <1>1, <1>2, <2>1, FinishStep
<1>7. CASE Fetched(w)
  <2>1. (worker[w].matched \/ worker[w].hit) \in BOOLEAN
    OBVIOUS
  <2>2. Outcomes(w) \subseteq Final
    BY DEF Outcomes
  <2>3. ASSUME NEW some \in BOOLEAN, Finish(w, "pending", worker[w].matched \/ worker[w].hit, some)
        PROVE ScraperInv'
    BY <1>1, <1>2, <2>1, <2>3, FinishStep
  <2>4. ASSUME NEW st \in Outcomes(w), NEW some \in BOOLEAN, Finish(w, st, TRUE, some) PROVE ScraperInv'
    <3>1. st \in Final \cup {"pending"}
      BY <2>2
    <3> QED
      BY <1>1, <1>2, <2>4, <3>1, FinishStep
  <2>5. (worker[w].cands /\ ~Guessing(w)) \in BOOLEAN
    OBVIOUS
  <2> QED
    BY <1>2, <1>4, <1>7, <2>3, <2>4, <2>5 DEF Fetched
<1> QED
  BY <1>3, <1>5, <1>6, <1>7

\* A source that knows the game is asked for its kinds.
LEMMA KnownStep == ASSUME ScraperInv, NEW w \in Workers, Known(w) PROVE ScraperInv'
<1>1. /\ worker[w].pc = "ask" /\ UNCHANGED <<jobs, active, cancelling, stored, disk, budget>>
      /\ worker[w] \in WorkerRecs
  BY DEF Known, ScraperInv, Types
<1>2. /\ ItemOf(w) \in ItemRecs /\ ItemOf(w).holder = w /\ ItemOf(w).pass > 0
      /\ worker[w].src \in 1..Len(ChainOf(w))
      /\ Funnel(w) => worker[w].todo \cap ItemOf(w).got = {}
  BY <1>1, Hand DEF Asking
<1>3. PutItem(w, ItemOf(w)) /\ stored' \subseteq Games \X Kinds /\ budget' \in Budgets
  BY <1>1, SameItem DEF ScraperInv, Types
<1>4. worker[w].cands \in BOOLEAN
  BY <1>1 DEF WorkerRecs
<1>5. PICK some \in BOOLEAN :
        worker' = [worker EXCEPT ![w] = [worker[w] EXCEPT !.pc = "fetch", !.matched = TRUE, !.cands = some]]
  BY <1>4 DEF Known, Searched
<1>6. PICK me \in WorkerRecs : me = [worker[w] EXCEPT !.pc = "fetch", !.matched = TRUE, !.cands = some]
  <2>1. [worker[w] EXCEPT !.pc = "fetch", !.matched = TRUE, !.cands = some] \in WorkerRecs
    BY <1>1 DEF WorkerRecs
  <2> QED
    BY <2>1
<1>7. /\ me.pc = "fetch" /\ me.job = worker[w].job /\ me.game = worker[w].game /\ me.src = worker[w].src
      /\ me.todo = worker[w].todo
  BY <1>1, <1>6 DEF WorkerRecs
<1>8. worker' = [worker EXCEPT ![w] = me]
  BY <1>5, <1>6
<1> QED
  BY <1>1, <1>2, <1>3, <1>7, <1>8, HandStep

\* A kind the source has not is asked for no more.
LEMMA NoneOfItStep == ASSUME ScraperInv, NEW w \in Workers, NoneOfIt(w) PROVE ScraperInv'
<1>1. /\ worker[w].pc = "fetch" /\ UNCHANGED <<jobs, active, cancelling, stored, disk, budget>>
      /\ worker[w] \in WorkerRecs
  BY DEF NoneOfIt, ScraperInv, Types
<1> DEFINE missed == worker[w].miss \/ AnyKind(w) # Details
<1>10. missed \in BOOLEAN
  OBVIOUS
<1>9. worker' = [worker EXCEPT ![w] = [worker[w] EXCEPT !.todo = worker[w].todo \ {AnyKind(w)}, !.miss = missed]]
  BY <1>1 DEF NoneOfIt, ScraperInv, Types
<1>2. /\ ItemOf(w) \in ItemRecs /\ ItemOf(w).holder = w /\ ItemOf(w).pass > 0
      /\ worker[w].src \in 1..Len(ChainOf(w))
      /\ Funnel(w) => worker[w].todo \cap ItemOf(w).got = {}
  BY <1>1, Hand DEF Asking
<1>3. PutItem(w, ItemOf(w)) /\ stored' \subseteq Games \X Kinds /\ budget' \in Budgets
  BY <1>1, SameItem DEF ScraperInv, Types
<1>4. worker[w].todo \ {AnyKind(w)} \in SUBSET Kinds
  BY <1>1 DEF WorkerRecs
<1> HIDE DEF missed
<1>5. PICK me \in WorkerRecs : me = [worker[w] EXCEPT !.todo = worker[w].todo \ {AnyKind(w)}, !.miss = missed]
  <2>1. [worker[w] EXCEPT !.todo = worker[w].todo \ {AnyKind(w)}, !.miss = missed] \in WorkerRecs
    BY <1>1, <1>4, <1>10 DEF WorkerRecs
  <2> QED
    BY <2>1
<1>6. /\ me.pc = "fetch" /\ me.job = worker[w].job /\ me.game = worker[w].game /\ me.src = worker[w].src
      /\ me.todo \subseteq worker[w].todo
  BY <1>1, <1>5 DEF WorkerRecs
<1>7. worker' = [worker EXCEPT ![w] = me]
  BY <1>5, <1>9
<1>8. Funnel(w) => me.todo \cap ItemOf(w).got = {}
  BY <1>2, <1>6
<1> QED
  BY <1>1, <1>2, <1>3, <1>6, <1>7, <1>8, HandStep

\* What is downloaded is asked for no more.
LEMMA DownloadStep == ASSUME ScraperInv, NEW w \in Workers, Download(w) PROVE ScraperInv'
<1> DEFINE k == AnyKind(w)
<1>1. /\ worker[w].pc = "fetch" /\ UNCHANGED <<active, cancelling>> /\ UNCHANGED disk
      /\ UNCHANGED budget /\ worker[w] \in WorkerRecs /\ worker[w].todo # {}
  BY DEF Download, ScraperInv, Types
<1>13. /\ worker' = [worker EXCEPT ![w] = [worker[w] EXCEPT !.todo = worker[w].todo \ {k}, !.hit = TRUE]]
      /\ stored' = stored \cup {<<worker[w].game, k>>}
      /\ PutItem(w, [ItemOf(w) EXCEPT !.got = ItemOf(w).got \cup {k}])
  BY <1>1 DEF Download, ScraperInv, Types
<1>2. /\ ItemOf(w) \in ItemRecs /\ ItemOf(w).holder = w /\ ItemOf(w).pass > 0
      /\ worker[w].src \in 1..Len(ChainOf(w)) /\ worker[w].game \in GamesOf(worker[w].job)
      /\ JobOf(w) \in JobRecs
      /\ Funnel(w) => worker[w].todo \cap ItemOf(w).got = {}
  BY <1>1, Hand DEF Asking
<1>3. k \in worker[w].todo /\ k \in Kinds
  <2>1. \E x \in worker[w].todo : x = Details => worker[w].todo = {Details}
    BY <1>1
  <2> QED
    BY <1>1, <2>1 DEF AnyKind, WorkerRecs
<1>4. worker[w].game \in Games
  BY <1>2, JobType DEF JobOf, GamesOf
<1>5. stored' \subseteq Games \X Kinds /\ budget' \in Budgets
  BY <1>1, <1>3, <1>4, <1>13 DEF ScraperInv, Types
<1>6. worker[w].todo \ {k} \in SUBSET Kinds /\ ItemOf(w).got \cup {k} \in SUBSET Kinds
  BY <1>1, <1>2, <1>3 DEF WorkerRecs, ItemRecs
<1> HIDE DEF k
<1>7. PICK me \in WorkerRecs : me = [worker[w] EXCEPT !.todo = worker[w].todo \ {k}, !.hit = TRUE]
  <2>1. [worker[w] EXCEPT !.todo = worker[w].todo \ {k}, !.hit = TRUE] \in WorkerRecs
    BY <1>1, <1>6 DEF WorkerRecs
  <2> QED
    BY <2>1
<1>8. /\ me.pc = "fetch" /\ me.job = worker[w].job /\ me.game = worker[w].game /\ me.src = worker[w].src
      /\ me.todo = worker[w].todo \ {k}
  BY <1>1, <1>7 DEF WorkerRecs
<1>9. PICK it \in ItemRecs : it = [ItemOf(w) EXCEPT !.got = ItemOf(w).got \cup {k}]
  <2>1. [ItemOf(w) EXCEPT !.got = ItemOf(w).got \cup {k}] \in ItemRecs
    BY <1>2, <1>6 DEF ItemRecs
  <2> QED
    BY <2>1
<1>10. it.holder = w /\ it.pass > 0 /\ it.got = ItemOf(w).got \cup {k} /\ PutItem(w, it)
  BY <1>2, <1>9, <1>13 DEF ItemRecs
<1>11. worker' = [worker EXCEPT ![w] = me]
  BY <1>7, <1>13
<1>12. Funnel(w) => me.todo \cap it.got = {}
  BY <1>2, <1>8, <1>10
<1>14. me.pc # "idle" /\ me.pc # "release"
  BY <1>8
<1> QED
  BY <1>1, <1>2, <1>5, <1>14, <1>8, <1>10, <1>11, <1>12, HandStep

\* A database is there, or the job waits for it.
LEMMA PrepareStep == ASSUME ScraperInv, NEW w \in Workers, Prepare(w) PROVE ScraperInv'
<1>1. worker[w].pc = "prepare" /\ UNCHANGED <<active, cancelling, stored>>
  BY DEF Prepare
<1>2. budget' \in Budgets
  BY SpendType DEF Prepare, ScraperInv, Types
<1>3. CASE Pause(w, worker[w].cands)
  <2>1. worker[w].cands \in BOOLEAN
    BY DEF ScraperInv, Types, WorkerRecs
  <2> QED
    BY <1>1, <1>2, <1>3, <2>1, PauseStep
<1>4. CASE MarkStarted(w) /\ Goto(w, "ask")
  <2>1. PICK me \in WorkerRecs : /\ worker' = [worker EXCEPT ![w] = me] /\ me.pc = "ask"
                                 /\ me.job = worker[w].job /\ me.game = worker[w].game
                                 /\ me.src = worker[w].src /\ me.todo = worker[w].todo
    <3>1. "ask" \in Pcs
      OBVIOUS
    <3> QED
      BY <1>4, <3>1, GotoFacts
  <2>2. UNCHANGED disk \/ Save(worker[w].job)
    BY <1>1, <1>4, MarkFacts
  <2>3. PICK it \in ItemRecs : PutItem(w, it) /\ it.holder = w /\ it.pass > 0 /\ it.got = ItemOf(w).got
    BY <1>1, <1>4, MarkFacts
  <2>4. /\ worker[w].src \in 1..Len(ChainOf(w))
        /\ Funnel(w) => worker[w].todo \cap ItemOf(w).got = {}
    BY <1>1, Hand DEF Asking
  <2>5. stored' \subseteq Games \X Kinds
    BY <1>1 DEF ScraperInv, Types
  <2>6. Funnel(w) => me.todo \cap it.got = {}
    BY <2>1, <2>3, <2>4
  <2> QED
    BY <1>1, <1>2, <2>1, <2>2, <2>3, <2>4, <2>5, <2>6, HandStep
<1> QED
  BY <1>3, <1>4 DEF Prepare

\* An account's limit pauses the job.
LEMMA QuotaStep == ASSUME ScraperInv, NEW w \in Workers, Quota(w) PROVE ScraperInv'
<1>1. worker[w].pc = "ask" /\ UNCHANGED <<active, cancelling, stored>> /\ Spend("quota")
  BY DEF Quota
<1>3. PICK some \in BOOLEAN : Pause(w, some)
  <2>1. worker[w].cands \in BOOLEAN
    BY DEF ScraperInv, Types, WorkerRecs
  <2> QED
    BY <2>1 DEF Quota, Searched
<1>2. budget' \in Budgets
  BY <1>1, SpendType DEF ScraperInv
<1> QED
  BY <1>1, <1>2, <1>3, PauseStep

\* A game weighed, and moved down the funnel or out of it.
LEMMA WeighStep == ASSUME ScraperInv, NEW w \in Workers, Weigh(w) PROVE ScraperInv'
<1>1. /\ worker[w].pc = "weigh" /\ UNCHANGED <<active, cancelling, stored, budget>>
      /\ worker[w] \in WorkerRecs /\ worker \in [Workers -> WorkerRecs]
  BY DEF Weigh, ScraperInv, Types
<1>2. /\ ItemOf(w) \in ItemRecs /\ ItemOf(w).holder = w /\ ItemOf(w).pass > 0
      /\ worker[w].src \in 1..Len(ChainOf(w)) /\ SourceOf(w) \in Sources
  BY <1>1, Hand
<1>3. stored' \subseteq Games \X Kinds /\ budget' \in Budgets /\ worker[w].old \in ItemRecs
  BY <1>1 DEF ScraperInv, Types, WorkerRecs
<1>4. CASE Stopped(worker[w].job)
  <2> DEFINE new == [ItemOf(w) EXCEPT !.st = "pending", !.cands = worker[w].old.cands,
                                      !.from = worker[w].old.from]
  <2>1. PutItem(w, new) /\ Save(worker[w].job) /\ Goto(w, "release")
    BY <1>4 DEF Weigh
  <2>2. worker[w].old.cands \in BOOLEAN /\ worker[w].old.from \in Sources \cup {None}
    BY <1>3 DEF ItemRecs
  <2>3. new \in ItemRecs /\ new.holder = w /\ new.pass > 0 /\ new.st # "working"
    BY <1>2, <2>2 DEF ItemRecs
  <2>4. PICK me \in WorkerRecs : /\ worker' = [worker EXCEPT ![w] = me] /\ me.pc = "release"
                                 /\ me.job = worker[w].job /\ me.game = worker[w].game
                                 /\ me.src = worker[w].src
    BY <2>1, GotoFacts
  <2> HIDE DEF new
  <2> QED
    BY <1>1, <1>2, <1>3, <2>1, <2>3, <2>4, HandStep DEF Asking
<1>5. CASE ~Stopped(worker[w].job)
  <2> DEFINE it == ItemOf(w)
             known == IF it.matched /\ ~it.cands /\ it.st # "failed" THEN {SourceOf(w)} ELSE {}
             mid == WithTrouble(it, worker[w].old, SourceOf(w))
             new == [mid EXCEPT !.matches = mid.matches \cup known]
             me == [worker[w] EXCEPT !.old = new, !.pc = "move"]
  <2>1. PutItem(w, new) /\ UNCHANGED disk /\ worker' = [worker EXCEPT ![w] = me]
    BY <1>5 DEF Weigh
  <2>2. known \subseteq Sources
    BY <1>2
  <2>3. mid \in ItemRecs /\ mid.holder = w /\ mid.pass > 0 /\ mid.matches \subseteq Sources
    BY <1>2, <1>3, WithTroubleType
  <2> HIDE DEF mid, known, it
  <2>4. new \in ItemRecs /\ new.holder = w /\ new.pass > 0
    BY <2>2, <2>3 DEF ItemRecs
  <2> HIDE DEF new
  <2>5. me \in WorkerRecs /\ me.job = worker[w].job /\ me.game = worker[w].game /\ me.pc = "move"
        /\ me.src = worker[w].src
    BY <1>1, <2>4 DEF WorkerRecs
  <2> HIDE DEF me
  <2> QED
    BY <1>1, <1>2, <1>3, <2>1, <2>4, <2>5, HandStep DEF Asking
<1> QED
  BY <1>4, <1>5

\* Down the funnel or out of it, the game is working no more.
LEMMA MoveStep == ASSUME ScraperInv, NEW w \in Workers, Move(w) PROVE ScraperInv'
<1>1. /\ worker[w].pc = "move" /\ UNCHANGED <<active, cancelling, stored, budget>>
      /\ MaybeSave(worker[w].job) /\ Goto(w, "release")
  BY DEF Move
<1>2. /\ ItemOf(w) \in ItemRecs /\ ItemOf(w).holder = w /\ ItemOf(w).pass > 0
      /\ worker[w].src \in 1..Len(ChainOf(w)) /\ worker[w].src \in Nat
  BY <1>1, Hand
<1>3. stored' \subseteq Games \X Kinds /\ budget' \in Budgets
  BY <1>1 DEF ScraperInv, Types
<1> DEFINE lack == Lacking(w, worker[w].old)
           down == [ItemOf(w) EXCEPT !.pass = worker[w].src + 1, !.st = "pending"]
           new == IF lack # {} /\ worker[w].src < Len(ChainOf(w)) THEN down ELSE FunnelFinish(ItemOf(w), lack)
<1>4. worker[w].src + 1 \in Nat /\ worker[w].src + 1 > 0
  BY <1>2
<1>5. down \in ItemRecs /\ down.holder = w /\ down.pass > 0 /\ down.st # "working"
  BY <1>2, <1>4 DEF ItemRecs
<1>6. new \in ItemRecs /\ new.holder = w /\ new.pass > 0 /\ new.st # "working"
  BY <1>2, <1>5, FunnelFinishType
<1>7. PutItem(w, new)
  BY DEF Move
<1>8. PICK me \in WorkerRecs : /\ worker' = [worker EXCEPT ![w] = me] /\ me.pc = "release"
                               /\ me.job = worker[w].job /\ me.game = worker[w].game
                               /\ me.src = worker[w].src
  BY <1>1, GotoFacts
<1>9. UNCHANGED disk \/ Save(worker[w].job)
  BY <1>1, Maybe
<1> HIDE DEF new
<1> QED
  BY <1>1, <1>2, <1>3, <1>6, <1>7, <1>8, <1>9, HandStep DEF Asking

\* A pass over: the next one, or the job's end, where no game waits and none is in hand.
LEMMA PassSteps == ASSUME ScraperInv, NEW w \in Workers, NextPass(w) \/ EndJob(w) PROVE ScraperInv'
<1> DEFINE a == active
<1>1. /\ a \in Jobs /\ jobs \in [Jobs -> JobRecs] /\ jobs[a] \in JobRecs /\ PassOver(a) /\ JobOK(a)
      /\ UNCHANGED <<active, cancelling, worker, stored, budget>> /\ Save(a) /\ Types
      /\ Running(a)
  BY DEF NextPass, EndJob, AtWork, ScraperInv, Types
<1>2. \A g \in GamesOf(a) : jobs[a].items[g] \in ItemRecs /\ ItemHeld(a, g)
  BY <1>1, JobType DEF GamesOf, ScraperInv
<1>3. /\ worker' \in [Workers -> WorkerRecs] /\ active' \in Jobs \cup {None} /\ cancelling' \in BOOLEAN
      /\ budget' \in Budgets /\ UNCHANGED stored
  BY <1>1 DEF Types
<1>4. WorkersStay
  BY <1>1 DEF WorkersStay
<1>5. CASE NextPass(w)
  <2>1. Later(a) \in SUBSET Nat /\ Later(a) # {} /\ \A p \in Later(a) : p > 0
    BY <1>1, <1>2, <1>5 DEF Later, NextPass, ItemRecs, JobOK, Begun, GamesOf
  <2>2. PICK p \in Later(a) : p = First(Later(a))
    BY <2>1, FirstIsOne
  <2>3. PICK b \in JobRecs : b = [jobs[a] EXCEPT !.pass = p]
    <3>1. [jobs[a] EXCEPT !.pass = p] \in JobRecs
      BY <1>1, <2>1 DEF JobRecs
    <3> QED
      BY <3>1
  <2>4. b.st = jobs[a].st /\ b.pass = p /\ b.chain = jobs[a].chain /\ b.items = jobs[a].items
    BY <1>1, <2>3 DEF JobRecs
  <2>5. jobs' = [jobs EXCEPT ![a] = b]
    BY <1>1, <1>5, <2>2, <2>3 DEF NextPass
  <2>6. SameHands(a, b)
    BY <2>4 DEF SameHands, GamesOf
  <2>7. Begun(b) /\ Settled(b) /\ Told(a, b)
    BY <1>1, <2>1, <2>4 DEF JobOK, Begun, Settled, Told
  <2> HIDE DEF a
  <2> QED
    BY <1>1, <1>3, <1>4, <2>5, <2>6, <2>7, JobStep
<1>6. CASE EndJob(w)
  <2>1. PICK b \in JobRecs : b = [jobs[a] EXCEPT !.st = "done"]
    <3>1. [jobs[a] EXCEPT !.st = "done"] \in JobRecs
      BY <1>1 DEF JobRecs
    <3> QED
      BY <3>1
  <2>2. b.st = "done" /\ b.pass = jobs[a].pass /\ b.chain = jobs[a].chain /\ b.items = jobs[a].items
    BY <1>1, <2>1 DEF JobRecs
  <2>3. jobs' = [jobs EXCEPT ![a] = b]
    BY <1>1, <1>6, <2>1 DEF EndJob
  <2>4. SameHands(a, b)
    BY <2>2 DEF SameHands, GamesOf
  <2>5. ASSUME NEW g \in GamesOf(a) PROVE jobs[a].items[g].st \in Final /\ jobs[a].items[g].holder = None
    <3> DEFINE it == jobs[a].items[g]
    <3>1. it \in ItemRecs /\ ItemHeld(a, g) /\ jobs[a].pass \in Nat /\ it.pass \in Nat
      BY <1>1, <1>2, JobType DEF ItemRecs
    <3>2. it.holder = None
      BY <1>1 DEF PassOver, InFlight
    <3>3. it.st # "working"
      BY <3>1, <3>2 DEF ItemHeld
    <3>4. ~(it.st = "pending" /\ it.pass <= jobs[a].pass)
      BY <1>1, <3>2 DEF PassOver, Takeable
    <3>5. ~(it.st = "pending" /\ it.pass > jobs[a].pass)
      BY <1>6 DEF EndJob, Later
    <3> QED
      BY <3>1, <3>2, <3>3, <3>4, <3>5 DEF ItemRecs
  <2>6. Begun(b) /\ Told(a, b)
    BY <1>1, <2>2 DEF JobOK, Begun, Told, Running
  <2>7. Settled(b)
    BY <2>2, <2>5 DEF Settled, GamesOf
  <2> HIDE DEF a
  <2> QED
    BY <1>1, <1>3, <1>4, <2>3, <2>4, <2>6, <2>7, JobStep
<1> QED
  BY <1>5, <1>6

-----------------------------------------------------------------------------
(* The page's steps, and the server's end.                                 *)

\* A new job's games are in no one's hands, and no worker is in it.
LEMMA StartStep == ASSUME ScraperInv, NEW j0 \in Jobs, NEW r \in budget.requests, Start(j0, r)
                   PROVE  ScraperInv'
<1>1. /\ Types /\ JobOK(j0) /\ jobs[j0].st = "none" /\ Spend("start") /\ Save(j0)
      /\ active' = j0 /\ cancelling' = FALSE /\ UNCHANGED <<worker, stored>>
  BY DEF Start, ScraperInv
<1>2. r \in Asked
  BY <1>1 DEF Types, Budgets
<1>3. /\ r.chain \in Seq(Sources) /\ r.chain # <<>> /\ r.games \in SUBSET Games /\ r.kinds \in SUBSET Kinds
      /\ r.overwrite \in BOOLEAN
  BY <1>2 DEF Asked
<1>4. Len(r.chain) \in Nat /\ Len(r.chain) > 0
  BY <1>3
<1>3k. KindsOf(r) \in SUBSET Kinds
  BY <1>3 DEF KindsOf
<1> DEFINE f == [g \in r.games |-> Item0]
           b == [Job0 EXCEPT !.st = "running", !.chain = r.chain, !.kinds = KindsOf(r),
                             !.overwrite = r.overwrite, !.items = f]
<1>5. f \in ItemMaps
  <2>1. f \in [r.games -> ItemRecs]
    BY Item0Type
  <2> QED
    BY <1>3, <2>1 DEF ItemMaps
<1>6. /\ b \in JobRecs /\ b.st = "running" /\ b.pass = 1 /\ b.chain = r.chain /\ b.items = f
  BY <1>3, <1>3k, <1>5 DEF Job0, JobRecs
<1>7. jobs' = [jobs EXCEPT ![j0] = b]
  BY DEF Start
<1>8. GamesOf(j0) = {}
  BY <1>1 DEF JobOK, Begun, GamesOf
<1>9. \A g \in DOMAIN f : f[g].pass = 1 /\ f[g].holder = None /\ f[g].st = "pending"
  BY DEF Item0
<1> HIDE DEF f, b
<1>10. Begun(b) /\ Settled(b)
  BY <1>4, <1>6, <1>9 DEF Begun, Settled
<1>11. /\ jobs' \in [Jobs -> JobRecs] /\ \A j \in Jobs : jobs'[j] = IF j = j0 THEN b ELSE jobs[j]
  BY <1>1, <1>6, <1>7 DEF Types
<1>12. /\ disk' \in [Jobs -> JobRecs]
       /\ \A j \in Jobs : disk'[j] = IF j = j0 THEN Saved(b) ELSE disk[j]
  BY <1>1, <1>6, <1>11, SavedType DEF Types, Save
<1>13. Types'
  BY <1>1, <1>11, <1>12, SpendType DEF Types
<1>14. ASSUME NEW j \in Jobs PROVE JobOK(j)'
  <2>1. CASE j = j0
    <3>1. jobs'[j] = b /\ disk'[j] = Saved(b)
      BY <1>11, <1>12, <2>1
    <3> QED
      BY <1>6, <1>10, <3>1, SavedType DEF JobOK
  <2>2. CASE j # j0
    <3>1. jobs'[j] = jobs[j] /\ disk'[j] = disk[j] /\ JobOK(j)
      BY <1>11, <1>12, <2>2 DEF ScraperInv
    <3> QED
      BY <3>1 DEF JobOK
  <2> QED
    BY <2>1, <2>2
<1>15. ASSUME NEW j \in Jobs, NEW g \in GamesOf(j)' PROVE ItemHeld(j, g)'
  <2>1. CASE j = j0
    <3>1. jobs'[j].items = f /\ g \in DOMAIN f
      BY <1>6, <1>11, <2>1 DEF GamesOf
    <3> QED
      BY <1>9, <3>1 DEF ItemHeld
  <2>2. CASE j # j0
    <3>1. jobs'[j] = jobs[j] /\ worker' = worker /\ g \in GamesOf(j)
      BY <1>1, <1>11, <2>2 DEF GamesOf
    <3>2. ItemHeld(j, g)
      BY <3>1 DEF ScraperInv
    <3> QED
      BY <3>1, <3>2 DEF ItemHeld
  <2> QED
    BY <2>1, <2>2
<1>16. ASSUME NEW v \in Workers PROVE InHand(v)'
  <2> SUFFICES ASSUME worker[v].pc # "idle" PROVE InHand(v)'
    BY <1>1 DEF InHand
  <2>1. worker[v].job \in Jobs /\ worker[v].game \in GamesOf(worker[v].job) /\ InHand(v)
    BY Hand DEF ScraperInv
  <2>2. jobs'[worker[v].job] = jobs[worker[v].job] /\ worker' = worker
    BY <1>1, <1>8, <1>11, <2>1
  <2> QED
    BY <2>1, <2>2 DEF InHand, GamesOf, ItemOf, ChainOf, Funnel
<1> QED
  BY <1>13, <1>14, <1>15, <1>16 DEF ScraperInv

\* The page's other steps on a job keep its games with who has them.
LEMMA PageJob == ASSUME ScraperInv, NEW j \in Jobs, UNCHANGED <<worker, stored>>,
    active' \in Jobs \cup {None}, cancelling' \in BOOLEAN, budget' \in Budgets,
    NEW b \in JobRecs, jobs' = [jobs EXCEPT ![j] = b], SameHands(j, b), Begun(b), Settled(b), Told(j, b)
    PROVE ScraperInv'
<1>1. worker' \in [Workers -> WorkerRecs] /\ WorkersStay
  BY DEF ScraperInv, Types, WorkersStay
<1> QED
  BY <1>1, JobStep

\* What may be written of a job as a whole.
Writable(j, b) == b \in JobRecs /\ SameHands(j, b) /\ Begun(b) /\ Settled(b)

\* A job with one game changed, and running or as it was.
LEMMA ItemWrite == ASSUME ScraperInv, NEW j \in Jobs, NEW g \in GamesOf(j), NEW it \in ItemRecs,
    it.holder = jobs[j].items[g].holder, it.got = jobs[j].items[g].got, it.st # "working", it.pass > 0,
    NEW st \in {jobs[j].st, "running"}, st = "done" => it.st \in Final
    PROVE Writable(j, [jobs[j] EXCEPT !.st = st, !.items = [jobs[j].items EXCEPT ![g] = it]])
<1>1. jobs[j] \in JobRecs /\ JobOK(j)
  BY DEF ScraperInv, Types
<1>2. jobs[j].items \in [GamesOf(j) -> ItemRecs] /\ GamesOf(j) \subseteq Games
  BY <1>1, JobType DEF GamesOf
<1> DEFINE f == [jobs[j].items EXCEPT ![g] = it]
           b == [jobs[j] EXCEPT !.st = st, !.items = f]
<1>3. f \in [GamesOf(j) -> ItemRecs] /\ \A h \in GamesOf(j) : f[h] = IF h = g THEN it ELSE jobs[j].items[h]
  BY <1>2
<1>4. f \in ItemMaps
  BY <1>2, <1>3 DEF ItemMaps
<1>5. DOMAIN f = GamesOf(j)
  BY <1>3
<1> HIDE DEF f
<1>6. st \in JobStates
  BY <1>1 DEF JobRecs
<1>7. b \in JobRecs /\ b.st = st /\ b.pass = jobs[j].pass /\ b.chain = jobs[j].chain /\ b.items = f
  BY <1>1, <1>4, <1>6 DEF JobRecs
<1> HIDE DEF b
<1>8. SameHands(j, b)
  BY <1>3, <1>5, <1>7 DEF SameHands
<1>9. Begun(b)
  <2>1. \A h \in GamesOf(j) : f[h].pass > 0
    BY <1>1, <1>3 DEF JobOK, Begun, GamesOf
  <2>2. st # "none" /\ Len(jobs[j].chain) > 0
    BY <1>1 DEF JobOK, Begun, GamesOf
  <2> QED
    BY <1>1, <1>5, <1>7, <2>1, <2>2 DEF JobOK, Begun
<1>10. Settled(b)
  <2> SUFFICES ASSUME st = "done" PROVE \A h \in GamesOf(j) : f[h].st \in Final /\ f[h].holder = None
    BY <1>5, <1>7 DEF Settled
  <2>1. jobs[j].st = "done"
    OBVIOUS
  <2> QED
    BY <1>1, <1>3, <2>1 DEF JobOK, Settled, GamesOf
<1> QED
  BY <1>7, <1>8, <1>9, <1>10 DEF b, f, Writable

\* The user skips a game, whoever has it.
LEMMA SkipStep == ASSUME ScraperInv, NEW j \in Jobs, NEW g \in GamesOf(j), Skip(j, g) PROVE ScraperInv'
<1>1. /\ jobs[j] \in JobRecs /\ Types /\ UNCHANGED <<active, cancelling, worker, stored>> /\ Save(j)
      /\ Spend("skip")
  BY DEF Skip, ScraperInv, Types
<1>2. jobs[j].items[g] \in ItemRecs /\ jobs[j].items[g].pass > 0
  BY <1>1, JobType DEF GamesOf, ScraperInv, JobOK, Begun
<1>3. PICK it \in ItemRecs : it = [jobs[j].items[g] EXCEPT !.st = "skipped"]
  <2>1. [jobs[j].items[g] EXCEPT !.st = "skipped"] \in ItemRecs
    BY <1>2 DEF ItemRecs
  <2> QED
    BY <2>1
<1>4. it.holder = jobs[j].items[g].holder /\ it.got = jobs[j].items[g].got /\ it.st = "skipped" /\ it.pass > 0
  BY <1>2, <1>3 DEF ItemRecs
<1>9. jobs[j].st \in {jobs[j].st, "running"} /\ it.st # "working" /\ it.st \in Final
  BY <1>4
<1>5. PICK b \in JobRecs : /\ b = [jobs[j] EXCEPT !.st = jobs[j].st, !.items = [jobs[j].items EXCEPT ![g] = it]]
                           /\ SameHands(j, b) /\ Begun(b) /\ Settled(b)
  BY <1>4, <1>9, ItemWrite DEF Writable
<1>6. [jobs[j] EXCEPT !.st = jobs[j].st, !.items = [jobs[j].items EXCEPT ![g] = it]]
      = [jobs[j] EXCEPT !.items = [jobs[j].items EXCEPT ![g] = it]]
  BY <1>1 DEF JobRecs
<1>7. jobs' = [jobs EXCEPT ![j] = b]
  BY <1>1, <1>3, <1>5, <1>6 DEF Skip, Types
<1>8. Told(j, b) /\ budget' \in Budgets /\ active' \in Jobs \cup {None} /\ cancelling' \in BOOLEAN
  BY <1>1, SpendType DEF Told, Types
<1> QED
  BY <1>1, <1>5, <1>7, <1>8, PageJob

\* The user searches a name for a game, whoever has it.
LEMMA SearchStep == ASSUME ScraperInv, NEW j \in Jobs, NEW g \in GamesOf(j), Search(j, g) PROVE ScraperInv'
<1>1. /\ jobs[j] \in JobRecs /\ Types /\ UNCHANGED <<active, cancelling, worker, stored, disk>>
      /\ Spend("search")
  BY DEF Search, ScraperInv, Types
<1>2. jobs[j].items[g] \in ItemRecs /\ jobs[j].items[g].pass > 0 /\ Len(jobs[j].chain) > 0
      /\ jobs[j].chain \in Seq(Sources)
  BY <1>1, JobType DEF GamesOf, ScraperInv, JobOK, Begun
<1> DEFINE from == IF jobs[j].items[g].from # None THEN jobs[j].items[g].from ELSE jobs[j].chain[1]
<1>3. from \in Sources \cup {None}
  BY <1>2 DEF ItemRecs
<1>4. PICK some \in BOOLEAN : jobs' = [jobs EXCEPT ![j].items[g] =
         [jobs[j].items[g] EXCEPT !.cands = some, !.st = IF some THEN "ambiguous" ELSE "unmatched", !.from = from]]
  BY DEF Search
<1> HIDE DEF from
<1>5. PICK it \in ItemRecs : it =
         [jobs[j].items[g] EXCEPT !.cands = some, !.st = IF some THEN "ambiguous" ELSE "unmatched", !.from = from]
  <2>1. [jobs[j].items[g] EXCEPT !.cands = some, !.st = IF some THEN "ambiguous" ELSE "unmatched", !.from = from]
        \in ItemRecs
    BY <1>2, <1>3 DEF ItemRecs
  <2> QED
    BY <2>1
<1>6. it.holder = jobs[j].items[g].holder /\ it.got = jobs[j].items[g].got /\ it.pass > 0 /\ it.st # "working"
      /\ it.st \in Final
  BY <1>2, <1>5 DEF ItemRecs
<1>11. jobs[j].st \in {jobs[j].st, "running"}
  OBVIOUS
<1>7. PICK b \in JobRecs : /\ b = [jobs[j] EXCEPT !.st = jobs[j].st, !.items = [jobs[j].items EXCEPT ![g] = it]]
                           /\ SameHands(j, b) /\ Begun(b) /\ Settled(b)
  BY <1>6, <1>11, ItemWrite DEF Writable
<1>8. [jobs[j] EXCEPT !.st = jobs[j].st, !.items = [jobs[j].items EXCEPT ![g] = it]]
      = [jobs[j] EXCEPT !.items = [jobs[j].items EXCEPT ![g] = it]]
  BY <1>1 DEF JobRecs
<1>9. jobs' = [jobs EXCEPT ![j] = b]
  BY <1>1, <1>4, <1>5, <1>7, <1>8 DEF Types
<1>10. Told(j, b) /\ budget' \in Budgets /\ active' \in Jobs \cup {None} /\ cancelling' \in BOOLEAN
  <2>1. b.st = jobs[j].st /\ b.pass = jobs[j].pass
    BY <1>1, <1>7 DEF JobRecs
  <2> QED
    BY <1>1, <2>1, SpendType DEF Told, Types
<1> QED
  BY <1>1, <1>7, <1>9, <1>10, PageJob

\* The user chooses a game's name, and its job runs.
LEMMA ChooseStep == ASSUME ScraperInv, NEW j \in Jobs, NEW g \in GamesOf(j), Choose(j, g) PROVE ScraperInv'
<1> DEFINE old == jobs[j].items[g]
           src == IF old.from # None THEN old.from ELSE jobs[j].chain[1]
           S == {i \in DOMAIN jobs[j].chain : jobs[j].chain[i] = src} \cup {jobs[j].pass}
           n == First(S)
<1>1. /\ jobs[j] \in JobRecs /\ Types /\ UNCHANGED <<worker, stored>> /\ Save(j) /\ Spend("choose")
      /\ active' = j /\ cancelling' = FALSE
      /\ jobs' = [jobs EXCEPT ![j].items[g] = Chosen(old, src, n), ![j].st = "running"]
  BY DEF Choose, ScraperInv, Types
<1>2. old \in ItemRecs /\ old.pass > 0 /\ Len(jobs[j].chain) > 0
      /\ jobs[j].chain \in Seq(Sources) /\ jobs[j].pass \in Nat /\ jobs[j].pass > 0
  BY <1>1, JobType DEF GamesOf, ScraperInv, JobOK, Begun
<1>3. src \in Sources
  BY <1>2 DEF ItemRecs
<1>4. S \in SUBSET Nat /\ S # {} /\ \A i \in S : i > 0
  BY <1>2
<1>5. n \in Nat /\ n > 0
  BY <1>4, FirstIsOne
<1>6. old.matches \cup {src} \in SUBSET Sources
  BY <1>2, <1>3 DEF ItemRecs
<1> HIDE DEF n, src
<1>7. PICK it \in ItemRecs : it = Chosen(old, src, n)
  <2>1. Chosen(old, src, n) \in ItemRecs
    BY <1>2, <1>5, <1>6 DEF ItemRecs, Chosen
  <2> QED
    BY <2>1
<1>8. it.holder = old.holder /\ it.got = old.got /\ it.st # "working" /\ it.pass > 0
  BY <1>2, <1>5, <1>7 DEF ItemRecs, Chosen
<1>13. "running" \in {jobs[j].st, "running"} /\ ("running" = "done" => it.st \in Final)
  OBVIOUS
<1>14. Writable(j, [jobs[j] EXCEPT !.st = "running", !.items = [jobs[j].items EXCEPT ![g] = it]])
  BY <1>8, <1>13, ItemWrite
<1>9. PICK b \in JobRecs : /\ b = [jobs[j] EXCEPT !.st = "running", !.items = [jobs[j].items EXCEPT ![g] = it]]
                           /\ SameHands(j, b) /\ Begun(b) /\ Settled(b)
  BY <1>14 DEF Writable
<1>10. [jobs[j] EXCEPT !.st = "running", !.items = [jobs[j].items EXCEPT ![g] = it]]
       = [jobs[j] EXCEPT !.items = [jobs[j].items EXCEPT ![g] = it], !.st = "running"]
  BY <1>1 DEF JobRecs
<1>11. jobs' = [jobs EXCEPT ![j] = b]
  BY <1>1, <1>7, <1>9, <1>10 DEF Types
<1>12. Told(j, b) /\ budget' \in Budgets /\ active' \in Jobs \cup {None} /\ cancelling' \in BOOLEAN
  BY <1>1, SpendType DEF Told, Types
<1> QED
  BY <1>1, <1>9, <1>11, <1>12, PageJob

\* Games put back, each still with who has it.
GamesStay(j, f) == \A g \in GamesOf(j) :
    /\ f[g].holder = jobs[j].items[g].holder /\ f[g].got = jobs[j].items[g].got
    /\ f[g].st = "working" => jobs[j].items[g].st = "working"
    /\ f[g].pass > 0

\* A job whose games are put back may be written.
LEMMA GamesWrite == ASSUME ScraperInv, NEW j \in Jobs, NEW st \in JobStates \ {"none", "done"},
    NEW p \in Nat, p > 0, NEW f \in [GamesOf(j) -> ItemRecs], GamesStay(j, f)
    PROVE Writable(j, [jobs[j] EXCEPT !.st = st, !.pass = p, !.items = f])
<1>1. jobs[j] \in JobRecs /\ JobOK(j)
  BY DEF ScraperInv, Types
<1>2. GamesOf(j) \subseteq Games
  BY <1>1, JobType DEF GamesOf
<1>3. f \in ItemMaps /\ DOMAIN f = GamesOf(j)
  BY <1>2 DEF ItemMaps
<1> DEFINE b == [jobs[j] EXCEPT !.st = st, !.pass = p, !.items = f]
<1>4. b \in JobRecs /\ b.st = st /\ b.pass = p /\ b.chain = jobs[j].chain /\ b.items = f
  BY <1>1, <1>3 DEF JobRecs
<1> HIDE DEF b
<1>5. SameHands(j, b)
  BY <1>3, <1>4 DEF SameHands, GamesStay
<1>6. Begun(b) /\ Settled(b)
  BY <1>1, <1>3, <1>4 DEF GamesStay, JobOK, Begun, Settled, GamesOf
<1> QED
  BY <1>4, <1>5, <1>6 DEF b, Writable

\* A job is cancelled; its games stay with who has them.
LEMMA CancelStep == ASSUME ScraperInv, NEW j \in Jobs, Cancel(j) PROVE ScraperInv'
<1>1. /\ jobs[j] \in JobRecs /\ Types /\ UNCHANGED <<active, worker, stored>> /\ Save(j) /\ Spend("cancel")
      /\ cancelling' = TRUE /\ jobs[j].pass \in Nat /\ jobs[j].pass > 0
  BY JobType DEF Cancel, ScraperInv, Types, JobOK, Begun
<1> DEFINE f == [g \in GamesOf(j) |-> Waiting(jobs[j].items[g])]
<1>2. ASSUME NEW g \in GamesOf(j)
      PROVE  /\ Waiting(jobs[j].items[g]) \in ItemRecs
             /\ f[g].holder = jobs[j].items[g].holder /\ f[g].got = jobs[j].items[g].got
             /\ f[g].st = "working" => jobs[j].items[g].st = "working"
             /\ f[g].pass > 0
  <2>1. jobs[j].items[g] \in ItemRecs /\ jobs[j].items[g].pass > 0
    BY <1>1, JobType DEF GamesOf, ScraperInv, JobOK, Begun
  <2> QED
    BY <2>1 DEF Waiting, ItemRecs
<1>3. f \in [GamesOf(j) -> ItemRecs]
  BY <1>2
<1>4. jobs' = [jobs EXCEPT ![j] = [jobs[j] EXCEPT !.st = "cancelled", !.items = f]]
  BY <1>1 DEF Cancel, Types, GamesOf
<1> HIDE DEF f
<1>5. PICK b \in JobRecs : /\ b = [jobs[j] EXCEPT !.st = "cancelled", !.pass = jobs[j].pass, !.items = f]
                           /\ SameHands(j, b) /\ Begun(b) /\ Settled(b)
  <2>1. GamesStay(j, f)
    BY <1>2 DEF GamesStay
  <2>2. "cancelled" \in JobStates \ {"none", "done"}
    OBVIOUS
  <2> QED
    <3>1. Writable(j, [jobs[j] EXCEPT !.st = "cancelled", !.pass = jobs[j].pass, !.items = f])
      BY <1>1, <1>3, <2>1, <2>2, GamesWrite
    <3> QED
      BY <3>1 DEF Writable
<1>6. [jobs[j] EXCEPT !.st = "cancelled", !.pass = jobs[j].pass, !.items = f]
      = [jobs[j] EXCEPT !.st = "cancelled", !.items = f]
  BY <1>1 DEF JobRecs
<1>7. jobs' = [jobs EXCEPT ![j] = b]
  BY <1>4, <1>5, <1>6
<1>8. Told(j, b) /\ budget' \in Budgets /\ active' \in Jobs \cup {None} /\ cancelling' \in BOOLEAN
  BY <1>1, SpendType DEF Told, Types
<1> QED
  BY <1>1, <1>5, <1>7, <1>8, PageJob

\* A game that starts again: where it was, or at the top.
LEMMA AgainType == ASSUME NEW it \in ItemRecs, it.pass > 0, NEW funnel \in BOOLEAN
    PROVE /\ Again(it, funnel) \in ItemRecs /\ Again(it, funnel).holder = it.holder
          /\ Again(it, funnel).got = it.got /\ Again(it, funnel).pass > 0
          /\ Again(it, funnel).st = "working" => it.st = "working"
<1>1. CASE it.st = "failed" /\ funnel
  <2>1. Again(it, funnel) = it \/ Again(it, funnel) = [it EXCEPT !.st = "pending", !.pass = 1, !.held = "none"]
    BY <1>1 DEF Again
  <2> DEFINE new == [it EXCEPT !.st = "pending", !.pass = 1, !.held = "none"]
  <2>2. /\ new \in ItemRecs /\ new.holder = it.holder /\ new.got = it.got /\ new.pass = 1
        /\ new.st = "pending"
    BY DEF ItemRecs
  <2>3. Again(it, funnel) = it \/ Again(it, funnel) = new
    BY <2>1
  <2> HIDE DEF new
  <2> QED
    BY <2>2, <2>3
<1>2. CASE ~(it.st = "failed" /\ funnel)
  <2>1. Again(it, funnel) = it \/ Again(it, funnel) = [it EXCEPT !.st = "pending"]
    BY <1>2 DEF Again
  <2>2. LET new == [it EXCEPT !.st = "pending"]
        IN  /\ new \in ItemRecs /\ new.holder = it.holder /\ new.got = it.got /\ new.pass = it.pass
            /\ new.st = "pending"
    BY DEF ItemRecs
  <2> QED
    BY <2>1, <2>2
<1> QED
  BY <1>1, <1>2

\* A job is resumed; a game in hand is left to its worker.
LEMMA ResumeStep == ASSUME ScraperInv, NEW j \in Jobs, Resume(j) PROVE ScraperInv'
<1>1. /\ jobs[j] \in JobRecs /\ Types /\ UNCHANGED <<worker, stored>> /\ Save(j) /\ Spend("resume")
      /\ active' = j /\ cancelling' = FALSE /\ jobs[j].pass \in Nat /\ jobs[j].pass > 0
  BY JobType DEF Resume, ScraperInv, Types, JobOK, Begun
<1> DEFINE funnel == Len(jobs[j].chain) > 1
           f == [g \in GamesOf(j) |-> Again(jobs[j].items[g], funnel)]
           waiting == {f[g].pass : g \in {h \in GamesOf(j) : f[h].st = "pending"}}
           p == IF Len(jobs[j].chain) = 1 THEN jobs[j].pass ELSE IF waiting = {} THEN 1 ELSE First(waiting)
<1>2. ASSUME NEW g \in GamesOf(j)
      PROVE  /\ f[g] \in ItemRecs
             /\ f[g].holder = jobs[j].items[g].holder /\ f[g].got = jobs[j].items[g].got
             /\ f[g].st = "working" => jobs[j].items[g].st = "working"
             /\ f[g].pass > 0 /\ f[g].pass \in Nat
  <2>1. jobs[j].items[g] \in ItemRecs /\ jobs[j].items[g].pass > 0
    BY <1>1, JobType DEF GamesOf, ScraperInv, JobOK, Begun
  <2>2. funnel \in BOOLEAN
    OBVIOUS
  <2> HIDE DEF funnel
  <2>3. f[g] = Again(jobs[j].items[g], funnel)
    OBVIOUS
  <2>4. f[g] \in ItemRecs /\ f[g].pass > 0
    BY <2>1, <2>2, <2>3, AgainType
  <2> QED
    BY <2>1, <2>2, <2>3, <2>4, AgainType DEF ItemRecs
<1>3. f \in [GamesOf(j) -> ItemRecs]
  BY <1>2
<1>4. jobs' = [jobs EXCEPT ![j] = [jobs[j] EXCEPT !.items = f, !.st = "running", !.pass = p]]
  <2>1. DOMAIN f = GamesOf(j)
    OBVIOUS
  <2>2. Resumed(jobs[j]) = [jobs[j] EXCEPT !.items = f, !.st = "running", !.pass = p]
    BY <2>1 DEF Resumed, GamesOf
  <2> QED
    BY <1>1, <2>2 DEF Resume, Types
<1>5. p \in Nat /\ p > 0
  <2>1. waiting \in SUBSET Nat /\ \A i \in waiting : i > 0
    BY <1>2
  <2> HIDE DEF waiting
  <2>2. waiting # {} => First(waiting) \in waiting
    BY <2>1, FirstIsOne
  <2>3. waiting # {} => First(waiting) \in Nat /\ First(waiting) > 0
    BY <2>1, <2>2
  <2> QED
    BY <1>1, <2>3
<1> HIDE DEF f, p
<1>6. PICK b \in JobRecs : /\ b = [jobs[j] EXCEPT !.st = "running", !.pass = p, !.items = f]
                           /\ SameHands(j, b) /\ Begun(b) /\ Settled(b)
  <2>1. GamesStay(j, f)
    BY <1>2 DEF GamesStay
  <2>2. "running" \in JobStates \ {"none", "done"}
    OBVIOUS
  <2> QED
    <3>1. Writable(j, [jobs[j] EXCEPT !.st = "running", !.pass = p, !.items = f])
      BY <1>3, <1>5, <2>1, <2>2, GamesWrite
    <3> QED
      BY <3>1 DEF Writable
<1>7. [jobs[j] EXCEPT !.st = "running", !.pass = p, !.items = f]
      = [jobs[j] EXCEPT !.items = f, !.st = "running", !.pass = p]
  BY <1>1 DEF JobRecs
<1>8. jobs' = [jobs EXCEPT ![j] = b]
  BY <1>4, <1>6, <1>7
<1>9. Told(j, b) /\ budget' \in Budgets /\ active' \in Jobs \cup {None} /\ cancelling' \in BOOLEAN
  BY <1>1, SpendType DEF Told, Types
<1> QED
  BY <1>1, <1>6, <1>8, <1>9, PageJob

\* The job the next server goes on with is one of the jobs, or none.
LEMMA LatestIsOne == LatestRunning \in Jobs \cup {None}
<1> DEFINE running == {j \in Jobs : disk[j].st = "running"}
<1>1. CASE running = {}
  BY <1>1 DEF LatestRunning
<1>2. CASE running # {}
  <2>1. PICK n \in Nat : Jobs = 1..n
    BY ScraperAssumption, FS_CardinalityType
  <2> DEFINE S == {n - j : j \in running}
  <2>2. S \in SUBSET Nat /\ S # {}
    BY <1>2, <2>1
  <2>3. PICK m \in S : \A i \in S : ~(<<i, m>> \in OpToRel(<, Nat))
    BY <2>2, WFMin, NatLessThanWellFounded
  <2>4. PICK j \in running : m = n - j
    BY <2>3
  <2>5. \A i \in running : i <= j
    <3> TAKE i \in running
    <3>1. n - i \in S /\ n - i \in Nat /\ m \in Nat
      BY <2>1, <2>2
    <3>2. ~(n - i < m)
      BY <2>3, <3>1 DEF OpToRel
    <3> QED
      BY <2>1, <2>4, <3>2
  <2>6. LatestRunning \in running
    BY <1>2, <2>5 DEF LatestRunning
  <2> QED
    BY <2>6
<1> QED
  BY <1>1, <1>2

\* After the server's end the jobs are what their files tell, and no one has a game.
LEMMA CrashStep == ASSUME ScraperInv, Crash PROVE ScraperInv'
<1>1. /\ Types /\ jobs' = disk /\ disk' = disk /\ cancelling' = FALSE /\ stored' = stored
      /\ active' \in Jobs \cup {None} /\ budget' \in Budgets
      /\ worker' = [w \in Workers |-> Idle]
  BY LatestIsOne, SpendType DEF Crash, ScraperInv
<1>2. Types'
  BY <1>1, IdleType DEF Types
<1>3. ASSUME NEW j \in Jobs PROVE JobOK(j)'
  BY <1>1 DEF ScraperInv, JobOK
<1>4. ASSUME NEW j \in Jobs, NEW g \in GamesOf(j)' PROVE ItemHeld(j, g)'
  <2>1. AtRest(disk[j]) /\ jobs'[j] = disk[j] /\ g \in DOMAIN disk[j].items
    BY <1>1 DEF ScraperInv, JobOK, GamesOf
  <2> QED
    BY <2>1 DEF AtRest, ItemHeld
<1>5. ASSUME NEW v \in Workers PROVE InHand(v)'
  BY <1>1 DEF InHand, Idle
<1> QED
  BY <1>2, <1>3, <1>4, <1>5 DEF ScraperInv

-----------------------------------------------------------------------------
(* The theorems.                                                           *)

\* No job was started, and no worker has anything.
LEMMA ScraperInit == Init => ScraperInv
<1> SUFFICES ASSUME Init PROVE ScraperInv
  OBVIOUS
<1>1. budget \in Budgets
  BY ScraperAssumption DEF Init, Budgets
<1>2. Types
  BY <1>1, Job0Type, IdleType, ScraperAssumption DEF Init, Types
<1>3. ASSUME NEW j \in Jobs PROVE JobOK(j) /\ GamesOf(j) = {}
  <2>1. jobs[j] = Job0 /\ disk[j] = Job0 /\ DOMAIN Job0.items = {}
    BY Job0Type DEF Init
  <2>2. Job0.pass = 1 /\ Job0.st = "none"
    BY DEF Job0
  <2> QED
    BY <2>1, <2>2 DEF JobOK, Begun, Settled, AtRest, GamesOf
<1>4. ASSUME NEW w \in Workers PROVE InHand(w)
  BY DEF Init, InHand, Idle
<1> QED
  BY <1>2, <1>3, <1>4 DEF ScraperInv

\* Every step keeps the invariant.
LEMMA ScraperNext == ScraperInv /\ [Next]_vars => ScraperInv'
<1> SUFFICES ASSUME ScraperInv, [Next]_vars PROVE ScraperInv'
  OBVIOUS
<1>1. CASE PageStep
  <2>1. CASE \E j \in Jobs : Cancel(j) \/ Resume(j) \/ \E r \in budget.requests : Start(j, r)
    BY <2>1, CancelStep, ResumeStep, StartStep
  <2>2. CASE \E j \in Jobs : \E g \in GamesOf(j) : Skip(j, g) \/ Choose(j, g) \/ Search(j, g)
    BY <2>2, SkipStep, ChooseStep, SearchStep
  <2> QED
    BY <1>1, <2>1, <2>2 DEF PageStep
<1>2. CASE Crash
  BY <1>2, CrashStep
<1>3. ASSUME NEW w \in Workers, WorkerStep(w) PROVE ScraperInv'
  BY <1>3, TakeStep, PassSteps, CopyStep, LookStep, EnterStep, BeginStep, PrepareStep, QuotaStep, AnswerSteps, KnownStep,
     DownloadStep, NoneOfItStep, WeighStep, MoveStep, ReleaseStep DEF WorkerStep
<1>4. CASE UNCHANGED vars
  <2>1. /\ jobs' = jobs /\ active' = active /\ cancelling' = cancelling /\ worker' = worker
        /\ stored' = stored /\ disk' = disk /\ budget' = budget
    BY <1>4 DEF vars
  <2>2. Types'
    BY <2>1 DEF ScraperInv, Types
  <2>3. ASSUME NEW j \in Jobs PROVE JobOK(j)' /\ GamesOf(j)' = GamesOf(j)
    BY <2>1, <2>3 DEF ScraperInv, JobOK, GamesOf
  <2>4. ASSUME NEW j \in Jobs, NEW g \in GamesOf(j) PROVE ItemHeld(j, g)'
    BY <2>1, <2>4 DEF ScraperInv, ItemHeld
  <2>5. ASSUME NEW v \in Workers PROVE InHand(v)'
    <3>1. InHand(v)
      BY <2>5 DEF ScraperInv
    <3> QED
      BY <2>1, <3>1 DEF InHand, GamesOf, ItemOf, ChainOf, Funnel
  <2> QED
    BY <2>2, <2>3, <2>4, <2>5 DEF ScraperInv
<1> QED
  BY <1>1, <1>2, <1>3, <1>4 DEF Next

\* The invariant of the scraper's jobs: of every worker what it has in hand, of every game who
\* has it, of every file that it tells its job.
THEOREM ScraperSafe == Spec => []ScraperInv
<1> QED
  BY ScraperInit, ScraperNext, PTL DEF Spec

\* A game is in one worker's hands or in none, none is left working with nobody at it, and
\* what the job already found is not asked again (Item.holder, funnel).
THEOREM HeldGames == Spec => []GamesAreHeld
<1>1. ScraperInv => GamesAreHeld
  <2> SUFFICES ASSUME ScraperInv PROVE GamesAreHeld
    OBVIOUS
  <2>1. TypeOK
    <3>1. /\ active \in Jobs \cup {None} /\ cancelling \in BOOLEAN /\ stored \subseteq Games \X Kinds
          /\ \A w \in Workers : worker[w].pc \in Pcs
      BY DEF ScraperInv, Types, WorkerRecs
    <3>2. ASSUME NEW j \in Jobs PROVE
          /\ jobs[j].st \in JobStates /\ disk[j].st \in JobStates
          /\ \A g \in GamesOf(j) : jobs[j].items[g] \in ItemRecs
      BY JobType DEF ScraperInv, Types, GamesOf
    <3> QED
      BY <3>1, <3>2 DEF TypeOK, ItemRecs
  <2>2. HeldByOne
    <3>1. \A w \in Workers : worker[w].pc # "idle" => ItemOf(w).holder = w
      BY Hand
    <3>2. \A j \in Jobs : \A g \in GamesOf(j) : ItemHeld(j, g)
      BY DEF ScraperInv
    <3> QED
      BY <3>1, <3>2 DEF HeldByOne, ItemHeld
  <2>3. NoneForgotten
    BY DEF NoneForgotten, ScraperInv, ItemHeld
  <2>4. AskedOnce
    BY Hand DEF AskedOnce, Asking
  <2> QED
    BY <2>1, <2>2, <2>3, <2>4 DEF GamesAreHeld
<1> QED
  BY <1>1, ScraperSafe, PTL

\* A job that says it is done has nothing left to do, and the file of a job tells its state and
\* its pass at every moment, though saves are held back (save_job).
THEOREM ToldJobs == Spec => []JobIsTold
<1>1. ScraperInv => JobIsTold
  BY DEF JobIsTold, DoneIsSettled, FileTellsState, ScraperInv, JobOK, Settled, GamesOf
<1> QED
  BY <1>1, ScraperSafe, PTL
=============================================================================

---------------------------- MODULE Update_proofs ----------------------------
(***************************************************************************)
(* Proofs about Update, for any number of files and of releases: the       *)
(* updater's types, its worker against its installer, and that an install  *)
(* is atomic as long as recover() itself is not interrupted.               *)
(***************************************************************************)
EXTENDS Update, WellFoundedInduction, TLAPS

-----------------------------------------------------------------------------
(* The loops' next paths: Least and Greatest are among the paths left.     *)

LEMMA MinimumOfNat ==
    ASSUME NEW S \in SUBSET Nat, S # {}
    PROVE  \E n \in S : \A m \in S : n <= m
<1>1. PICK n \in S : \A m \in S : ~ (<<m, n>> \in OpToRel(<, Nat))
  BY WFMin, NatLessThanWellFounded
<1>2. \A m \in S : ~(m < n)
  BY <1>1 DEF OpToRel
<1>. QED BY <1>2

LEMMA LeastIsThere ==
    ASSUME NEW S \in SUBSET Paths, S # {}
    PROVE  Least(S) \in S
<1>1. PICK n \in S : \A m \in S : n <= m
  BY MinimumOfNat, UpdateAssumption DEF Paths
<1>. QED BY <1>1 DEF Least

LEMMA GreatestIsThere ==
    ASSUME NEW S \in SUBSET Paths, S # {}
    PROVE  Greatest(S) \in S
<1>. DEFINE T == {Files - p : p \in S}
<1>1. T \in SUBSET Nat /\ T # {}
  <2>1. \A p \in S : Files - p \in Nat
    BY UpdateAssumption DEF Paths
  <2>2. PICK p \in S : TRUE
    OBVIOUS
  <2>. QED BY <2>1, <2>2
<1>2. PICK n \in T : \A m \in T : n <= m
  BY <1>1, MinimumOfNat
<1>3. PICK p \in S : n = Files - p
  BY <1>2
<1>4. ASSUME NEW q \in S PROVE q <= p
  <2>1. Files - p <= Files - q
    BY <1>2, <1>3
  <2>. QED BY <2>1, UpdateAssumption DEF Paths
<1>. QED BY <1>3, <1>4 DEF Greatest

-----------------------------------------------------------------------------
(* Types.                                                                  *)

LEMMA TypeInit == Init => TypeOK
<1>. SUFFICES ASSUME Init PROVE TypeOK
  OBVIOUS
<1>. USE UpdateAssumption DEF Init, Versions, Absent
<1>1. dest \in [Paths -> Versions]
  OBVIOUS
<1>2. stage \in [Paths -> Versions] /\ backup \in [Paths -> Versions]
  BY DEF Nothing
<1>3. release \in 1..MaxRelease
  OBVIOUS
<1>. QED
  BY <1>1, <1>2, <1>3 DEF TypeOK, Mains, Working, States

LEMMA TypeStep == TypeOK /\ [Next]_vars => TypeOK'
<1>. SUFFICES ASSUME TypeOK, [Next]_vars PROVE TypeOK'
  OBVIOUS
<1>. USE UpdateAssumption DEF TypeOK, Versions, Absent, Mains, Working, States,
         Installing, Recovering, disk, memory, Recover
<1>1. CASE Start
  BY <1>1 DEF Start
<1>2. CASE RecoverPath
  <2>. DEFINE p == Greatest(todo)
  <2>1. p \in Paths
    BY <1>2, GreatestIsThere DEF RecoverPath
  <2>2. todo' \in SUBSET Paths
    BY <1>2 DEF RecoverPath, Advance
  <2>3. CASE RestorePath(p) /\ UNCHANGED ok
    BY <1>2, <2>1, <2>2, <2>3 DEF RecoverPath, RestorePath
  <2>4. CASE ok' = FALSE /\ UNCHANGED <<dest, backup>>
    <3>1. UNCHANGED <<stage, plan, journal, jfile, result, main, worker, state,
                      quit, cancel, release>>
      BY <1>2 DEF RecoverPath
    <3>2. ok' \in BOOLEAN
      BY <2>4
    <3>3. UNCHANGED <<dest, backup>>
      BY <2>4
    <3>. QED BY <2>2, <3>1, <3>2, <3>3
  <2>. QED BY <1>2, <2>3, <2>4 DEF RecoverPath
<1>3. CASE InitDone
  BY <1>3 DEF InitDone, RecoverVerdict, StartState
<1>4. CASE Download
  <2>1. release' \in 1..MaxRelease
    BY <1>4 DEF Download
  <2>2. state' \in States /\ worker' \in {"none", "done"} \cup Working
    BY <1>4 DEF Download
  <2>. QED BY <1>4, <2>1, <2>2 DEF Download
<1>5. CASE RequestInstall
  BY <1>5 DEF RequestInstall
<1>6. CASE Stop
  BY <1>6 DEF Stop
<1>7. CASE WorkerClean
  BY <1>7 DEF WorkerClean, Removed, WorkerFails
<1>8. CASE WorkerFetch
  BY <1>8 DEF WorkerFetch, WorkerFails
<1>9. CASE WorkerStage
  BY <1>9 DEF WorkerStage, WorkerFails
<1>10. CASE WorkerPlan
  BY <1>10 DEF WorkerPlan, WorkerFails
<1>11. CASE InstallBegin
  BY <1>11 DEF InstallBegin
<1>12. CASE JournalOpen
  BY <1>12 DEF JournalOpen
<1>13. CASE JournalWrite
  BY <1>13 DEF JournalWrite
<1>14. CASE MakeBackup
  <2>1. main' \in Mains /\ todo' \in SUBSET Paths /\ ok' \in BOOLEAN
    BY <1>14 DEF MakeBackup
  <2>. QED BY <1>14, <2>1 DEF MakeBackup
<1>15. CASE MoveOld
  <2>. DEFINE p == Least(todo)
  <2>1. p \in Paths
    BY <1>15, LeastIsThere DEF MoveOld
  <2>2. main' \in Mains /\ todo' \in SUBSET Paths /\ ok' \in BOOLEAN
    BY <1>15 DEF MoveOld
  <2>3. dest' \in [Paths -> Versions] /\ backup' \in [Paths -> Versions]
    BY <1>15, <2>1 DEF MoveOld
  <2>. QED BY <1>15, <2>2, <2>3 DEF MoveOld
<1>16. CASE PlaceNew
  <2>. DEFINE p == Least(todo)
  <2>1. p \in Paths
    BY <1>16, LeastIsThere DEF PlaceNew
  <2>2. main' \in Mains /\ todo' \in SUBSET Paths /\ ok' \in BOOLEAN
    BY <1>16 DEF PlaceNew, Advance
  <2>3. dest' \in [Paths -> Versions] /\ stage' \in [Paths -> Versions]
    BY <1>16, <2>1 DEF PlaceNew
  <2>. QED BY <1>16, <2>2, <2>3 DEF PlaceNew
<1>17. CASE Commit
  BY <1>17 DEF Commit
<1>18. CASE SaveResult
  BY <1>18 DEF SaveResult
<1>19. CASE Clean
  BY <1>19 DEF Clean, Removed
<1>20. CASE InstallUndone
  BY <1>20 DEF InstallUndone, RecoverVerdict
<1>21. CASE Crash
  BY <1>21 DEF Crash
<1>22. CASE UNCHANGED vars
  BY <1>22 DEF vars
<1>. QED
  BY <1>1, <1>2, <1>3, <1>4, <1>5, <1>6, <1>7, <1>8, <1>9, <1>10, <1>11,
     <1>12, <1>13, <1>14, <1>15, <1>16, <1>17, <1>18, <1>19, <1>20, <1>21,
     <1>22 DEF Next, Worker, Install

\* The updater's state has its types in every state it reaches.
THEOREM TypeCorrect == Spec => []TypeOK
<1>. QED BY TypeInit, TypeStep, PTL DEF Spec

-----------------------------------------------------------------------------
(* The worker and the installer.                                           *)

Separate ==
    /\ worker \in Working => /\ state \in {"downloading", "verifying"}
                             /\ jfile = "none"
                             /\ main \in {"up", "stopping", "done"}
    /\ main \in Installing => state = "installing"

Kept == Separate /\ JournalIsReported

LEMMA SeparateStep == TypeOK /\ Separate /\ [Next]_vars => Separate'
<1>. SUFFICES ASSUME TypeOK, Separate, [Next]_vars PROVE Separate'
  OBVIOUS
<1>. USE DEF Separate, Working, Installing, Recovering, disk, memory
<1>1. CASE Start
  BY <1>1 DEF Start, Recover
<1>2. CASE RecoverPath
  BY <1>2 DEF RecoverPath
<1>3. CASE InitDone
  BY <1>3 DEF InitDone, RecoverVerdict, StartState
<1>4. CASE Download
  <2>1. main \in {"up", "done"}
    BY <1>4 DEF Download, MayDownload, Serving, TypeOK, Mains
  <2>. QED BY <1>4, <2>1 DEF Download, MayDownload
<1>5. CASE RequestInstall
  BY <1>5 DEF RequestInstall, Serving
<1>6. CASE Stop
  BY <1>6 DEF Stop
<1>7. CASE WorkerClean
  BY <1>7 DEF WorkerClean, WorkerFails
<1>8. CASE WorkerFetch
  BY <1>8 DEF WorkerFetch, WorkerFails
<1>9. CASE WorkerStage
  BY <1>9 DEF WorkerStage, WorkerFails
<1>10. CASE WorkerPlan
  BY <1>10 DEF WorkerPlan, WorkerFails
<1>11. CASE InstallBegin
  BY <1>11 DEF InstallBegin
<1>12. CASE JournalOpen
  BY <1>12 DEF JournalOpen
<1>13. CASE JournalWrite
  BY <1>13 DEF JournalWrite
<1>14. CASE MakeBackup
  BY <1>14 DEF MakeBackup, Recover
<1>15. CASE MoveOld
  BY <1>15 DEF MoveOld, Recover
<1>16. CASE PlaceNew
  BY <1>16 DEF PlaceNew, Recover
<1>17. CASE Commit
  BY <1>17 DEF Commit
<1>18. CASE SaveResult
  BY <1>18 DEF SaveResult
<1>19. CASE Clean
  BY <1>19 DEF Clean
<1>20. CASE InstallUndone
  BY <1>20 DEF InstallUndone, RecoverVerdict
<1>21. CASE Crash
  BY <1>21 DEF Crash
<1>22. CASE UNCHANGED vars
  BY <1>22 DEF vars
<1>. QED
  BY <1>1, <1>2, <1>3, <1>4, <1>5, <1>6, <1>7, <1>8, <1>9, <1>10, <1>11, <1>12,
     <1>13, <1>14, <1>15, <1>16, <1>17, <1>18, <1>19, <1>20, <1>21, <1>22
     DEF Next, Worker, Install

LEMMA KeptStep == TypeOK /\ Kept /\ [Next]_vars => Kept'
<1>. SUFFICES ASSUME TypeOK, Kept, [Next]_vars PROVE Kept'
  OBVIOUS
<1>. USE DEF Kept, Separate, JournalIsReported, Working, Installing, Recovering,
         disk, memory
<1>1. CASE Start
  BY <1>1 DEF Start, Recover
<1>2. CASE RecoverPath
  BY <1>2 DEF RecoverPath
<1>3. CASE InitDone
  BY <1>3 DEF InitDone, RecoverVerdict, StartState
<1>4. CASE Download
  <2>1. main \in {"up", "done"}
    BY <1>4 DEF Download, MayDownload, Serving, TypeOK, Mains
  <2>. QED BY <1>4, <2>1 DEF Download, MayDownload
<1>5. CASE RequestInstall
  BY <1>5 DEF RequestInstall, Serving
<1>6. CASE Stop
  BY <1>6 DEF Stop
<1>7. CASE WorkerClean
  BY <1>7 DEF WorkerClean, WorkerFails
<1>8. CASE WorkerFetch
  BY <1>8 DEF WorkerFetch, WorkerFails
<1>9. CASE WorkerStage
  BY <1>9 DEF WorkerStage, WorkerFails
<1>10. CASE WorkerPlan
  BY <1>10 DEF WorkerPlan, WorkerFails
<1>11. CASE InstallBegin
  BY <1>11 DEF InstallBegin
<1>12. CASE JournalOpen
  BY <1>12 DEF JournalOpen
<1>13. CASE JournalWrite
  BY <1>13 DEF JournalWrite
<1>14. CASE MakeBackup
  BY <1>14 DEF MakeBackup, Recover
<1>15. CASE MoveOld
  BY <1>15 DEF MoveOld, Recover
<1>16. CASE PlaceNew
  BY <1>16 DEF PlaceNew, Recover
<1>17. CASE Commit
  BY <1>17 DEF Commit
<1>18. CASE SaveResult
  BY <1>18 DEF SaveResult
<1>19. CASE Clean
  BY <1>19 DEF Clean
<1>20. CASE InstallUndone
  BY <1>20 DEF InstallUndone, RecoverVerdict
<1>21. CASE Crash
  BY <1>21 DEF Crash
<1>22. CASE UNCHANGED vars
  BY <1>22 DEF vars
<1>. QED
  BY <1>1, <1>2, <1>3, <1>4, <1>5, <1>6, <1>7, <1>8, <1>9, <1>10, <1>11, <1>12,
     <1>13, <1>14, <1>15, <1>16, <1>17, <1>18, <1>19, <1>20, <1>21, <1>22
     DEF Next, Worker, Install

LEMMA KeptAlways == Spec => []Kept
<1>1. Init => Kept
  BY DEF Init, Kept, Separate, JournalIsReported, Working, Installing, Recovering
<1>. QED BY <1>1, KeptStep, TypeCorrect, PTL DEF Spec

\* The download worker and install() never share .update, and no worker
\* clears it under a journal: download()'s guards and stop()'s join are enough.
THEOREM WorkerIsAlone == Spec => []WorkerAlone
<1>1. Kept => WorkerAlone
  BY DEF Kept, Separate, WorkerAlone, Installing, Recovering
<1>. QED BY <1>1, KeptAlways, PTL

\* A leftover journal, which blocks every download, shows in the status.
THEOREM LeftoverIsReported == Spec => []JournalIsReported
<1>1. Kept => JournalIsReported
  BY DEF Kept
<1>. QED BY <1>1, KeptAlways, PTL

-----------------------------------------------------------------------------
(* Atomicity.  What undoing gives is the same in every step but the commit *)
(* because each phase of an update keeps what the next one relies on.      *)

\* An update may begin: nothing of it is in place, all of it is staged.
Before == \/ state = "ready"
          \/ state = "installing" /\ main \in {"up", "stopping", "journal", "write", "backup"}

Staged == /\ backup = Nothing
          /\ Always \subseteq plan
          /\ \A p \in plan : stage[p] = release

BeforeInv ==
    /\ main \in {"off", "init", "busy"} => state \notin {"ready", "installing"}
    /\ Before => /\ Staged
                 /\ main = "backup" => jfile = "whole" /\ journal = plan
                 /\ main = "write" => jfile = "cut"
                 /\ main \notin {"write", "backup"} => jfile = "none"

StagingInv ==
    /\ worker \in {"fetch", "stage", "plan"} => backup = Nothing
    /\ worker = "plan" => \A p \in Paths : /\ stage[p] \in {Absent, release}
                                           /\ p \in Always => stage[p] = release

\* Up to todo the files are in place; from there on they are still staged.
Moved == /\ jfile = "whole" /\ Always \subseteq journal /\ todo \subseteq journal
         /\ \A p \in todo : /\ stage[p] = release
                            /\ main = "move" => backup[p] = Absent
         /\ \A p \in journal \ todo : dest[p] = release /\ stage[p] = Absent
         /\ main = "place" =>
                /\ todo # {} /\ dest[Least(todo)] = Absent
                /\ \A p \in todo \ {Least(todo)} : backup[p] = Absent

MovedInv ==
    /\ main \in {"move", "place"} => Moved
    /\ main \in {"saved", "clean"} => jfile = "none"

UndoneInv ==
    main \in Recovering => /\ todo \subseteq (IF jfile = "whole" THEN journal ELSE {})
                           /\ ok = (jfile # "cut")

Whole == \A p \in Always : Tree[p] # Absent

AtomicInv == BeforeInv /\ StagingInv /\ MovedInv /\ UndoneInv

LEMMA AtomicStep ==
    ~InterruptRecovery /\ TypeOK /\ Separate /\ AtomicInv /\ [Next]_vars => AtomicInv'
<1>. SUFFICES ASSUME ~InterruptRecovery, TypeOK, Separate, AtomicInv, [Next]_vars
              PROVE  AtomicInv'
  OBVIOUS
<1>. USE UpdateAssumption
     DEF Separate, Working, Installing, Recovering, disk, memory,
         AtomicInv, BeforeInv, Before, Staged, StagingInv, MovedInv, Moved, UndoneInv,
         Nothing, Absent
<1>1. CASE Start
  BY <1>1 DEF Start, Recover
<1>2. CASE RecoverPath
  <2>1. main \in Recovering /\ worker \notin Working /\ ~Before
    BY <1>2 DEF RecoverPath
  <2>2. UNCHANGED <<main, worker, state, journal, jfile>>
    BY <1>2 DEF RecoverPath
  <2>3. ok' = ok /\ todo' \subseteq todo
    <3>. HIDE DEF AtomicInv
    <3>. QED BY <1>2 DEF RecoverPath, Advance
  <2>. QED BY <2>1, <2>2, <2>3
<1>3. CASE InitDone
  BY <1>3 DEF InitDone, RecoverVerdict, StartState
<1>4. CASE Download
  BY <1>4 DEF Download, MayDownload, Serving
<1>5. CASE RequestInstall
  BY <1>5 DEF RequestInstall, Serving
<1>6. CASE Stop
  BY <1>6 DEF Stop
<1>7. CASE WorkerClean
  BY <1>7 DEF WorkerClean, WorkerFails, Removed, TypeOK
<1>8. CASE WorkerFetch
  BY <1>8 DEF WorkerFetch, WorkerFails
<1>9. CASE WorkerStage
  BY <1>9 DEF WorkerStage, WorkerFails
<1>10. CASE WorkerPlan
  <2>1. CASE state' = "ready"
    <3>1. /\ plan' = {p \in Paths : stage[p] # Absent} /\ worker' = "done"
          /\ UNCHANGED <<dest, stage, backup, journal, jfile, main, release>>
      BY <1>10, <2>1 DEF WorkerPlan, WorkerFails
    <3>2. /\ backup = Nothing
          /\ \A p \in Paths : /\ stage[p] \in {Absent, release}
                              /\ p \in Always => stage[p] = release
      BY <1>10 DEF WorkerPlan
    <3>3. release # Absent
      BY DEF TypeOK
    <3>4. Staged'
      BY <3>1, <3>2, <3>3
    <3>. QED BY <1>10, <2>1, <3>1, <3>4 DEF WorkerPlan
  <2>2. CASE WorkerFails
    BY <1>10, <2>2 DEF WorkerPlan, WorkerFails
  <2>. QED BY <1>10, <2>1, <2>2 DEF WorkerPlan
<1>11. CASE InstallBegin
  BY <1>11 DEF InstallBegin
<1>12. CASE JournalOpen
  BY <1>12 DEF JournalOpen
<1>13. CASE JournalWrite
  BY <1>13 DEF JournalWrite
<1>14. CASE MakeBackup
  <2>1. /\ Staged /\ jfile = "whole" /\ journal = plan
        /\ state = "installing" /\ worker \notin Working
    BY <1>14 DEF MakeBackup
  <2>2. CASE main' = "move" /\ todo' = plan
    <3>1. Moved'
      BY <1>14, <2>1, <2>2 DEF MakeBackup, TypeOK
    <3>. QED BY <1>14, <2>1, <2>2, <3>1 DEF MakeBackup
  <2>3. CASE Recover("nobackup")
    BY <1>14, <2>1, <2>3 DEF MakeBackup, Recover
  <2>. QED BY <1>14, <2>2, <2>3 DEF MakeBackup
<1>15. CASE MoveOld
  <2>. DEFINE p == Least(todo)
  <2>1. p \in todo /\ p \in Paths
    BY <1>15, LeastIsThere DEF MoveOld, TypeOK
  <2>2. Moved /\ state = "installing" /\ worker \notin Working
    BY <1>15 DEF MoveOld
  <2>3. CASE main' = "place"
    <3>1. /\ UNCHANGED <<stage, journal, jfile, state, worker, todo, release>>
          /\ \/ /\ dest' = [dest EXCEPT ![p] = Absent]
                /\ backup' = [backup EXCEPT ![p] = dest[p]]
             \/ dest' = dest /\ backup' = backup /\ dest[p] = Absent
      BY <1>15, <2>3 DEF MoveOld, Recover
    <3>2. /\ dest'[p] = Absent
          /\ \A q \in Paths \ {p} : dest'[q] = dest[q] /\ backup'[q] = backup[q]
      BY <2>1, <3>1 DEF TypeOK
    <3>3. Moved'
      BY <1>15, <2>1, <2>2, <2>3, <3>1, <3>2 DEF MoveOld, TypeOK
    <3>. QED BY <2>2, <2>3, <3>1, <3>3
  <2>4. CASE Recover("rollback")
    BY <1>15, <2>2, <2>4 DEF MoveOld, Recover
  <2>. QED BY <1>15, <2>3, <2>4 DEF MoveOld
<1>16. CASE PlaceNew
  <2>. DEFINE p == Least(todo)
  <2>1. p \in todo /\ p \in Paths
    BY <1>16, LeastIsThere DEF PlaceNew, TypeOK
  <2>2. Moved /\ state = "installing" /\ worker \notin Working
    BY <1>16 DEF PlaceNew
  <2>3. CASE main' = "move"
    <3>1. /\ UNCHANGED <<backup, journal, jfile, state, worker, release>>
          /\ dest' = [dest EXCEPT ![p] = stage[p]]
          /\ stage' = [stage EXCEPT ![p] = Absent]
          /\ todo' = todo \ {p}
      BY <1>16, <2>3 DEF PlaceNew, Advance, Recover
    <3>2. /\ dest'[p] = release /\ stage'[p] = Absent
          /\ \A q \in Paths \ {p} : dest'[q] = dest[q] /\ stage'[q] = stage[q]
      BY <2>1, <2>2, <3>1 DEF TypeOK
    <3>3. Moved'
      BY <1>16, <2>1, <2>2, <2>3, <3>1, <3>2 DEF PlaceNew, TypeOK
    <3>. QED BY <2>2, <2>3, <3>1, <3>3
  <2>4. CASE Recover("rollback")
    BY <1>16, <2>2, <2>4 DEF PlaceNew, Recover
  <2>. QED BY <1>16, <2>3, <2>4 DEF PlaceNew
<1>17. CASE Commit
  BY <1>17 DEF Commit
<1>18. CASE SaveResult
  BY <1>18 DEF SaveResult
<1>19. CASE Clean
  BY <1>19 DEF Clean
<1>20. CASE InstallUndone
  BY <1>20 DEF InstallUndone, RecoverVerdict
<1>21. CASE Crash
  BY <1>21 DEF Crash
<1>22. CASE UNCHANGED vars
  BY <1>22 DEF vars
<1>. QED
  BY <1>1, <1>2, <1>3, <1>4, <1>5, <1>6, <1>7, <1>8, <1>9, <1>10, <1>11, <1>12,
     <1>13, <1>14, <1>15, <1>16, <1>17, <1>18, <1>19, <1>20, <1>21, <1>22
     DEF Next, Worker, Install

-----------------------------------------------------------------------------
(* The refinement.                                                         *)

LEMMA TreeStep ==
    ~InterruptRecovery /\ TypeOK /\ Separate /\ AtomicInv /\ [Next]_vars
        => [Atomic!Next]_Tree
<1>. SUFFICES ASSUME ~InterruptRecovery, TypeOK, Separate, AtomicInv, [Next]_vars
              PROVE  Atomic!Next \/ Tree' = Tree
  OBVIOUS
<1>. USE UpdateAssumption DEF disk, memory, Absent
<1>1. CASE Start
  BY <1>1 DEF Start, Recover, Tree, Pending, Recovering
<1>2. CASE RecoverPath
  <2>. DEFINE p == Greatest(todo)
  <2>1. p \in todo /\ p \in journal /\ p \in Paths /\ jfile = "whole"
    BY <1>2, GreatestIsThere DEF RecoverPath, TypeOK, AtomicInv, UndoneInv
  <2>2. /\ RestorePath(p) /\ todo' = todo \ {p} /\ main \in Recovering
        /\ UNCHANGED <<stage, journal, jfile, main>>
    BY <1>2 DEF RecoverPath, Advance
  <2>3. /\ dest'[p] = Tree[p]
        /\ \A q \in Paths \ {p} : dest'[q] = dest[q] /\ backup'[q] = backup[q]
    BY <2>1, <2>2 DEF RestorePath, Tree, Pending, TypeOK
  <2>. QED BY <2>1, <2>2, <2>3 DEF Tree, Pending
<1>3. CASE InitDone \/ InstallUndone
  <2>1. /\ main \in Recovering /\ todo = {} /\ UNCHANGED <<dest, stage, backup>>
        /\ \E restored \in BOOLEAN : RecoverVerdict(restored)
    BY <1>3 DEF InitDone, InstallUndone, Recovering
  <2>2. jfile' # "whole"
    BY <2>1 DEF RecoverVerdict, AtomicInv, UndoneInv, TypeOK
  <2>. QED BY <2>1, <2>2 DEF Tree, Pending
<1>4. CASE Download \/ RequestInstall \/ Stop \/ InstallBegin \/ SaveResult
  BY <1>4 DEF Download, RequestInstall, Stop, InstallBegin, SaveResult, Tree, Pending,
              Recovering
<1>5. CASE Worker
  BY <1>5 DEF Worker, WorkerClean, WorkerFetch, WorkerStage, WorkerPlan, WorkerFails,
              Removed, Separate, Working, Tree, Pending
<1>6. CASE JournalOpen
  BY <1>6 DEF JournalOpen, AtomicInv, BeforeInv, Before, Separate, Installing,
              Tree, Pending, Recovering
<1>7. CASE JournalWrite
  BY <1>7 DEF JournalWrite, AtomicInv, BeforeInv, Before, Separate, Installing,
              Staged, Nothing, Tree, Pending, Recovering, TypeOK
<1>8. CASE MakeBackup
  BY <1>8 DEF MakeBackup, Recover, Tree, Pending, Recovering
<1>9. CASE MoveOld
  <2>. DEFINE p == Least(todo)
  <2>1. p \in todo /\ p \in Paths /\ Moved
    BY <1>9, LeastIsThere DEF MoveOld, TypeOK, AtomicInv, MovedInv
  <2>2. CASE Recover("rollback") /\ UNCHANGED <<dest, backup>>
    BY <1>9, <2>2 DEF MoveOld, Recover, Tree, Pending, Recovering
  <2>3. CASE main' = "place" /\ UNCHANGED <<dest, backup>>
    BY <1>9, <2>3 DEF MoveOld, Tree, Pending, Recovering
  <2>4. CASE /\ main' = "place" /\ dest[p] # Absent
             /\ backup' = [backup EXCEPT ![p] = dest[p]]
             /\ dest' = [dest EXCEPT ![p] = Absent]
    <3>1. UNCHANGED <<stage, journal, jfile>>
      BY <1>9 DEF MoveOld
    <3>2. /\ backup'[p] = dest[p] /\ backup[p] = Absent /\ stage[p] # Absent
          /\ \A q \in Paths \ {p} : dest'[q] = dest[q] /\ backup'[q] = backup[q]
      BY <1>9, <2>1, <2>4 DEF MoveOld, Moved, TypeOK
    <3>. QED BY <1>9, <2>1, <2>4, <3>1, <3>2 DEF MoveOld, Moved, Tree, Pending, Recovering
  <2>. QED BY <1>9, <2>2, <2>3, <2>4 DEF MoveOld
<1>10. CASE PlaceNew
  <2>. DEFINE p == Least(todo)
  <2>1. p \in todo /\ p \in Paths /\ Moved
    BY <1>10, LeastIsThere DEF PlaceNew, TypeOK, AtomicInv, MovedInv
  <2>2. CASE Recover("rollback") /\ UNCHANGED <<dest, stage>>
    BY <1>10, <2>2 DEF PlaceNew, Recover, Tree, Pending, Recovering
  <2>3. CASE /\ main' = "move"
             /\ dest' = [dest EXCEPT ![p] = stage[p]]
             /\ stage' = [stage EXCEPT ![p] = Absent]
    <3>1. UNCHANGED <<backup, journal, jfile>>
      BY <1>10 DEF PlaceNew
    <3>2. /\ stage'[p] = Absent /\ stage[p] # Absent /\ dest[p] = Absent
          /\ \A q \in Paths \ {p} : dest'[q] = dest[q] /\ stage'[q] = stage[q]
      BY <1>10, <2>1, <2>3 DEF PlaceNew, Moved, TypeOK
    <3>. QED BY <1>10, <2>1, <2>3, <3>1, <3>2
             DEF PlaceNew, Moved, Tree, Pending, Recovering
  <2>. QED BY <1>10, <2>2, <2>3 DEF PlaceNew
<1>11. CASE Commit
  <2>1. /\ \A p \in journal : dest[p] = release /\ stage[p] = Absent
        /\ Always \subseteq journal
    BY <1>11 DEF Commit, AtomicInv, MovedInv, Moved
  <2>2. CASE jfile' = "none"
    <3>1. \A p \in Paths : Tree[p] = IF p \in journal THEN Tree[p] ELSE dest[p]
      BY DEF Tree, Pending
    <3>2. Tree' = [p \in Paths |-> IF p \in journal THEN release ELSE Tree[p]]
      BY <1>11, <2>1, <2>2, <3>1 DEF Commit, Tree, Pending
    <3>. QED BY <2>1, <3>2 DEF Atomic!Next, Atomic!Switch, TypeOK
  <2>3. CASE UNCHANGED <<journal, jfile>>
    BY <1>11, <2>3 DEF Commit, Tree, Pending, Recovering
  <2>. QED BY <1>11, <2>2, <2>3 DEF Commit
<1>12. CASE Clean
  BY <1>12 DEF Clean, Removed, AtomicInv, MovedInv, Tree, Pending
<1>13. CASE Crash
  BY <1>13 DEF Crash, Tree, Pending, Recovering
<1>14. CASE UNCHANGED vars
  BY <1>14 DEF vars, Tree, Pending
<1>. QED
  BY <1>1, <1>2, <1>3, <1>4, <1>5, <1>6, <1>7, <1>8, <1>9, <1>10, <1>11, <1>12,
     <1>13, <1>14 DEF Next, Install

-----------------------------------------------------------------------------
(* Another process over the same folder (Updaters).                        *)

\* What a step of this process may change in the folder.
Touches ==
    \/ UNCHANGED disk
    \/ worker \in Working /\ UNCHANGED <<dest, journal, jfile, result>>
    \/ main \in Installing
    \/ /\ main = "init" /\ jfile # "none" /\ UNCHANGED <<stage, plan, result>>
       /\ UNCHANGED <<journal, jfile>> \/ jfile' = "none"

\* A journal that is not whole has no paths.
NoPaths == jfile # "whole" => journal = {}

LEMMA NoPathsStep ==
    ~InterruptRecovery /\ TypeOK /\ Separate /\ AtomicInv /\ NoPaths /\ [Next]_vars => NoPaths'
<1>. SUFFICES ASSUME ~InterruptRecovery, TypeOK, Separate, AtomicInv, NoPaths, [Next]_vars
              PROVE  NoPaths'
  OBVIOUS
<1>. USE DEF NoPaths, disk, memory
<1>1. CASE Start \/ Download \/ RequestInstall \/ Stop \/ InstallBegin \/ SaveResult \/ Crash
  BY <1>1 DEF Start, Download, RequestInstall, Stop, InstallBegin, SaveResult, Crash
<1>2. CASE RecoverPath
  BY <1>2 DEF RecoverPath
<1>3. CASE InitDone \/ InstallUndone
  BY <1>3 DEF InitDone, InstallUndone, RecoverVerdict
<1>4. CASE Worker
  BY <1>4 DEF Worker, WorkerClean, WorkerFetch, WorkerStage, WorkerPlan
<1>5. CASE JournalOpen
  BY <1>5 DEF JournalOpen, AtomicInv, BeforeInv, Before, Separate, Installing
<1>6. CASE JournalWrite
  BY <1>6 DEF JournalWrite
<1>7. CASE MakeBackup \/ MoveOld \/ PlaceNew \/ Clean
  BY <1>7 DEF MakeBackup, MoveOld, PlaceNew, Clean
<1>8. CASE Commit
  BY <1>8 DEF Commit
<1>9. CASE UNCHANGED vars
  BY <1>9 DEF vars
<1>. QED
  BY <1>1, <1>2, <1>3, <1>4, <1>5, <1>6, <1>7, <1>8, <1>9 DEF Next, Install

LEMMA StepTouches ==
    ~InterruptRecovery /\ TypeOK /\ Separate /\ AtomicInv /\ NoPaths /\ [Next]_vars => Touches
<1>. SUFFICES ASSUME ~InterruptRecovery, TypeOK, Separate, AtomicInv, NoPaths, [Next]_vars
              PROVE  Touches
  OBVIOUS
<1>. USE DEF Touches, disk, memory
<1>1. CASE Start \/ Download \/ RequestInstall \/ Stop \/ InstallBegin \/ Crash
  BY <1>1 DEF Start, Download, RequestInstall, Stop, InstallBegin, Crash
<1>2. CASE RecoverPath
  <2>1. UNCHANGED <<stage, plan, journal, jfile, result>> /\ main \in Recovering /\ todo # {}
    BY <1>2 DEF RecoverPath
  <2>2. jfile = "whole"
    BY <2>1 DEF AtomicInv, UndoneInv
  <2>. QED BY <2>1, <2>2 DEF Recovering, Installing
<1>3. CASE InitDone
  <2>1. main = "init" /\ todo = {} /\ UNCHANGED <<dest, stage, backup, plan, result>>
    BY <1>3 DEF InitDone
  <2>2. ok = (jfile # "cut")
    BY <2>1 DEF AtomicInv, UndoneInv, Recovering
  <2>3. PICK restored \in BOOLEAN : RecoverVerdict(restored)
    BY <1>3 DEF InitDone
  <2>4. CASE jfile = "none"
    BY <2>1, <2>2, <2>3, <2>4 DEF RecoverVerdict, NoPaths
  <2>5. CASE jfile # "none"
    BY <2>1, <2>2, <2>3, <2>5 DEF RecoverVerdict, TypeOK
  <2>. QED BY <2>4, <2>5
<1>4. CASE Worker
  BY <1>4 DEF Worker, WorkerClean, WorkerFetch, WorkerStage, WorkerPlan, Working
<1>5. CASE Install /\ ~InstallBegin
  BY <1>5 DEF Install, JournalOpen, JournalWrite, MakeBackup, MoveOld, PlaceNew, Commit,
              SaveResult, Clean, InstallUndone, Installing
<1>6. CASE UNCHANGED vars
  BY <1>6 DEF vars
<1>. QED
  BY <1>1, <1>2, <1>3, <1>4, <1>5, <1>6 DEF Next, Install

\* This process neither works on the folder, nor holds an update to install.
Aside == worker \notin Working /\ main \notin Installing /\ ~Before

\* Whatever the other process does to the folder then, this one keeps what it relies on.
LEMMA AsideKeeps ==
    ASSUME Separate, BeforeInv, StagingInv, MovedInv, Aside, UNCHANGED memory
    PROVE  Separate' /\ BeforeInv' /\ StagingInv' /\ MovedInv' /\ Aside'
<1>1. UNCHANGED <<main, worker, state>>
  BY DEF memory
<1>2. Separate' /\ Aside'
  BY <1>1 DEF Separate, Aside, Before
<1>3. BeforeInv' /\ StagingInv' /\ MovedInv'
  BY <1>1 DEF Aside, BeforeInv, Before, StagingInv, MovedInv, Working, Installing
<1>. QED BY <1>2, <1>3

\* The folder is of one release, as far as a journal is undone.
OneTree == \A p, q \in Always : Tree[p] = Tree[q]

LEMMA OneTreeStep ==
    ~InterruptRecovery /\ TypeOK /\ Separate /\ AtomicInv /\ OneTree /\ [Next]_vars => OneTree'
<1>. SUFFICES ASSUME ~InterruptRecovery, TypeOK, Separate, AtomicInv, OneTree, [Next]_vars
              PROVE  OneTree'
  OBVIOUS
<1>1. [Atomic!Next]_Tree
  BY TreeStep
<1>2. CASE Atomic!Next
  <2>1. PICK changed \in SUBSET Paths, version \in 1..MaxRelease :
            Always \subseteq changed /\ Atomic!Switch(changed, version)
    BY <1>2 DEF Atomic!Next
  <2>. QED BY <2>1, UpdateAssumption DEF OneTree, Atomic!Switch
<1>. QED BY <1>1, <1>2 DEF OneTree

-----------------------------------------------------------------------------
(* The theorems.                                                           *)

LEMMA TreeInit == Init => Atomic!Init /\ AtomicInv /\ Whole
<1>. SUFFICES ASSUME Init PROVE Atomic!Init /\ AtomicInv /\ Whole
  OBVIOUS
<1>. USE UpdateAssumption DEF Init
<1>1. \A p \in Paths : Tree[p] = dest[p]
  BY DEF Tree, Pending
<1>2. Tree \in [Paths -> 0..MaxRelease]
  BY <1>1 DEF Tree, Pending, Absent
<1>3. AtomicInv
  BY DEF AtomicInv, BeforeInv, Before, StagingInv, MovedInv, UndoneInv, Recovering
<1>4. Whole
  BY <1>1 DEF Whole, Absent
<1>. QED BY <1>2, <1>3, <1>4 DEF Atomic!Init, Atomic!Versions

LEMMA AtomicAlways == ASSUME ~InterruptRecovery PROVE Spec => []AtomicInv
<1>1. TypeOK /\ Kept /\ AtomicInv /\ [Next]_vars => AtomicInv'
  BY AtomicStep DEF Kept
<1>. QED BY TreeInit, <1>1, TypeCorrect, KeptAlways, PTL DEF Spec

\* UpdateIsAtomic (the updater implements AtomicUpdate), as long as recover()
\* runs to its end: no call of install() that fails, and no crash in it, shows
\* another folder than the one before the update or the one after it.
THEOREM Atomicity == ASSUME ~InterruptRecovery PROVE Spec => UpdateIsAtomic
<1>1. Init => Atomic!Init
  BY TreeInit
<1>2. TypeOK /\ Kept /\ AtomicInv /\ [Next]_vars => [Atomic!Next]_Tree
  BY TreeStep DEF Kept
<1>. QED
  BY <1>1, <1>2, TypeCorrect, KeptAlways, AtomicAlways, PTL
     DEF Spec, UpdateIsAtomic, Atomic!Spec

\* TitleStarts: under the same assumption, the title has its program and its
\* manifest whenever no journal is left to undo.
THEOREM TitleAlwaysStarts == ASSUME ~InterruptRecovery PROVE Spec => []TitleStarts
<1>1. Init => Whole
  BY TreeInit
<1>2. Whole /\ [Atomic!Next]_Tree => Whole'
  <2>. SUFFICES ASSUME Whole, Atomic!Next PROVE Whole'
    BY DEF Whole
  <2>1. PICK changed \in SUBSET Paths, version \in 1..MaxRelease :
            Atomic!Switch(changed, version)
    BY DEF Atomic!Next
  <2>. QED BY <2>1, UpdateAssumption DEF Whole, Atomic!Switch, Absent
<1>3. Whole => TitleStarts
  BY UpdateAssumption DEF Whole, TitleStarts, Tree, Pending
<1>4. TypeOK /\ Kept /\ AtomicInv /\ [Next]_vars => [Atomic!Next]_Tree
  BY TreeStep DEF Kept
<1>. QED
  BY <1>1, <1>2, <1>3, <1>4, TypeCorrect, KeptAlways, AtomicAlways, PTL DEF Spec
=============================================================================

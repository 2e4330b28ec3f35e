------------------------ MODULE ContinuousLockProofs ------------------------
(***************************************************************************)
(* Theorems about ContinuousLock, for every set of pids and every bound.   *)
(***************************************************************************)
EXTENDS ContinuousLock, TLAPS

LEMMA TypeInit == Init => TypeOK
BY LockAssumption DEF Init, TypeOK, Ended, Acquiring, Looping

LEMMA TypeStep == TypeOK /\ [Next]_vars => TypeOK'
<1> SUFFICES ASSUME TypeOK, [Next]_vars PROVE TypeOK'
  OBVIOUS
<1> USE LockAssumption DEF TypeOK, Ended, Acquiring, Looping, Goto, NoLock, Torn, Record
<1>1. ASSUME NEW p \in Pids, Start(p) PROVE TypeOK'
  BY <1>1 DEF Start
<1>2. ASSUME NEW p \in Pids, Look(p) PROVE TypeOK'
  BY <1>2 DEF Look
<1>3. ASSUME NEW p \in Pids, Judge(p) PROVE TypeOK'
  BY <1>3 DEF Judge
<1>4. ASSUME NEW p \in Pids, Remove(p) PROVE TypeOK'
  BY <1>4 DEF Remove, Unlink
<1>5. ASSUME NEW p \in Pids, Truncate(p) PROVE TypeOK'
  BY <1>5 DEF Truncate
<1>6. ASSUME NEW p \in Pids, WriteRecord(p) PROVE TypeOK'
  BY <1>6 DEF WriteRecord
<1>7. ASSUME NEW p \in Pids, NextCycle(p) PROVE TypeOK'
  BY <1>7 DEF NextCycle
<1>8. ASSUME NEW p \in Pids, Leave(p) PROVE TypeOK'
  BY <1>8 DEF Leave
<1>9. ASSUME NEW p \in Pids, EndCycle(p) PROVE TypeOK'
  BY <1>9 DEF EndCycle
<1>10. ASSUME NEW p \in Pids, Wake(p) PROVE TypeOK'
  BY <1>10 DEF Wake
<1>11. ASSUME NEW p \in Pids, Release(p) PROVE TypeOK'
  BY <1>11 DEF Release, Unlink
<1>12. ASSUME NEW p \in Pids, Crash(p) PROVE TypeOK'
  BY <1>12 DEF Crash
<1>13. ASSUME NEW p \in Pids, Reuse(p) PROVE TypeOK'
  BY <1>13 DEF Reuse
<1>14. ASSUME Tick PROVE TypeOK'
  BY <1>14 DEF Tick
<1>15. ASSUME UNCHANGED vars PROVE TypeOK'
  BY <1>15 DEF vars
<1>16. QED
  BY <1>1, <1>2, <1>3, <1>4, <1>5, <1>6, <1>7, <1>8, <1>9, <1>10, <1>11,
     <1>12, <1>13, <1>14, <1>15
  DEF Next, LoopStep

\* Every variable keeps its type, whatever the environment does.
THEOREM LockTypeCorrect == Spec => []TypeOK
BY TypeInit, TypeStep, PTL DEF Spec

-----------------------------------------------------------------------------
(* The file as a lock.  With starts spaced out, no read of half a record    *)
(* and cycles within staleLockMs, whoever loops is named by a record that   *)
(* is young enough, except while it rewrites it; and whoever is about to    *)
(* replace the file does so because nobody loops.                           *)

Spaced == Hazards \cap {"race", "torn", "long"} = {}

OneAcquires ==
    \A p, q \in Pids : pc[p] \in Acquiring /\ pc[q] \in Acquiring => p = q

LooperIsNamed ==
    \A p \in Pids :
        /\ pc[p] \in Looping \ {"write"} =>
              lock.kind = "record" /\ lock.pid = p /\ lock.age <= StaleTicks
        /\ pc[p] = "write" => lock = Torn /\ p \in linked

NobodyLoops == \A q \in Pids : pc[q] \notin Looping

ReplacerIsAlone ==
    \A p \in Pids :
        /\ pc[p] \in {"remove", "create", "fill"} => NobodyLoops
        /\ pc[p] = "create" => lock = NoLock
        /\ pc[p] = "fill" => lock = Torn /\ p \in linked

LockInv == TypeOK /\ OneAcquires /\ OneLoop /\ LooperIsNamed /\ ReplacerIsAlone

LEMMA LockInvInit == Init => LockInv
BY TypeInit DEF Init, LockInv, OneAcquires, OneLoop, LooperIsNamed, ReplacerIsAlone, Acquiring, Looping

\* A file that is gone or stale, and that nobody is writing, has no looper.
LEMMA StaleMeansFree ==
    ASSUME LockInv, Spaced, MayRead, Stale \/ lock = NoLock
    PROVE  NobodyLoops
<1> SUFFICES ASSUME NEW q \in Pids, pc[q] \in Looping PROVE FALSE
  BY DEF NobodyLoops
<1>1. pc[q] # "write"
  BY DEF Spaced, MayRead, BeingWritten
<1>2. lock.kind = "record" /\ lock.pid = q /\ lock.age <= StaleTicks
  BY <1>1 DEF LockInv, LooperIsNamed
<1>3. Alive(q)
  BY DEF Alive, Looping, Ended
<1>4. lock # Torn /\ lock # NoLock
  BY <1>2 DEF Torn, NoLock
<1>5. ~(lock.age > StaleTicks)
  BY <1>2, LockAssumption DEF LockInv, TypeOK, Torn, NoLock
<1>6. QED
  BY <1>2, <1>3, <1>4, <1>5 DEF Stale

LEMMA LockInvStep == ASSUME Spaced PROVE LockInv /\ [Next]_vars => LockInv'
<1> SUFFICES ASSUME LockInv, [Next]_vars PROVE LockInv'
  OBVIOUS
<1>t. TypeOK /\ TypeOK'
  BY TypeStep DEF LockInv
<1> DEFINE Core == OneAcquires /\ OneLoop /\ LooperIsNamed /\ ReplacerIsAlone
<1>c. Core
  BY DEF LockInv
<1> USE LockAssumption DEF Goto, OneAcquires, OneLoop, LooperIsNamed, ReplacerIsAlone, NobodyLoops,
       Ended, Acquiring, Looping, NoLock, Torn, Record
<1>1. ASSUME NEW p \in Pids, Start(p) PROVE Core'
  BY <1>1, <1>t, <1>c DEF Start, Spaced, TypeOK
<1>2. ASSUME NEW p \in Pids, Look(p) PROVE Core'
  BY <1>2, <1>t, <1>c DEF Look, TypeOK
<1>3. ASSUME NEW p \in Pids, Judge(p) PROVE Core'
  <2>1. CASE pc' = [pc EXCEPT ![p] = "remove"] /\ (Stale \/ lock = NoLock)
    <3>1. NobodyLoops
      BY <1>3, <2>1, StaleMeansFree DEF Judge
    <3>2. QED
      BY <1>3, <2>1, <1>t, <1>c, <3>1 DEF Judge, TypeOK
  <2>2. CASE pc' = [pc EXCEPT ![p] = "refused"]
    BY <1>3, <2>2, <1>t, <1>c DEF Judge, TypeOK
  <2>3. QED
    BY <1>3, <2>1, <2>2 DEF Judge
<1>4. ASSUME NEW p \in Pids, Remove(p) PROVE Core'
  BY <1>4, <1>t, <1>c DEF Remove, Unlink, TypeOK
<1>5. ASSUME NEW p \in Pids, Truncate(p) PROVE Core'
  BY <1>5, <1>t, <1>c DEF Truncate, TypeOK
<1>6. ASSUME NEW p \in Pids, WriteRecord(p) PROVE Core'
  BY <1>6, <1>t, <1>c DEF WriteRecord, TypeOK
<1>7. ASSUME NEW p \in Pids, NextCycle(p) PROVE Core'
  BY <1>7, <1>t, <1>c DEF NextCycle, TypeOK
<1>8. ASSUME NEW p \in Pids, Leave(p) PROVE Core'
  BY <1>8, <1>t, <1>c DEF Leave, TypeOK
<1>9. ASSUME NEW p \in Pids, EndCycle(p) PROVE Core'
  BY <1>9, <1>t, <1>c DEF EndCycle, TypeOK
<1>10. ASSUME NEW p \in Pids, Wake(p) PROVE Core'
  BY <1>10, <1>t, <1>c DEF Wake, TypeOK
<1>11. ASSUME NEW p \in Pids, Release(p) PROVE Core'
  BY <1>11, <1>t, <1>c DEF Release, Unlink, TypeOK
<1>12. ASSUME NEW p \in Pids, Crash(p) PROVE Core'
  BY <1>12, <1>t, <1>c DEF Crash, TypeOK
<1>13. ASSUME NEW p \in Pids, Reuse(p) PROVE Core'
  BY <1>13, <1>t, <1>c DEF Reuse, TypeOK
<1>14. ASSUME Tick PROVE Core'
  BY <1>14, <1>t, <1>c DEF Tick, TypeOK, Spaced
<1>15. ASSUME UNCHANGED vars PROVE Core'
  BY <1>15, <1>t, <1>c DEF vars
<1>16. QED
  BY <1>t, <1>1, <1>2, <1>3, <1>4, <1>5, <1>6, <1>7, <1>8, <1>9, <1>10,
     <1>11, <1>12, <1>13, <1>14, <1>15
  DEF Next, LoopStep, LockInv

\* With starts spaced out, no read of half a record and cycles within
\* staleLockMs, the lock file admits one loop at a time, however loops die and
\* pids are used again.
THEOREM OneLoopAtATime ==
    ASSUME Spaced
    PROVE  Spec => []OneLoop
<1>1. LockInv => OneLoop
  BY DEF LockInv
<1>2. QED
  BY <1>1, LockInvInit, LockInvStep, PTL DEF Spec

\* Under the same conditions the file names the loop that runs.
THEOREM HolderStaysRecorded ==
    ASSUME Spaced
    PROVE  Spec => []HolderIsRecorded
<1>1. LockInv => HolderIsRecorded
  BY DEF LockInv, LooperIsNamed, HolderIsRecorded, Looping
<1>2. QED
  BY <1>1, LockInvInit, LockInvStep, PTL DEF Spec
=============================================================================

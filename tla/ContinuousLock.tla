--------------------------- MODULE ContinuousLock ---------------------------
(***************************************************************************)
(* The lock file of the continuous data pipeline                           *)
(* (src/scripts/run-continuous-data-pipeline.ts): a loop that runs one     *)
(* pipeline cycle after another guards itself with                         *)
(* .tmp/callscore-pipeline/continuous.lock, which names its pid and the    *)
(* time of its last cycle.                                                 *)
(*                                                                         *)
(* Each system call on the file is an action.  A process is identified by  *)
(* its pid; a pid whose process ended may go to an unrelated process or,   *)
(* as in a restarted container, to the next loop.                          *)
(***************************************************************************)
EXTENDS Integers

CONSTANTS
    Pids,           \* process ids a loop may get
    None,           \* the pid of a file that holds no record
    StaleTicks,     \* staleLockMs, in ticks
    MaxCrashes,     \* bound: deaths without release in one behaviour
    Hazards         \* which of AllHazards the environment may produce

AllHazards == {"crash",     \* a loop dies without releasing the lock
               "race",      \* two loops are in acquireLock at once
               "torn",      \* the file is read between truncate and write
               "long",      \* a cycle and its sleep outlast staleLockMs
               "reuse"}     \* an unrelated process gets a dead loop's pid

ASSUME LockAssumption ==
    /\ None \notin Pids
    /\ StaleTicks \in Nat \ {0}
    /\ MaxCrashes \in Nat
    /\ Hazards \subseteq AllHazards

VARIABLES
    lock,       \* the file: the record last written, or NoLock, or Torn
    linked,     \* processes whose opened file is still the one at the path
    pc,
    strangers,  \* pids in use by unrelated processes
    crashes

vars == <<lock, linked, pc, strangers, crashes>>

NoLock == [kind |-> "absent", pid |-> None, age |-> 0]
Torn   == [kind |-> "torn", pid |-> None, age |-> 0]   \* truncated: not JSON
Record(p, age) == [kind |-> "record", pid |-> p, age |-> age]

Ended     == {"off", "refused", "done", "dead"}
Acquiring == {"look", "judge", "remove", "create", "fill"}
Looping   == {"test", "open", "write", "cycle", "sleep", "release"}

Goto(p, step) == pc' = [pc EXCEPT ![p] = step]

\* process.kill(pid, 0)
Alive(p) == pc[p] \notin Ended \/ p \in strangers

\* The file is read while a live process is between truncating and writing it.
BeingWritten == \E p \in Pids : pc[p] \in {"fill", "write"}
MayRead == "torn" \in Hazards \/ ~BeingWritten

Init ==
    /\ lock = NoLock
    /\ linked = {}
    /\ pc = [p \in Pids |-> "off"]
    /\ strangers = {}
    /\ crashes = 0

-----------------------------------------------------------------------------
(* acquireLock *)

Start(p) ==
    /\ pc[p] \in Ended
    /\ p \notin strangers
    /\ "race" \in Hazards \/ \A q \in Pids : pc[q] \notin Acquiring
    /\ Goto(p, "look")
    /\ UNCHANGED <<lock, linked, strangers, crashes>>

\* existsSync(file)
Look(p) ==
    /\ pc[p] = "look"
    /\ Goto(p, IF lock = NoLock THEN "create" ELSE "judge")
    /\ UNCHANGED <<lock, linked, strangers, crashes>>

\* Seeded faults: the age of the record is not looked at; the boundary is taken
\* for stale.
StaleByPidOnly == lock = Torn \/ (lock.kind = "record" /\ ~Alive(lock.pid))
StaleTooSoon ==
    \/ lock = Torn
    \/ lock.kind = "record" /\ (~Alive(lock.pid) \/ lock.age >= StaleTicks)

\* lockIsStale of a file that is there: its pid is dead, or its time is too
\* old; a file that is not JSON has no pid, and the time 0.
Stale ==
    \/ lock = Torn
    \/ /\ lock.kind = "record"
       /\ ~Alive(lock.pid) \/ lock.age > StaleTicks

\* Seeded fault: a refused start goes through the finally clause.
JudgeThenRelease(p) ==
    /\ pc[p] = "judge"
    /\ MayRead
    /\ \/ (Stale \/ lock = NoLock) /\ Goto(p, "remove")
       \/ ~Stale /\ Goto(p, "release")
    /\ UNCHANGED <<lock, linked, strangers, crashes>>

\* A file that vanished since the look: readLock returns null, which is not
\* stale, or, when it vanishes between its own two calls, an empty record,
\* which is.
Judge(p) ==
    /\ pc[p] = "judge"
    /\ MayRead
    /\ \/ (Stale \/ lock = NoLock) /\ Goto(p, "remove")
       \/ ~Stale /\ Goto(p, "refused")
    /\ UNCHANGED <<lock, linked, strangers, crashes>>

Unlink ==
    /\ lock' = NoLock
    /\ linked' = {}

Remove(p) ==
    /\ pc[p] = "remove"
    /\ Unlink
    /\ Goto(p, "create")
    /\ UNCHANGED <<strangers, crashes>>

-----------------------------------------------------------------------------
(* writeLock: writeFileSync with flag "w" opens and truncates, then writes *)

Truncate(p) ==
    /\ \/ pc[p] = "create" /\ Goto(p, "fill")
       \/ pc[p] = "open" /\ Goto(p, "write")
    /\ lock' = Torn
    /\ linked' = linked \cup {p}
    /\ UNCHANGED <<strangers, crashes>>

\* Seeded fault: the file stays open.
WriteRecordLeaks(p) ==
    /\ \/ pc[p] = "fill" /\ Goto(p, "test")
       \/ pc[p] = "write" /\ Goto(p, "cycle")
    /\ lock' = IF p \in linked THEN Record(p, 0) ELSE lock
    /\ UNCHANGED <<linked, strangers, crashes>>

\* The record reaches the path only when the opened file is still there.
WriteRecord(p) ==
    /\ \/ pc[p] = "fill" /\ Goto(p, "test")
       \/ pc[p] = "write" /\ Goto(p, "cycle")
    /\ lock' = IF p \in linked THEN Record(p, 0) ELSE lock
    /\ linked' = linked \ {p}
    /\ UNCHANGED <<strangers, crashes>>

-----------------------------------------------------------------------------
(* The loop of main *)

NextCycle(p) ==
    /\ pc[p] = "test"
    /\ Goto(p, "open")
    /\ UNCHANGED <<lock, linked, strangers, crashes>>

\* SIGINT or SIGTERM had come, maxCycles is reached, or a step threw.
Leave(p) ==
    /\ pc[p] \in {"test", "open", "cycle"}
    /\ Goto(p, "release")
    /\ UNCHANGED <<lock, linked, strangers, crashes>>

EndCycle(p) ==
    /\ pc[p] = "cycle"
    /\ Goto(p, "sleep")
    /\ UNCHANGED <<lock, linked, strangers, crashes>>

Wake(p) ==
    /\ pc[p] = "sleep"
    /\ Goto(p, "test")
    /\ UNCHANGED <<lock, linked, strangers, crashes>>

\* releaseLock: whosever lock it is.
Release(p) ==
    /\ pc[p] = "release"
    /\ Unlink
    /\ Goto(p, "done")
    /\ UNCHANGED <<strangers, crashes>>

-----------------------------------------------------------------------------
(* The environment *)

Crash(p) ==
    /\ "crash" \in Hazards
    /\ crashes < MaxCrashes
    /\ pc[p] \notin Ended
    /\ Goto(p, "dead")
    /\ linked' = linked \ {p}
    /\ crashes' = crashes + 1
    /\ UNCHANGED <<lock, strangers>>

Reuse(p) ==
    /\ "reuse" \in Hazards
    /\ pc[p] \in Ended
    /\ \E q \in Pids \ {p} : q \notin strangers    \* bound: a pid is left
    /\ strangers' = strangers \cup {p}
    /\ UNCHANGED <<lock, linked, pc, crashes>>

\* Without the hazard "long" a loop writes its next record in time.
Tick ==
    /\ lock.kind = "record"
    /\ lock.age <= StaleTicks
    /\ "long" \in Hazards \/ lock.age < StaleTicks \/ pc[lock.pid] \notin Looping
    /\ lock' = [lock EXCEPT !.age = @ + 1]
    /\ UNCHANGED <<linked, pc, strangers, crashes>>

LoopStep(p) ==
    \/ Look(p) \/ Judge(p) \/ Remove(p) \/ Truncate(p) \/ WriteRecord(p)
    \/ NextCycle(p) \/ Leave(p) \/ EndCycle(p) \/ Wake(p) \/ Release(p)

Next ==
    \/ \E p \in Pids : Start(p) \/ LoopStep(p) \/ Crash(p) \/ Reuse(p)
    \/ Tick

Spec == Init /\ [][Next]_vars

\* A loop that is up goes on (its cycles end), time passes, and a loop that
\* ended is started again (docker-compose.yml: restart: unless-stopped).
FairSpec ==
    /\ Spec
    /\ \A p \in Pids : WF_vars(LoopStep(p))
    /\ WF_vars(\E p \in Pids : Start(p))
    /\ WF_vars(Tick)

-----------------------------------------------------------------------------
(* Properties *)

\* Types: the file holds nothing, half a record or one record, and only
\* processes that are writing have it open (writeLock).
TypeOK ==
    /\ lock \in {NoLock, Torn} \cup
                [kind : {"record"}, pid : Pids, age : 0..(StaleTicks + 1)]
    /\ linked \subseteq {p \in Pids : pc[p] \in {"fill", "write"}}
    /\ pc \in [Pids -> Ended \cup Acquiring \cup Looping]
    /\ strangers \subseteq {p \in Pids : pc[p] \in Ended}
    /\ crashes \in 0..MaxCrashes

\* Only one loop runs at a time (docs/hermes-pipeline.md, "so only one loop
\* runs at a time").
OneLoop ==
    \A p, q \in Pids : pc[p] \in Looping /\ pc[q] \in Looping => p = q

\* A loop that runs or sleeps is the one the file names: nobody else removed
\* or replaced the record, so the next start will see it (writeLock,
\* releaseLock, which check no owner).
HolderIsRecorded ==
    \A p \in Pids :
        pc[p] \in {"cycle", "sleep"} => lock.kind = "record" /\ lock.pid = p

\* Whatever a loop leaves behind - a record of a dead pid, a record whose pid
\* now belongs to somebody else, half a record - the pipeline runs again
\* (lockIsStale).
LockRecovers == []<>(\E p \in Pids : pc[p] \in Looping)
=============================================================================

----------------------------- MODULE SharedLock -----------------------------
(***************************************************************************)
(* The lock file that guards one write to the shared pool-health file      *)
(* (core/shared_health.py: _acquire_file_lock, _release_file_lock, and     *)
(* their use in SharedHealth._write_locked and release_all), at the grain  *)
(* of one system call per step.  The processes are the Hermes profiles     *)
(* that share a pool; the threads of one process take turns on             *)
(* SharedHealth._lock, so a process is one writer.                         *)
(*                                                                         *)
(* The document is abstracted to one row per process, its newest write as  *)
(* a number.  There is no clock: what the code reads from it are           *)
(* differences, kept as the age of the lock file and as the wait of each   *)
(* attempt, both saturating.  Setting the wall clock back lowers both.     *)
(***************************************************************************)
EXTENDS Integers, FiniteSets

CONSTANTS
    Procs,
    Denied,          \* processes that may not delete another's lock file
    Patience,        \* _LOCK_SPIN_S, in polls
    ButtonPatience,  \* the longer wait of release_all (spin_s=1.0)
    StaleAfter,      \* _LOCK_STALE_S, in polls
    Versions,        \* contents of a row told apart
    MaxStep,         \* bound: how far one clock step sets the clock back
    MaxClockSteps,   \* bound on backward steps of the wall clock
    MaxCrashes       \* bound on crashes

ASSUME SharedLockAssumption ==
    /\ "nobody" \notin Procs
    /\ Denied \subseteq Procs
    /\ {Patience, ButtonPatience, StaleAfter, Versions} \subseteq Nat \ {0}
    /\ {MaxStep, MaxClockSteps, MaxCrashes} \subseteq Nat

VARIABLES
    lock,         \* the lock file: NoLock, or its creator and its age
    document,     \* document[p]: p's row in the shared file
    pc,           \* where each process is
    attempt,      \* its attempt at the lock: spin_s, wait so far
    snapshot,     \* the document as it read it under the lock
    clockSteps,
    crashes

\* History, for the properties only.
VARIABLES
    committed,    \* the last row each process wrote
    robbed        \* a live holder's lock file was deleted by another process

history == <<committed, robbed>>
vars == <<lock, document, pc, attempt, snapshot, clockSteps, crashes, history>>

NoLock == [creator |-> "nobody", age |-> 0]

Attempting == {"create", "stat", "sleep", "unlink"}
Holding    == {"read", "write", "release"}
Longest    == IF Patience > ButtonPatience THEN Patience ELSE ButtonPatience

\* waited is time.time() less the moment the attempt began.
NewAttempt(spin) == [spin |-> spin, waited |-> 0]
NoAttempt        == NewAttempt(Patience)
Nothing          == [p \in Procs |-> 0]

Expired(p) == attempt[p].waited >= attempt[p].spin

Goto(p, place) == pc' = [pc EXCEPT ![p] = place]

\* The attempt is over: the lock is had, or given up.
Leave(p, place) == Goto(p, place) /\ attempt' = [attempt EXCEPT ![p] = NoAttempt]
Stay(p, place)  == Goto(p, place) /\ UNCHANGED attempt
-----------------------------------------------------------------------------
(* One attempt.                                                             *)

Begin(p, spin) ==
    /\ pc[p] = "idle"
    /\ Goto(p, "create")
    /\ attempt' = [attempt EXCEPT ![p] = NewAttempt(spin)]
    /\ UNCHANGED <<lock, document, snapshot, clockSteps, crashes, history>>

\* Mutant of Create: without O_EXCL.
CreateAlways(p) ==
    /\ pc[p] = "create"
    /\ lock' = [creator |-> p, age |-> 0] /\ Leave(p, "read")
    /\ UNCHANGED <<document, snapshot, clockSteps, crashes, history>>

\* os.open(O_CREAT | O_EXCL)
Create(p) ==
    /\ pc[p] = "create"
    /\ \/ lock = NoLock /\ lock' = [creator |-> p, age |-> 0] /\ Leave(p, "read")
       \/ lock # NoLock /\ UNCHANGED lock /\ Stay(p, "stat")
    /\ UNCHANGED <<document, snapshot, clockSteps, crashes, history>>

\* Mutant of LooksStale: the age is not looked at.
LooksGone == lock = NoLock

\* A file that is gone by the time it is looked at counts as a stale one.
LooksStale == lock = NoLock \/ lock.age > StaleAfter

Stat(p) ==
    /\ pc[p] = "stat"
    /\ \/ LooksStale /\ Stay(p, "unlink")
       \/ ~LooksStale /\ Expired(p) /\ Leave(p, "idle")
       \/ ~LooksStale /\ ~Expired(p) /\ Stay(p, "sleep")
    /\ UNCHANGED <<lock, document, snapshot, clockSteps, crashes, history>>

\* Mutant of Unlink: a file that cannot be deleted is tried again at once.
UnlinkRetried(p) ==
    /\ pc[p] = "unlink"
    /\ \/ /\ lock # NoLock /\ p \notin Denied
          /\ lock' = NoLock
          /\ robbed' = (robbed \/ pc[lock.creator] \in Holding)
          /\ IF Expired(p) THEN Leave(p, "idle") ELSE Stay(p, "create")
       \/ /\ lock = NoLock \/ p \in Denied
          /\ Stay(p, "create")
          /\ UNCHANGED <<lock, robbed>>
    /\ UNCHANGED <<document, snapshot, clockSteps, crashes, committed>>

Unlink(p) ==
    /\ pc[p] = "unlink"
    /\ \/ /\ lock # NoLock /\ p \notin Denied
          /\ lock' = NoLock
          /\ robbed' = (robbed \/ pc[lock.creator] \in Holding)
          /\ IF Expired(p) THEN Leave(p, "idle") ELSE Stay(p, "create")
       \/ /\ lock = NoLock \/ p \in Denied
          /\ Leave(p, "idle")
          /\ UNCHANGED <<lock, robbed>>
    /\ UNCHANGED <<document, snapshot, clockSteps, crashes, committed>>
-----------------------------------------------------------------------------
(* The write the lock protects: read the document, change this writer's    *)
(* row, replace the file in one step, delete the lock file.                *)

Read(p) ==
    /\ pc[p] = "read"
    /\ snapshot' = [snapshot EXCEPT ![p] = document]
    /\ Goto(p, "write")
    /\ UNCHANGED <<lock, document, attempt, clockSteps, crashes, history>>

Write(p) ==
    /\ pc[p] = "write"
    /\ Goto(p, "release")
    /\ \/ LET row == (committed[p] + 1) % Versions
          IN  /\ document' = [snapshot[p] EXCEPT ![p] = row]
              /\ committed' = [committed EXCEPT ![p] = row]
       \/ UNCHANGED <<document, committed>>       \* the write raised
    /\ snapshot' = [snapshot EXCEPT ![p] = Nothing]
    /\ UNCHANGED <<lock, attempt, clockSteps, crashes, robbed>>

\* Whatever lock file is there is deleted, this writer's or not.
Release(p) ==
    /\ pc[p] = "release"
    /\ Goto(p, "idle")
    /\ lock' = NoLock
    /\ robbed' = (robbed \/ (lock # NoLock /\ lock.creator # p
                             /\ pc[lock.creator] \in Holding))
    /\ UNCHANGED <<document, attempt, snapshot, clockSteps, crashes, committed>>
-----------------------------------------------------------------------------
(* The environment.                                                         *)

\* One poll: who slept is awake, the lock file and every attempt are older.
Tick ==
    /\ pc' = [p \in Procs |-> IF pc[p] = "sleep" THEN "create" ELSE pc[p]]
    /\ attempt' = [p \in Procs |->
            IF pc[p] \notin Attempting THEN attempt[p]
            ELSE [attempt[p] EXCEPT !.waited = IF @ < Longest THEN @ + 1 ELSE @]]
    /\ lock' = IF lock # NoLock /\ lock.age <= StaleAfter
               THEN [lock EXCEPT !.age = @ + 1] ELSE lock
    /\ UNCHANGED <<document, snapshot, clockSteps, crashes, history>>

StepBack(by) ==
    /\ clockSteps < MaxClockSteps
    /\ clockSteps' = clockSteps + 1
    /\ attempt' = [p \in Procs |->
            IF pc[p] \in Attempting THEN [attempt[p] EXCEPT !.waited = @ - by] ELSE attempt[p]]
    /\ lock' = IF lock # NoLock THEN [lock EXCEPT !.age = @ - by] ELSE lock
    /\ UNCHANGED <<document, pc, snapshot, crashes, history>>

\* A process dies where it stands; a lock file it created stays behind.
Crash(p) ==
    /\ crashes < MaxCrashes /\ pc[p] # "idle"
    /\ crashes' = crashes + 1
    /\ Leave(p, "idle")
    /\ snapshot' = [snapshot EXCEPT ![p] = Nothing]
    /\ UNCHANGED <<lock, document, clockSteps, history>>

Init ==
    /\ lock = NoLock
    /\ document = Nothing /\ committed = Nothing
    /\ pc = [p \in Procs |-> "idle"]
    /\ attempt = [p \in Procs |-> NoAttempt]
    /\ snapshot = [p \in Procs |-> Nothing]
    /\ clockSteps = 0 /\ crashes = 0 /\ robbed = FALSE

\* What a writer does once it has begun.
Proceed(p) == Create(p) \/ Stat(p) \/ Unlink(p) \/ Read(p) \/ Write(p) \/ Release(p)

Next ==
    \/ \E p \in Procs : \E spin \in {Patience, ButtonPatience} : Begin(p, spin)
    \/ \E p \in Procs : Proceed(p)
    \/ Tick
    \/ \E by \in 1..MaxStep : StepBack(by)
    \/ \E p \in Procs : Crash(p)

Spec == Init /\ [][Next]_vars

\* Time passes, a writer that has begun goes on, and outcomes keep coming.
FairSpec ==
    /\ Spec
    /\ WF_vars(Tick)
    /\ \A p \in Procs : WF_vars(Proceed(p)) /\ WF_vars(Begin(p, Patience))
-----------------------------------------------------------------------------
(* Properties                                                               *)

TypeOK ==
    /\ lock \in {NoLock} \cup [creator : Procs, age : Int]
    /\ document \in [Procs -> 0..(Versions - 1)] /\ committed \in [Procs -> 0..(Versions - 1)]
    /\ pc \in [Procs -> {"idle"} \cup Attempting \cup Holding]
    /\ attempt \in [Procs -> [spin : {Patience, ButtonPatience}, waited : Int]]
    /\ snapshot \in [Procs -> [Procs -> 0..(Versions - 1)]]
    /\ clockSteps \in 0..MaxClockSteps /\ crashes \in 0..MaxCrashes
    /\ robbed \in BOOLEAN

Overlap == \E p, q \in Procs : p # q /\ pc[p] \in Holding /\ pc[q] \in Holding

(* No write is lost to another's: until some process has deleted the lock  *)
(* file of a live holder, at most one writer is inside, and the document   *)
(* holds the newest committed row of everyone, crashes and failed writes   *)
(* included (core/shared_health.py:35-40, 347-370, 416-488).               *)
NoLostUpdate ==
    ~robbed => ~Overlap /\ document = committed

(* Every attempt ends, with the lock or without it, clock steps and        *)
(* undeletable lock files included: a mark is never stuck behind the file. *)
AttemptsEnd ==
    \A p \in Procs : pc[p] \in Attempting ~> pc[p] \notin Attempting

Orphaned == lock # NoLock /\ pc[lock.creator] \notin Holding

(* A lock file whose creator died is reclaimed while outcomes keep coming  *)
(* (core/shared_health.py:176-180).                                        *)
OrphanReclaimed == Orphaned ~> ~Orphaned

=============================================================================

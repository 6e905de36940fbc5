-------------------------- MODULE ComponentProofs --------------------------
(***************************************************************************)
(* Theorems about three components that share no state.                    *)
(*                                                                         *)
(* SharedLock, for every number of processes, every wait, and any number   *)
(* of crashes and clock steps: its type invariant, and that no write is    *)
(* lost while no live holder is robbed of its lock file.                   *)
(*                                                                         *)
(* SnapshotFile, for any number of processes that write one file without a *)
(* lock: the copy a process merges with in place of reading the file is    *)
(* the file.                                                               *)
(*                                                                         *)
(* Pacing, for every pool, grouping and limit: as long as the wall clock   *)
(* is more than a window ahead of the monotonic clock, which it is by      *)
(* decades, asking the pacer makes no difference between keys.             *)
(***************************************************************************)
EXTENDS SharedLock, SnapshotFile, Pacing, TLAPS, FiniteSetTheorems, SequenceTheorems

(* SharedLock                                                              *)

Rows      == 0..(Versions - 1)
Documents == [Procs -> Rows]
LockFiles == [creator : Procs, age : Int]
Attempts  == [spin : {Patience, ButtonPatience}, waited : Int]

LEMMA NothingType == Nothing \in Documents
BY SharedLockAssumption DEF SharedLockAssumption, Nothing, Documents, Rows

LEMMA AttemptType ==
    /\ \A spin \in {Patience, ButtonPatience} : NewAttempt(spin) \in Attempts
    /\ NoAttempt \in Attempts
    /\ \A a \in Attempts, w \in Int : [a EXCEPT !.waited = w] \in Attempts
BY DEF NewAttempt, NoAttempt, Attempts

LEMMA Older ==
    \A l \in LockFiles, a \in Int :
        [l EXCEPT !.age = a] \in LockFiles /\ [l EXCEPT !.age = a].creator = l.creator
BY DEF LockFiles

\* A lock file is never mistaken for none.
LEMMA FileIsFile == \A l \in LockFiles : l # NoLock /\ l.creator \in Procs
BY SharedLockAssumption DEF SharedLockAssumption, LockFiles, NoLock

LEMMA TypeInitial == Init => TypeOK
<1> SUFFICES ASSUME Init PROVE TypeOK
  OBVIOUS
<1>1. document \in Documents /\ committed \in Documents /\ snapshot \in [Procs -> Documents]
  BY NothingType DEF Init
<1>2. attempt \in [Procs -> Attempts]
  BY AttemptType DEF Init
<1>3. clockSteps \in 0..MaxClockSteps /\ crashes \in 0..MaxCrashes
  BY SharedLockAssumption DEF SharedLockAssumption, Init
<1> QED
  BY <1>1, <1>2, <1>3 DEF Init, TypeOK, Documents, Rows, Attempts

LEMMA TypeAttempt ==
    ASSUME TypeOK, NEW p \in Procs,
           \/ \E spin \in {Patience, ButtonPatience} : Begin(p, spin)
           \/ Create(p) \/ Stat(p) \/ Unlink(p)
    PROVE  TypeOK'
<1> DEFINE A == attempt \in [Procs -> Attempts]
<1>0. A
  BY DEF TypeOK, Attempts
<1>1. CASE \E spin \in {Patience, ButtonPatience} : Begin(p, spin)
  <2>1. A'
    BY <1>0, <1>1, AttemptType DEF Begin
  <2> QED
    BY <1>1, <2>1 DEF TypeOK, Begin, Goto, Attempting, Holding, history, Attempts
<1>2. CASE Create(p)
  <2>1. A'
    BY <1>0, <1>2, AttemptType DEF Create, Leave, Stay
  <2>2. lock' \in {NoLock} \cup LockFiles
    BY <1>2 DEF TypeOK, Create, LockFiles
  <2> QED
    BY <1>2, <2>1, <2>2
       DEF TypeOK, Create, Leave, Stay, Goto, Attempting, Holding, history, Attempts, LockFiles
<1>3. CASE Stat(p)
  <2>1. A'
    BY <1>0, <1>3, AttemptType DEF Stat, Leave, Stay
  <2>2. pc' \in [Procs -> {"idle"} \cup Attempting \cup Holding]
    BY <1>3 DEF TypeOK, Stat, Leave, Stay, Goto, Attempting
  <2> QED
    BY <1>3, <2>1, <2>2 DEF TypeOK, Stat, history, Attempts
<1>4. CASE Unlink(p)
  <2>1. A'
    BY <1>0, <1>4, AttemptType DEF Unlink, Leave, Stay
  <2>2. pc' \in [Procs -> {"idle"} \cup Attempting \cup Holding]
    BY <1>4 DEF TypeOK, Unlink, Leave, Stay, Goto, Attempting
  <2>3. robbed' \in BOOLEAN /\ lock' \in {NoLock} \cup LockFiles
    BY <1>4 DEF TypeOK, Unlink, LockFiles
  <2> QED
    BY <1>4, <2>1, <2>2, <2>3 DEF TypeOK, Unlink, Attempts, LockFiles
<1> QED
  BY <1>1, <1>2, <1>3, <1>4

LEMMA TypeHolding ==
    ASSUME TypeOK, NEW p \in Procs, Read(p) \/ Write(p) \/ Release(p)
    PROVE  TypeOK'
<1>1. CASE Read(p)
  BY <1>1 DEF TypeOK, Read, Goto, Attempting, Holding, history
<1>2. CASE Write(p)
  <2>1. (committed[p] + 1) % Versions \in Rows
    BY SharedLockAssumption DEF SharedLockAssumption, TypeOK, Rows
  <2>2. /\ document \in Documents /\ committed \in Documents
        /\ snapshot \in [Procs -> Documents]
    BY DEF TypeOK, Documents, Rows
  <2>3. document' \in Documents /\ committed' \in Documents
    BY <1>2, <2>1, <2>2 DEF Write, Documents
  <2>4. snapshot' \in [Procs -> Documents]
    BY <1>2, <2>2, NothingType DEF Write
  <2> QED
    BY <1>2, <2>3, <2>4 DEF TypeOK, Write, Goto, Attempting, Holding, Documents, Rows
<1>3. CASE Release(p)
  <2>1. robbed' \in BOOLEAN
    BY <1>3 DEF TypeOK, Release
  <2> QED
    BY <1>3, <2>1 DEF TypeOK, Release, Goto, Attempting, Holding
<1> QED
  BY <1>1, <1>2, <1>3

LEMMA TypeEnvironment ==
    ASSUME TypeOK,
           Tick \/ (\E by \in 1..MaxStep : StepBack(by)) \/ \E p \in Procs : Crash(p)
    PROVE  TypeOK'
<1> USE DEF Attempting, Holding
<1>1. CASE Tick
  <2>1. Longest \in Nat
    BY SharedLockAssumption DEF SharedLockAssumption, Longest
  <2>2. lock' \in {NoLock} \cup LockFiles
    BY <1>1, Older DEF Tick, TypeOK, LockFiles
  <2>3. attempt' \in [Procs -> Attempts]
    <3> DEFINE later(w) == IF w < Longest THEN w + 1 ELSE w
    <3>1. \A p \in Procs : attempt[p] \in Attempts /\ later(attempt[p].waited) \in Int
      BY <2>1 DEF TypeOK, Attempts
    <3>2. \A p \in Procs : [attempt[p] EXCEPT !.waited = later(attempt[p].waited)] \in Attempts
      BY <3>1, AttemptType
    <3>3. attempt' = [p \in Procs |->
              IF pc[p] \notin {"create", "stat", "sleep", "unlink"} THEN attempt[p]
              ELSE [attempt[p] EXCEPT !.waited = later(attempt[p].waited)]]
      BY <1>1 DEF Tick
    <3> HIDE DEF later
    <3> QED
      BY <3>1, <3>2, <3>3
  <2>4. pc' \in [Procs -> {"idle"} \cup Attempting \cup Holding]
    BY <1>1 DEF Tick, TypeOK
  <2> QED
    BY <1>1, <2>2, <2>3, <2>4 DEF Tick, TypeOK, history, LockFiles, Attempts
<1>2. CASE \E by \in 1..MaxStep : StepBack(by)
  <2>1. PICK by \in 1..MaxStep : StepBack(by)
    BY <1>2
  <2>2. lock' \in {NoLock} \cup LockFiles
    BY <2>1, Older DEF StepBack, TypeOK, LockFiles
  <2>3. attempt' \in [Procs -> Attempts]
    <3>1. \A p \in Procs : attempt[p] \in Attempts /\ attempt[p].waited - by \in Int
      BY DEF TypeOK, Attempts
    <3>2. \A p \in Procs : [attempt[p] EXCEPT !.waited = attempt[p].waited - by] \in Attempts
      BY <3>1, AttemptType
    <3> QED
      BY <2>1, <3>1, <3>2 DEF StepBack
  <2>4. clockSteps' \in 0..MaxClockSteps
    BY <2>1, SharedLockAssumption DEF SharedLockAssumption, StepBack, TypeOK
  <2> QED
    BY <2>1, <2>2, <2>3, <2>4 DEF StepBack, TypeOK, history, LockFiles, Attempts
<1>3. CASE \E p \in Procs : Crash(p)
  <2>1. PICK p \in Procs : Crash(p)
    BY <1>3
  <2>2. crashes' \in 0..MaxCrashes
    BY <2>1, SharedLockAssumption DEF SharedLockAssumption, Crash, TypeOK
  <2>3. snapshot' \in [Procs -> [Procs -> 0..(Versions - 1)]]
    BY <2>1, NothingType DEF Crash, TypeOK, Documents, Rows
  <2>4. attempt' \in [Procs -> Attempts]
    <3>1. attempt \in [Procs -> Attempts]
      BY DEF TypeOK, Attempts
    <3> QED
      BY <2>1, <3>1, AttemptType DEF Crash, Leave
  <2> QED
    BY <2>1, <2>2, <2>3, <2>4 DEF Crash, Leave, Goto, TypeOK, history, Attempts
<1> QED
  BY <1>1, <1>2, <1>3

LEMMA TypeStep == TypeOK /\ [Next]_vars => TypeOK'
<1> SUFFICES ASSUME TypeOK, [Next]_vars PROVE TypeOK'
  OBVIOUS
<1>1. CASE \E p \in Procs : \E spin \in {Patience, ButtonPatience} : Begin(p, spin)
  BY <1>1, TypeAttempt
<1>2. CASE \E p \in Procs : Proceed(p)
  BY <1>2, TypeAttempt, TypeHolding DEF Proceed
<1>3. CASE Tick \/ (\E by \in 1..MaxStep : StepBack(by)) \/ \E p \in Procs : Crash(p)
  BY <1>3, TypeEnvironment
<1>4. CASE UNCHANGED vars
  BY <1>4 DEF vars, history, TypeOK
<1> QED
  BY <1>1, <1>2, <1>3, <1>4 DEF Next

\* Every reachable state is well typed: a lock file always has a creator, and a
\* row is always one of the versions told apart.
THEOREM LockTypeCorrect == Spec => []TypeOK
BY TypeInitial, TypeStep, PTL DEF Spec
-----------------------------------------------------------------------------
(* While nobody was robbed, whoever is inside is the creator of the lock     *)
(* file that stands, so it is alone; what it read under the lock is still    *)
(* the document when it writes.                                              *)

OwnsTheLock == \A p \in Procs : pc[p] \in Holding => lock # NoLock /\ lock.creator = p

ReadIsFresh == \A p \in Procs : pc[p] = "write" => snapshot[p] = document

Guarded == ~robbed => OwnsTheLock /\ ReadIsFresh /\ document = committed

LEMMA GuardedInitial == Init => Guarded
BY DEF Init, Guarded, OwnsTheLock, ReadIsFresh, Holding

LEMMA GuardedAttempt ==
    ASSUME TypeOK, Guarded, NEW p \in Procs,
           \/ \E spin \in {Patience, ButtonPatience} : Begin(p, spin)
           \/ Create(p) \/ Stat(p) \/ Unlink(p)
    PROVE  Guarded'
<1> USE DEF Guarded, OwnsTheLock, ReadIsFresh, Holding
<1>1. CASE \E spin \in {Patience, ButtonPatience} : Begin(p, spin)
  BY <1>1 DEF TypeOK, Begin, Goto, history
<1>2. CASE Create(p)
  <2>1. CASE lock = NoLock
    <3>1. lock' \in LockFiles /\ lock'.creator = p
      BY <1>2, <2>1 DEF Create, LockFiles
    <3> QED
      BY <1>2, <2>1, <3>1, FileIsFile DEF TypeOK, Create, Leave, Stay, Goto, history
  <2>2. CASE lock # NoLock
    BY <1>2, <2>2 DEF TypeOK, Create, Leave, Stay, Goto, history
  <2> QED
    BY <2>1, <2>2
<1>3. CASE Stat(p)
  BY <1>3 DEF TypeOK, Stat, Leave, Stay, Goto, history
<1>4. CASE Unlink(p)
  <2>1. CASE UNCHANGED lock
    BY <1>4, <2>1 DEF TypeOK, Unlink, Leave, Stay, Goto
  <2>2. CASE lock # NoLock /\ lock' = NoLock /\ robbed' = (robbed \/ pc[lock.creator] \in Holding)
    <3> SUFFICES ASSUME ~robbed' PROVE Guarded'
      OBVIOUS
    <3>1. ~robbed /\ pc[lock.creator] \notin Holding
      BY <2>2
    <3>2. \A q \in Procs : pc[q] \notin Holding
      BY <3>1
    <3> QED
      BY <1>4, <2>2, <3>1, <3>2 DEF TypeOK, Unlink, Leave, Stay, Goto
  <2> QED
    BY <1>4, <2>1, <2>2 DEF Unlink
<1> QED
  BY <1>1, <1>2, <1>3, <1>4

LEMMA GuardedHolding ==
    ASSUME TypeOK, Guarded, NEW p \in Procs, Read(p) \/ Write(p) \/ Release(p)
    PROVE  Guarded'
<1> USE DEF Guarded, OwnsTheLock, ReadIsFresh, Holding
<1>1. CASE Read(p)
  BY <1>1 DEF TypeOK, Read, Goto, history
<1>2. CASE Write(p)
  <2> SUFFICES ASSUME ~robbed' PROVE Guarded'
    OBVIOUS
  <2>1. ~robbed /\ pc[p] = "write" /\ pc' = [pc EXCEPT ![p] = "release"]
    BY <1>2 DEF Write, Goto
  <2>2. \A q \in Procs : q # p => pc'[q] \notin Holding
    BY <2>1 DEF TypeOK
  <2>3. document' = committed'
    BY <1>2, <2>1 DEF Write
  <2> QED
    BY <1>2, <2>1, <2>2, <2>3 DEF TypeOK, Write
<1>3. CASE Release(p)
  <2> SUFFICES ASSUME ~robbed' PROVE Guarded'
    OBVIOUS
  <2>1. ~robbed /\ lock.creator = p
    BY <1>3 DEF Release
  <2>2. \A q \in Procs : pc'[q] \notin Holding
    BY <1>3, <2>1 DEF Release, Goto, TypeOK
  <2> QED
    BY <1>3, <2>1, <2>2 DEF Release
<1> QED
  BY <1>1, <1>2, <1>3

LEMMA GuardedEnvironment ==
    ASSUME TypeOK, Guarded,
           Tick \/ (\E by \in 1..MaxStep : StepBack(by)) \/ \E p \in Procs : Crash(p)
    PROVE  Guarded'
<1> USE DEF Guarded, OwnsTheLock, ReadIsFresh, Holding
<1>1. CASE Tick
  <2>1. lock # NoLock => lock' \in LockFiles /\ lock'.creator = lock.creator
    BY <1>1, Older DEF Tick, TypeOK, LockFiles
  <2>2. \A p \in Procs : pc'[p] \in Holding => pc'[p] = pc[p]
    BY <1>1 DEF Tick
  <2>3. \A p \in Procs : pc'[p] = "write" => pc[p] = "write"
    BY <1>1 DEF Tick
  <2> QED
    BY <1>1, <2>1, <2>2, <2>3, FileIsFile DEF Tick, history
<1>2. CASE \E by \in 1..MaxStep : StepBack(by)
  <2>1. PICK by \in 1..MaxStep : StepBack(by)
    BY <1>2
  <2>2. lock # NoLock => lock' \in LockFiles /\ lock'.creator = lock.creator
    BY <2>1, Older DEF StepBack, TypeOK, LockFiles
  <2> QED
    BY <2>1, <2>2, FileIsFile DEF StepBack, history
<1>3. CASE \E p \in Procs : Crash(p)
  BY <1>3 DEF TypeOK, Crash, Leave, Goto, history
<1> QED
  BY <1>1, <1>2, <1>3

LEMMA GuardedStep == TypeOK /\ Guarded /\ [Next]_vars => Guarded'
<1> SUFFICES ASSUME TypeOK, Guarded, [Next]_vars PROVE Guarded'
  OBVIOUS
<1>1. CASE \E p \in Procs : \E spin \in {Patience, ButtonPatience} : Begin(p, spin)
  BY <1>1, GuardedAttempt
<1>2. CASE \E p \in Procs : Proceed(p)
  BY <1>2, GuardedAttempt, GuardedHolding DEF Proceed
<1>3. CASE Tick \/ (\E by \in 1..MaxStep : StepBack(by)) \/ \E p \in Procs : Crash(p)
  BY <1>3, GuardedEnvironment
<1>4. CASE UNCHANGED vars
  BY <1>4 DEF vars, history, Guarded, OwnsTheLock, ReadIsFresh
<1> QED
  BY <1>1, <1>2, <1>3, <1>4 DEF Next

LEMMA GuardedEnough == Guarded => NoLostUpdate
BY DEF Guarded, OwnsTheLock, NoLostUpdate, Overlap

\* Until a live holder is robbed of its lock file nobody writes beside another,
\* and the document holds the newest row everyone committed
\* (core/shared_health.py:347-370, 416-488).
THEOREM NoUpdateIsLost == Spec => []NoLostUpdate
<1>1. Init => TypeOK /\ Guarded
  BY TypeInitial, GuardedInitial
<1>2. TypeOK /\ Guarded /\ [Next]_vars => TypeOK' /\ Guarded'
  BY TypeStep, GuardedStep
<1> QED
  BY <1>1, <1>2, GuardedEnough, PTL DEF Spec
-----------------------------------------------------------------------------
(* SnapshotFile                                                            *)

Docs   == [Processes -> Shown \cup {Absent}]
Copies == [stamp : Processes \cup {Nobody}, doc : Docs]

SnapshotTyped ==
    /\ file \in Copies
    /\ hb \in [Processes -> {"asleep", "replacing", "caching", "dead"}]
    /\ calls \in [Processes -> BOOLEAN]
    /\ mine \in [Processes -> Docs]
    /\ cache \in [Processes -> Copies]

LEMMA NoCopyType == Empty \in Docs /\ NoCopy \in Copies
BY DEF Empty, NoCopy, Docs, Copies

LEMMA MergedType ==
    ASSUME SnapshotTyped, NEW p \in Processes, NEW shown \in Shown
    PROVE  Merged(p, shown) \in Docs
<1>1. Existing(p) \in Docs
  BY DEF SnapshotTyped, Existing, Copies
<1> QED
  BY <1>1 DEF Merged, Docs

LEMMA SnapshotTypedStep == SnapshotTyped /\ [SnapshotNext]_snapshotVars => SnapshotTyped'
<1> SUFFICES ASSUME SnapshotTyped, [SnapshotNext]_snapshotVars PROVE SnapshotTyped'
  OBVIOUS
<1> USE NoCopyType
<1>1. CASE UNCHANGED snapshotVars
  BY <1>1 DEF SnapshotTyped, snapshotVars
<1>2. ASSUME NEW p \in Processes, Call(p) \/ Heartbeat(p) \/ Die(p) \/ Age(p)
      PROVE  SnapshotTyped'
  <2>1. CASE Call(p) \/ Die(p) \/ Age(p)
    BY <2>1 DEF SnapshotTyped, Call, Die, Age
  <2>2. CASE Record(p) \/ Beat(p)
    <3>1. Live(p) \in Shown /\ "idle" \in Shown
      BY DEF Live, Shown
    <3>2. PICK shown \in Shown : Publish(p, shown) /\ UNCHANGED <<file, calls, cache, aged>>
      BY <2>2, <3>1 DEF Record, Beat
    <3>3. Merged(p, shown) \in Docs
      BY MergedType
    <3> QED
      BY <3>2, <3>3 DEF Publish, SnapshotTyped
  <2>3. CASE Replace(p)
    BY <2>3 DEF SnapshotTyped, Replace, Copies
  <2>4. CASE ReplaceRefused(p)
    BY <2>4 DEF SnapshotTyped, ReplaceRefused
  <2>5. CASE Cache(p)
    <3>1. [stamp |-> p, doc |-> mine[p]] \in Copies
      BY DEF SnapshotTyped, Copies
    <3> QED
      BY <2>5, <3>1 DEF SnapshotTyped, Cache, Captured
  <2> QED
    BY <1>2, <2>1, <2>2, <2>3, <2>4, <2>5 DEF Heartbeat
<1> QED
  BY <1>1, <1>2 DEF SnapshotNext
-----------------------------------------------------------------------------
(* A process knows only a file of its own writing, and between replacing the *)
(* file and taking the copy, the file is still what it wrote unless another  *)
(* process has replaced it.                                                  *)

KnowsItsOwn == \A p \in Processes : cache[p] = NoCopy \/ cache[p].stamp = p

UnwrittenIsEmpty == file.stamp = Nobody => file.doc = Empty

AboutToCopy ==
    \A p \in Processes : hb[p] = "caching" /\ file.stamp = p => file.doc = mine[p]

Coherent == KnowsItsOwn /\ UnwrittenIsEmpty /\ AboutToCopy /\ CacheTrue

LEMMA CoherentStep == SnapshotTyped /\ Coherent /\ [SnapshotNext]_snapshotVars => Coherent'
<1> SUFFICES ASSUME SnapshotTyped, Coherent, [SnapshotNext]_snapshotVars PROVE Coherent'
  OBVIOUS
<1> USE DEF Coherent, KnowsItsOwn, UnwrittenIsEmpty, AboutToCopy, CacheTrue
<1>1. CASE UNCHANGED snapshotVars
  BY <1>1 DEF snapshotVars
<1>2. ASSUME NEW p \in Processes, Call(p) \/ Heartbeat(p) \/ Die(p) \/ Age(p)
      PROVE  Coherent'
  <2>0. NoCopy.stamp = Nobody /\ NoCopy.doc = Empty /\ Nobody \notin Processes
    BY SnapshotAssumption DEF SnapshotAssumption, NoCopy, Nobody
  <2>1. CASE Call(p) \/ Age(p)
    BY <2>1 DEF Call, Age
  <2>2. CASE Record(p) \/ Beat(p)
    BY <2>2 DEF Record, Beat, Publish, SnapshotTyped
  <2>3. CASE Replace(p)
    <3>1. file'.stamp = p /\ file'.doc = mine[p] /\ mine' = mine
      BY <2>3 DEF Replace
    <3>2. cache' = [cache EXCEPT ![p] = NoCopy] /\ hb' = [hb EXCEPT ![p] = "caching"]
      BY <2>3 DEF Replace
    <3>3. \A q \in Processes : cache'[q].stamp # p
      BY <2>0, <3>2 DEF SnapshotTyped
    <3> QED
      BY <2>0, <3>1, <3>2, <3>3 DEF SnapshotTyped
  <2>4. CASE ReplaceRefused(p) \/ Die(p)
    BY <2>0, <2>4 DEF ReplaceRefused, Die, SnapshotTyped
  <2>5. CASE Cache(p)
    <3>1. /\ hb[p] = "caching" /\ file' = file
          /\ cache' = [cache EXCEPT ![p] = [stamp |-> p, doc |-> mine[p]]]
          /\ mine' = [mine EXCEPT ![p] = Empty] /\ hb' = [hb EXCEPT ![p] = "asleep"]
      BY <2>5 DEF Cache, Captured
    <3>2. cache'[p].stamp = p /\ cache'[p].doc = mine[p]
      BY <3>1 DEF SnapshotTyped
    <3> QED
      BY <3>1, <3>2 DEF SnapshotTyped
  <2> QED
    BY <1>2, <2>1, <2>2, <2>3, <2>4, <2>5 DEF Heartbeat
<1> QED
  BY <1>1, <1>2 DEF SnapshotNext

LEMMA CoherentInitial == SnapshotInit => SnapshotTyped /\ Coherent
<1> SUFFICES ASSUME SnapshotInit PROVE SnapshotTyped /\ Coherent
  OBVIOUS
<1>1. SnapshotTyped
  BY NoCopyType DEF SnapshotInit, SnapshotTyped
<1>2. Coherent
  BY DEF SnapshotInit, Coherent, KnowsItsOwn, UnwrittenIsEmpty, AboutToCopy, CacheTrue, NoCopy
<1> QED
  BY <1>1, <1>2

\* Whoever writes in between, and wherever a process stops: a copy that passes
\* for the file is the file (state.py:975-990, 1116-1136).
THEOREM CacheStaysTrue == SnapshotSpec => []CacheTrue
<1>1. SnapshotTyped /\ Coherent /\ [SnapshotNext]_snapshotVars => SnapshotTyped' /\ Coherent'
  BY SnapshotTypedStep, CoherentStep
<1>2. Coherent => CacheTrue
  BY DEF Coherent
<1> QED
  BY <1>1, <1>2, CoherentInitial, PTL DEF SnapshotSpec
-----------------------------------------------------------------------------
(* Pacing                                                                  *)

\* What the constants of core/pacing.py are, and what the two clocks are.
Clocks ==
    /\ Window \in Nat /\ Skew \in Nat /\ SmallLimit \in Nat \ {0, 1}
    /\ Overrides \subseteq Nat
    /\ Group \in [Keys -> Scopes]
    /\ WallAhead \in Int /\ WallAhead >= Window + Skew

PacerTyped ==
    /\ mono \in Nat
    /\ log \in [Scopes -> Seq(Int)]
    /\ rpm \in [Scopes -> Nat]
    /\ notBefore \in [Scopes -> Int]
    /\ setting \in Nat /\ override \in Nat

\* Everything the pacer holds was stamped with the monotonic clock.
Past ==
    /\ \A s \in Scopes : \A i \in 1..Len(log[s]) : log[s][i] <= mono
    /\ \A s \in Scopes : notBefore[s] <= mono + Window + Skew

PacerInv == PacerTyped /\ Past

\* Asked with the wall clock, the log of a key is a minute old at its newest.
LEMMA NothingKept ==
    ASSUME Clocks, PacerInv, NEW s \in Scopes
    PROVE  Kept(log[s], Wall) = <<>>
<1> DEFINE stamps == log[s]
           old(n) == /\ \A i \in 1..n : stamps[i] <= Wall - Window - Skew
                     /\ n < Len(stamps) => stamps[n + 1] > Wall - Window - Skew
           gone == CHOOSE n \in 0..Len(stamps) : old(n)
<1>1. stamps \in Seq(Int) /\ Len(stamps) \in Nat /\ mono \in Nat
  BY DEF PacerInv, PacerTyped
<1>2. \A i \in 1..Len(stamps) : stamps[i] \in Int /\ stamps[i] <= mono
  BY <1>1 DEF PacerInv, Past
<1>3. \A i \in 1..Len(stamps) : stamps[i] <= Wall - Window - Skew
  BY <1>1, <1>2 DEF Clocks, Wall
<1>4. old(Len(stamps))
  BY <1>1, <1>3
<1>5. \A n \in 0..Len(stamps) : old(n) => n = Len(stamps)
  <2> SUFFICES ASSUME NEW n \in 0..Len(stamps), old(n), n < Len(stamps) PROVE FALSE
    BY <1>1
  <2>1. n + 1 \in 1..Len(stamps)
    BY <1>1
  <2> QED
    BY <1>1, <1>2, <1>3, <2>1 DEF Clocks, Wall
<1>6. gone = Len(stamps)
  <2>1. Len(stamps) \in 0..Len(stamps)
    BY <1>1
  <2> HIDE DEF old
  <2> QED
    BY <1>4, <1>5, <2>1
<1>7. SubSeq(stamps, Len(stamps) + 1, Len(stamps)) = <<>>
  BY <1>1, SubSeqEmpty
<1> QED
  BY <1>6, <1>7 DEF Kept

LEMMA EffectivePositive ==
    ASSUME Clocks, NEW limit \in Nat \ {0}
    PROVE  Effective(limit) \in Nat \ {0}
BY DEF Clocks, Effective

LEMMA AlwaysReady == Clocks /\ PacerInv => NeverRanks
<1> SUFFICES ASSUME Clocks, PacerInv, NEW known \in [Scopes -> Nat], NEW byHand \in Nat,
                    NEW s \in Scopes
             PROVE  ReadyAt(known, byHand, s, Wall) <= Wall
  BY DEF NeverRanks
<1> DEFINE limit == Limit(known, byHand, s)
<1>1. limit \in Nat
  BY DEF Limit
<1>2. notBefore[s] \in Int /\ Wall \in Int /\ notBefore[s] <= Wall
  BY DEF PacerInv, PacerTyped, Past, Clocks, Wall
<1>3. Higher(notBefore[s], Wall) = Wall
  BY <1>2 DEF Higher
<1>4. CASE limit = 0
  BY <1>2, <1>3, <1>4 DEF ReadyAt
<1>5. CASE limit # 0
  <2>1. Purged(known, byHand, s, Wall) = <<>>
    BY <1>5, NothingKept DEF Purged
  <2>2. Len(Purged(known, byHand, s, Wall)) < Effective(limit)
    BY <1>1, <1>5, <2>1, EffectivePositive
  <2> QED
    BY <1>2, <1>3, <2>2 DEF ReadyAt
<1> QED
  BY <1>4, <1>5

LEMMA CountType ==
    ASSUME NEW stamps \in Seq(Int), NEW now, NEW span
    PROVE  CountWithin(stamps, now, span) \in Nat
<1>1. IsFiniteSet(1..Len(stamps))
  BY FS_Interval
<1> QED
  BY <1>1, FS_Subset, FS_CardinalityType DEF CountWithin

LEMMA PacerSelect ==
    ASSUME Clocks, PacerInv, NEW healthy \in SUBSET Keys, Select(healthy)
    PROVE  PacerInv'
<1>1. override' \in Nat /\ rpm' \in [Scopes -> Nat]
  BY DEF Select, Synced, Taught, Lower, PacerInv, PacerTyped
<1>2. \A s \in Scopes : log'[s] = log[s] \/ log'[s] = <<>>
  BY NothingKept DEF Select, Purged
<1>3. log' \in [Scopes -> Seq(Int)]
  <2>1. <<>> \in Seq(Int) /\ \A s \in Scopes : log[s] \in Seq(Int)
    BY DEF PacerInv, PacerTyped
  <2>2. \A s \in Scopes : log'[s] \in Seq(Int)
    BY <1>2, <2>1
  <2>3. log' = [s \in Scopes |-> log'[s]]
    BY DEF Select
  <2> QED
    BY <2>2, <2>3
<1> QED
  BY <1>1, <1>2, <1>3 DEF Select, PacerInv, PacerTyped, Past

LEMMA AppendedPast ==
    ASSUME NEW stamps \in Seq(Int), NEW t \in Int, \A i \in 1..Len(stamps) : stamps[i] <= t
    PROVE  /\ Append(stamps, t) \in Seq(Int)
           /\ \A i \in 1..Len(Append(stamps, t)) : Append(stamps, t)[i] <= t
<1>1. /\ Append(stamps, t) \in Seq(Int)
      /\ Len(Append(stamps, t)) = Len(stamps) + 1
      /\ \A i \in 1..Len(stamps) : Append(stamps, t)[i] = stamps[i]
      /\ Append(stamps, t)[Len(stamps) + 1] = t
  BY AppendProperties
<1>2. Len(stamps) \in Nat
  OBVIOUS
<1>3. \A i \in 1..(Len(stamps) + 1) : i \in 1..Len(stamps) \/ i = Len(stamps) + 1
  BY <1>2
<1> QED
  BY <1>1, <1>3

LEMMA PacerAnswered ==
    ASSUME Clocks, PacerInv, NEW k \in Keys, Answered(k)
    PROVE  PacerInv'
<1>1. PICK s \in Scopes : s = Group[k]
  BY DEF Clocks
<1>2. PICK stamped : stamped = Append(log[s], mono)
  OBVIOUS
<1>3. log[s] \in Seq(Int) /\ mono \in Int
  BY DEF PacerInv, PacerTyped
<1>4. stamped \in Seq(Int) /\ \A i \in 1..Len(stamped) : stamped[i] <= mono
  BY <1>2, <1>3, AppendedPast DEF PacerInv, Past
<1>5. PICK count : count = CountWithin(stamped, mono, Window)
  OBVIOUS
<1>6. count \in Nat
  BY <1>4, <1>5, CountType
<1>7. rpm' = rpm \/ rpm' = [rpm EXCEPT ![s] = count]
  BY <1>1, <1>2, <1>5, Zenon DEF Answered
<1>8. log' = [log EXCEPT ![s] = stamped]
  BY <1>1, <1>2 DEF Answered
<1>9. rpm' \in [Scopes -> Nat] /\ log' \in [Scopes -> Seq(Int)]
  BY <1>4, <1>6, <1>7, <1>8 DEF PacerInv, PacerTyped
<1>10. \A t \in Scopes : \A i \in 1..Len(log'[t]) : log'[t][i] <= mono
  BY <1>4, <1>8 DEF PacerInv, PacerTyped, Past
<1> QED
  BY <1>9, <1>10 DEF Answered, PacerInv, PacerTyped, Past

LEMMA PacerRefused ==
    ASSUME Clocks, PacerInv, NEW k \in Keys, Refused(k)
    PROVE  PacerInv'
<1>1. k \in Scopes /\ log[k] \in Seq(Int) /\ mono \in Nat
  BY DEF Scopes, PacerInv, PacerTyped
<1>2. CASE log[k] = <<>>
  BY <1>2 DEF Refused, PacerInv, PacerTyped, Past
<1>3. CASE log[k] # <<>>
  <2>1. CountWithin(log[k], mono, Window + Skew) \in Nat
    BY <1>1, CountType
  <2>2. rpm' \in [Scopes -> Nat]
    BY <1>1, <1>3, <2>1 DEF Refused, Higher, PacerInv, PacerTyped
  <2>3. 1 \in 1..Len(log[k]) /\ log[k][1] \in Int /\ log[k][1] <= mono
    BY <1>1, <1>3, EmptySeq DEF PacerInv, Past
  <2>4. /\ notBefore' \in [Scopes -> Int]
        /\ \A s \in Scopes : notBefore'[s] <= mono + Window + Skew
    <3> DEFINE until == Higher(notBefore[k], log[k][1] + Window + Skew)
    <3>1. until \in Int /\ until <= mono + Window + Skew
      BY <1>1, <2>3 DEF Higher, PacerInv, PacerTyped, Past, Clocks
    <3>2. notBefore' = notBefore \/ notBefore' = [notBefore EXCEPT ![k] = until]
      BY <1>3 DEF Refused
    <3>3. mono' = mono
      BY DEF Refused
    <3> HIDE DEF until
    <3> QED
      BY <1>1, <3>1, <3>2, <3>3 DEF PacerInv, PacerTyped, Past
  <2> QED
    BY <2>2, <2>4 DEF Refused, PacerInv, PacerTyped, Past
<1> QED
  BY <1>2, <1>3

LEMMA PacerStep == Clocks /\ PacerInv /\ [PacerNext]_pacerVars => PacerInv'
<1> SUFFICES ASSUME Clocks, PacerInv, [PacerNext]_pacerVars PROVE PacerInv'
  OBVIOUS
<1>1. CASE \E healthy \in SUBSET Keys : Select(healthy)
  BY <1>1, PacerSelect
<1>2. CASE \E k \in Keys : Answered(k) \/ Refused(k)
  BY <1>2, PacerAnswered, PacerRefused
<1>3. CASE \E limit \in Overrides : SetOverride(limit)
  BY <1>3 DEF SetOverride, PacerInv, PacerTyped, Past, Clocks
<1>4. CASE MonoTick
  <2>1. mono' = mono + 1 /\ mono \in Nat
    BY <1>4 DEF MonoTick, PacerInv, PacerTyped
  <2>2. \A s \in Scopes : \A i \in 1..Len(log[s]) : log[s][i] \in Int
    BY DEF PacerInv, PacerTyped
  <2> QED
    BY <1>4, <2>1, <2>2 DEF MonoTick, PacerInv, PacerTyped, Past, Clocks
<1>5. CASE UNCHANGED pacerVars
  BY <1>5 DEF pacerVars, PacerInv, PacerTyped, Past
<1> QED
  BY <1>1, <1>2, <1>3, <1>4, <1>5 DEF PacerNext

LEMMA PacerInitial == Clocks /\ PacerInit => PacerInv
BY EmptySeq DEF Clocks, PacerInit, PacerInv, PacerTyped, Past

\* Whatever is known, learned, refused or set by hand: every key is ready when
\* select asks, so the pacing term never ranks (core/carousel.py:1793,
\* core/pacing.py:206-235).
THEOREM PacerNeverRanks == ASSUME Clocks PROVE PacerSpec => []NeverRanks
<1>1. PacerInit => PacerInv
  BY PacerInitial
<1>2. PacerInv /\ [PacerNext]_pacerVars => PacerInv'
  BY PacerStep
<1>3. PacerInv => NeverRanks
  BY AlwaysReady
<1> QED
  BY <1>1, <1>2, <1>3, PTL DEF PacerSpec
=============================================================================

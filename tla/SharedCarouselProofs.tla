------------------------ MODULE SharedCarouselProofs ------------------------
(***************************************************************************)
(* Theorems about SharedHealth and SharedCarousel, for any profiles, any   *)
(* slots of the document, any dials and any order of writes: every release *)
(* stands while its row does, no event costs a live row, a process that    *)
(* reads after the floor sees what is on file, and what a carousel makes   *)
(* of it stays within its own dial, honours what is on file and is freed   *)
(* by a success.                                                           *)
(***************************************************************************)
EXTENDS SharedCarousel, TLAPS, FiniteSetTheorems

Note     == [until : Nat, at : Nat]
Row      == Note \cup {NoRow}
Document == [Slots -> Row]
Reported == [slot : Slots, until : Nat, at : Nat]

\* The file, and what the processes know of it.
FileTyped ==
    /\ clock \in Nat /\ clock >= Start /\ clockSteps \in Nat
    /\ outbox \in [Procs -> Seq(Reported)]
    /\ rows \in Document /\ mtime \in Nat
    /\ cache \in [Procs -> Document]
    /\ cacheMtime \in [Procs -> Nat] /\ checkedAt \in [Procs -> Nat]
    /\ released \in [Slots -> Int] /\ quiet \in Nat

\* A document cached under the file's mtime is the file's.
CacheDated ==
    /\ mtime = 0 => rows = Empty
    /\ \A p \in Procs : /\ cacheMtime[p] <= mtime
                        /\ cacheMtime[p] = mtime => cache[p] = rows

\* While the clock does not step back, who looked after the last write knows it.
CacheFresh ==
    clockSteps = 0 =>
        /\ quiet <= clock - Start
        /\ \A p \in Procs : /\ checkedAt[p] <= clock
                            /\ checkedAt[p] > clock - quiet => cache[p] = rows

ReleasesKept == \A s \in Slots : released[s] <= rows[s].at

WithinCap == Cardinality(Live(rows)) <= MaxRows

FileSound == FileTyped /\ CacheDated /\ CacheFresh /\ ReleasesKept
-----------------------------------------------------------------------------
(* Every step of either specification, as the file sees it.                *)

Emits == /\ \E p \in Procs, reported \in Seq(Reported) :
               outbox' = [outbox EXCEPT ![p] = reported]
         /\ UNCHANGED <<clock, clockSteps, file, caches, history>>

Reads == /\ \E p \in Procs : Reload(p)
         /\ UNCHANGED <<clock, clockSteps, outbox, file, history>>

Releases == /\ \E p \in Procs, scope \in SUBSET Slots : ReleaseAll(p, scope)
            /\ UNCHANGED <<clock, clockSteps, outbox>>

Restarts == /\ \E p \in Procs : /\ outbox' = [outbox EXCEPT ![p] = <<>>]
                                /\ cache' = [cache EXCEPT ![p] = Empty]
                                /\ cacheMtime' = [cacheMtime EXCEPT ![p] = 0]
                                /\ checkedAt' = [checkedAt EXCEPT ![p] = 0]
            /\ UNCHANGED <<clock, clockSteps, file, history>>

Unseen == UNCHANGED <<clock, clockSteps, outbox, file, caches, history>>

FileStep ==
    \/ Emits \/ Reads \/ Releases \/ Restarts \/ Unseen \/ Tick
    \/ \E p \in Procs : Land(p) \/ Lose(p)
    \/ \E to \in Start..MaxTime : StepBack(to)
-----------------------------------------------------------------------------
LEMMA Bounds ==
    /\ {PruneAfter, Slack, MaxRows, Floor, Start, MaxEvents, Horizon, MaxTime, MaxClockSteps}
            \subseteq Nat
    /\ Rests \subseteq Nat \ {0} /\ ModelSlots \subseteq Slots /\ Readers \subseteq Procs
    /\ IsFiniteSet(Slots)
BY SharedHealthAssumption DEF SharedHealthAssumption

LEMMA RowFacts ==
    /\ NoRow \in Row /\ NoRow.at = -1 /\ NoRow.until = 0
    /\ \A r \in Row : r.until \in Nat /\ r.at \in Int /\ r.at >= -1 /\ (r # NoRow => r \in Note)
    /\ \A r \in Note : r \in Row /\ r # NoRow /\ r.until \in Nat /\ r.at \in Nat
    /\ Empty \in Document
BY DEF Row, NoRow, Note, Empty, Document

\* What a landing leaves in a slot.
LEMMA LandedRows ==
    ASSUME FileTyped, NEW p \in Procs, Land(p), NEW e, e = Head(outbox[p]),
           NEW s \in Slots
    PROVE  /\ e \in Reported
           /\ \/ rows'[s] = NoRow
              \/ s = e.slot /\ Accepted(e) /\ rows'[s] = [until |-> e.until, at |-> e.at]
              \/ ~(s = e.slot /\ Accepted(e)) /\ rows'[s] = rows[s]
           /\ released'[s] = IF rows'[s] = NoRow THEN -1
                             ELSE IF s = e.slot /\ e.until = 0 THEN e.at ELSE released[s]
           /\ rows' \in [Slots -> Row]
<1> DEFINE new == [until |-> e.until, at |-> e.at]
           updated == IF Accepted(e) THEN [rows EXCEPT ![e.slot] = new] ELSE rows
           aged == Aged(updated, PruneHorizon(e.at))
<1>1. e \in Reported
  <2>1. outbox[p] \in Seq(Reported) /\ outbox[p] # <<>>
    BY DEF FileTyped, Land
  <2> QED
    BY <2>1
<1>2. new \in Note /\ e.slot \in Slots
  BY <1>1 DEF Reported, Note
<1>3. /\ rows' \in Capped(aged)
      /\ released' = [t \in Slots |-> IF rows'[t] = NoRow THEN -1
                                      ELSE IF t = e.slot /\ e.until = 0 THEN e.at
                                      ELSE released[t]]
  BY DEF Land
<1> HIDE DEF new
<1>4. \A t \in Slots : updated[t] = IF t = e.slot /\ Accepted(e) THEN new ELSE rows[t]
  BY <1>2 DEF FileTyped, Document
<1> HIDE DEF updated
<1>5. \A t \in Slots : aged[t] \in {updated[t], NoRow}
  BY DEF Aged
<1> HIDE DEF aged
<1>6. PICK kept : rows' = [t \in Slots |-> IF t \in kept THEN aged[t] ELSE NoRow]
  BY <1>3 DEF Capped
<1>7. \A t \in Slots : rows'[t] \in {updated[t], NoRow}
  BY <1>5, <1>6
<1>8. rows' \in [Slots -> Row]
  <2>1. \A t \in Slots : rows[t] \in Row
    BY DEF FileTyped, Document
  <2>2. \A t \in Slots : rows'[t] \in Row
    BY <1>2, <1>4, <1>7, <2>1, RowFacts
  <2>3. rows' = [t \in Slots |-> rows'[t]]
    BY <1>6
  <2> QED
    BY <2>2, <2>3
<1> QED
  BY <1>1, <1>3, <1>4, <1>7, <1>8 DEF new

LEMMA ReleasedRows ==
    ASSUME FileTyped, NEW p \in Procs, NEW scope \in SUBSET Slots, ReleaseAll(p, scope)
    PROVE  /\ rows' \in Document /\ released' \in [Slots -> Int]
           /\ \A s \in Slots :
                \/ rows'[s] = rows[s] /\ released'[s] = released[s]
                \/ /\ rows[s] # NoRow /\ rows'[s] \in Note
                   /\ rows'[s].until = 0 /\ rows'[s].at = released'[s]
           /\ mtime # 0
<1> DEFINE at(s) == IF rows[s].at > clock THEN rows[s].at ELSE clock
           freed == scope \cap Live(rows)
<1>1. \A s \in Slots : rows[s] \in Row
  BY DEF FileTyped, Document
<1>2. /\ rows' = [s \in Slots |-> IF s \in freed THEN [until |-> 0, at |-> at(s)] ELSE rows[s]]
      /\ released' = [s \in Slots |-> IF s \in freed THEN at(s) ELSE released[s]]
      /\ mtime # 0
  BY DEF ReleaseAll
<1>3. \A s \in freed : s \in Slots /\ rows[s] # NoRow /\ at(s) \in Nat
  <2> TAKE s \in freed
  <2>1. s \in Slots /\ rows[s] # NoRow
    BY DEF Live
  <2>2. rows[s].at \in Nat /\ clock \in Nat
    BY <1>1, <2>1, RowFacts DEF FileTyped
  <2> QED
    BY <2>1, <2>2
<1> HIDE DEF at, freed
<1>4. ASSUME NEW s \in Slots
      PROVE  \/ rows'[s] = rows[s] /\ released'[s] = released[s]
             \/ /\ rows[s] # NoRow /\ rows'[s] \in Note
                /\ rows'[s].until = 0 /\ rows'[s].at = released'[s]
  <2>1. CASE s \in freed
    <3>1. rows'[s] = [until |-> 0, at |-> at(s)] /\ released'[s] = at(s) /\ at(s) \in Nat
      BY <1>2, <1>3, <2>1
    <3> QED
      BY <1>3, <2>1, <3>1 DEF Note
  <2>2. CASE s \notin freed
    BY <1>2, <2>2
  <2> QED
    BY <2>1, <2>2
<1>5. released' \in [Slots -> Int]
  BY <1>2, <1>3 DEF FileTyped
<1>6. rows' \in Document
  <2>1. \A s \in Slots : rows'[s] \in Row
    BY <1>1, <1>4, RowFacts
  <2>2. rows' = [s \in Slots |-> rows'[s]]
    BY <1>2
  <2> QED
    BY <2>1, <2>2 DEF Document
<1> QED
  BY <1>2, <1>4, <1>5, <1>6
-----------------------------------------------------------------------------
(* Each step of the file keeps it sound.                                    *)

\* A process that looked has the file's rows, whichever way it came by them.
LEMMA LookedRows ==
    ASSUME FileTyped, CacheDated, NEW p \in Procs, Reload(p), rows' = rows
    PROVE  /\ cache' \in [Procs -> Document] /\ cacheMtime' \in [Procs -> Nat]
           /\ checkedAt' \in [Procs -> Nat]
           /\ \A q \in Procs :
                \/ /\ cache'[q] = cache[q] /\ cacheMtime'[q] = cacheMtime[q]
                   /\ checkedAt'[q] = checkedAt[q]
                   /\ q = p => ~Due(p)
                \/ q = p /\ cache'[q] = rows /\ cacheMtime'[q] = mtime /\ checkedAt'[q] = clock
<1>1. CASE ~Due(p)
  BY <1>1 DEF Reload, caches, FileTyped
<1>2. CASE Due(p)
  <2>1. checkedAt' = [checkedAt EXCEPT ![p] = clock]
    BY <1>2 DEF Reload
  <2>2. \/ cache' = [cache EXCEPT ![p] = rows] /\ cacheMtime' = [cacheMtime EXCEPT ![p] = mtime]
        \/ UNCHANGED <<cache, cacheMtime>> /\ cache[p] = rows /\ cacheMtime[p] = mtime
    BY <1>2 DEF Reload, CacheDated
  <2> QED
    BY <1>2, <2>1, <2>2 DEF FileTyped
<1> QED
  BY <1>1, <1>2

LEMMA ReadingKeeps == FileSound /\ Reads => FileSound'
<1> SUFFICES ASSUME FileSound, Reads  PROVE FileSound'
  OBVIOUS
<1>1. /\ UNCHANGED <<clock, clockSteps, outbox, rows, mtime, released, quiet>>
      /\ FileTyped /\ CacheDated /\ CacheFresh /\ ReleasesKept
  BY DEF Reads, FileSound, file, history
<1>2. PICK p \in Procs : Reload(p)
  BY DEF Reads
<1>3. /\ cache' \in [Procs -> Document] /\ cacheMtime' \in [Procs -> Nat]
      /\ checkedAt' \in [Procs -> Nat]
      /\ \A q \in Procs :
           \/ /\ cache'[q] = cache[q] /\ cacheMtime'[q] = cacheMtime[q]
              /\ checkedAt'[q] = checkedAt[q]
           \/ cache'[q] = rows /\ cacheMtime'[q] = mtime /\ checkedAt'[q] = clock
  BY <1>1, <1>2, LookedRows
<1>4. FileTyped'
  BY <1>1, <1>3 DEF FileTyped
<1>5. CacheDated'
  BY <1>1, <1>3 DEF CacheDated, FileTyped
<1>6. CacheFresh'
  BY <1>1, <1>3 DEF CacheFresh, FileTyped
<1>7. ReleasesKept'
  BY <1>1 DEF ReleasesKept
<1> QED
  BY <1>4, <1>5, <1>6, <1>7 DEF FileSound

LEMMA LandingKeeps ==
    ASSUME FileSound, NEW p \in Procs, Land(p)
    PROVE  FileSound'
<1>1. FileTyped /\ CacheDated /\ CacheFresh /\ ReleasesKept
  BY DEF FileSound
<1>2. /\ outbox' = [outbox EXCEPT ![p] = Tail(outbox[p])] /\ outbox[p] # <<>>
      /\ mtime' = mtime + 1 /\ quiet' = 0
      /\ UNCHANGED <<clock, clockSteps, cache, cacheMtime, checkedAt>>
  BY DEF Land, caches
<1> DEFINE e == Head(outbox[p])
<1>3. ASSUME NEW s \in Slots
      PROVE  /\ e \in Reported
             /\ \/ rows'[s] = NoRow
                \/ s = e.slot /\ Accepted(e) /\ rows'[s] = [until |-> e.until, at |-> e.at]
                \/ ~(s = e.slot /\ Accepted(e)) /\ rows'[s] = rows[s]
             /\ released'[s] = IF rows'[s] = NoRow THEN -1
                               ELSE IF s = e.slot /\ e.until = 0 THEN e.at ELSE released[s]
             /\ rows' \in [Slots -> Row]
  BY <1>1, LandedRows
<1>4. outbox' \in [Procs -> Seq(Reported)]
  <2>1. outbox[p] \in Seq(Reported)
    BY <1>1 DEF FileTyped
  <2>2. Tail(outbox[p]) \in Seq(Reported)
    BY <1>2, <2>1
  <2> QED
    BY <1>1, <1>2, <2>2 DEF FileTyped
<1>5. e \in Reported /\ e.slot \in Slots /\ e.at \in Nat /\ e.until \in Nat
  <2>1. outbox[p] \in Seq(Reported)
    BY <1>1 DEF FileTyped
  <2>2. e \in Reported
    BY <1>2, <2>1
  <2> QED
    BY <2>2 DEF Reported
<1>6. rows' \in Document
  BY <1>3, <1>5 DEF Document
<1> HIDE DEF e
<1>7. released' \in [Slots -> Int]
  <2>1. ASSUME NEW s \in Slots
        PROVE  released'[s] \in Int
    <3>1. released[s] \in Int /\ e.at \in Int /\ -1 \in Int
      BY <1>1, <1>5 DEF FileTyped
    <3>2. released'[s] \in {-1, e.at, released[s]}
      BY <1>3
    <3> QED
      BY <3>1, <3>2
  <2>2. released' = [s \in Slots |-> released'[s]]
    BY DEF Land
  <2> QED
    BY <2>1, <2>2
<1>8. FileTyped'
  BY <1>1, <1>2, <1>4, <1>6, <1>7 DEF FileTyped
<1>9. CacheDated'
  BY <1>1, <1>2 DEF CacheDated, FileTyped
<1>10. CacheFresh'
  <2> SUFFICES ASSUME clockSteps = 0
               PROVE  /\ 0 <= clock - Start
                      /\ \A q \in Procs : checkedAt[q] <= clock /\ ~(checkedAt[q] > clock - 0)
    BY <1>2 DEF CacheFresh
  <2> QED
    BY <1>1, Bounds DEF CacheFresh, FileTyped
<1>11. ReleasesKept'
  <2> SUFFICES ASSUME NEW s \in Slots  PROVE released'[s] <= rows'[s].at
    BY DEF ReleasesKept
  <2>1. released[s] <= rows[s].at /\ released[s] \in Int /\ rows[s].at \in Int
    BY <1>1, RowFacts DEF ReleasesKept, FileTyped, Document
  <2>2. CASE rows'[s] = NoRow
    BY <1>3, <2>2, RowFacts
  <2>3. CASE rows'[s] # NoRow /\ s = e.slot /\ Accepted(e)
    <3>1. rows'[s].at = e.at
      BY <1>3, <2>3
    <3>2. CASE e.until = 0
      BY <1>3, <1>5, <2>3, <3>1, <3>2
    <3>3. CASE e.until # 0
      BY <1>3, <1>5, <2>1, <2>3, <3>1, <3>3 DEF Accepted
    <3> QED
      BY <3>2, <3>3
  <2>4. CASE rows'[s] # NoRow /\ ~(s = e.slot /\ Accepted(e))
    <3>1. ~(s = e.slot /\ e.until = 0)
      BY <1>5, <2>4 DEF Accepted
    <3> QED
      BY <1>3, <2>1, <2>4, <3>1
  <2> QED
    BY <2>2, <2>3, <2>4
<1> QED
  BY <1>8, <1>9, <1>10, <1>11 DEF FileSound

LEMMA ReleasingKeeps == FileSound /\ Releases => FileSound'
<1> SUFFICES ASSUME FileSound, Releases  PROVE FileSound'
  OBVIOUS
<1>1. FileTyped /\ CacheDated /\ CacheFresh /\ ReleasesKept
  BY DEF FileSound
<1>2. PICK p \in Procs, scope \in SUBSET Slots : ReleaseAll(p, scope)
  BY DEF Releases
<1>3. /\ mtime' = mtime + 1 /\ quiet' = 0
      /\ cacheMtime' = [cacheMtime EXCEPT ![p] = 0]
      /\ checkedAt' = [checkedAt EXCEPT ![p] = 0]
      /\ cache' = [cache EXCEPT ![p] = Empty]
      /\ UNCHANGED <<clock, clockSteps, outbox>>
  BY <1>2 DEF ReleaseAll, Releases
<1>4. /\ rows' \in Document /\ released' \in [Slots -> Int]
      /\ \A s \in Slots :
           \/ rows'[s] = rows[s] /\ released'[s] = released[s]
           \/ /\ rows[s] # NoRow /\ rows'[s] \in Note
              /\ rows'[s].until = 0 /\ rows'[s].at = released'[s]
  BY <1>1, <1>2, ReleasedRows
<1>5. FileTyped'
  BY <1>1, <1>3, <1>4, RowFacts DEF FileTyped
<1>6. CacheDated'
  BY <1>1, <1>3 DEF CacheDated, FileTyped
<1>7. CacheFresh'
  BY <1>1, <1>3, Bounds DEF CacheFresh, FileTyped
<1>8. ReleasesKept'
  <2> SUFFICES ASSUME NEW s \in Slots  PROVE released'[s] <= rows'[s].at
    BY DEF ReleasesKept
  <2>1. released[s] <= rows[s].at /\ released'[s] \in Int
    BY <1>1, <1>4 DEF ReleasesKept
  <2> QED
    BY <1>4, <2>1
<1> QED
  BY <1>5, <1>6, <1>7, <1>8 DEF FileSound

LEMMA RestartingKeeps == FileSound /\ Restarts => FileSound'
<1> SUFFICES ASSUME FileSound, Restarts  PROVE FileSound'
  OBVIOUS
<1>1. FileTyped /\ CacheDated /\ CacheFresh /\ ReleasesKept
  BY DEF FileSound
<1>2. /\ \E p \in Procs : /\ outbox' = [outbox EXCEPT ![p] = <<>>]
                          /\ cache' = [cache EXCEPT ![p] = Empty]
                          /\ cacheMtime' = [cacheMtime EXCEPT ![p] = 0]
                          /\ checkedAt' = [checkedAt EXCEPT ![p] = 0]
      /\ UNCHANGED <<clock, clockSteps, rows, mtime, released, quiet>>
  BY DEF Restarts, file, history
<1>3. FileTyped'
  BY <1>1, <1>2, RowFacts DEF FileTyped
<1>4. CacheDated'
  BY <1>1, <1>2 DEF CacheDated, FileTyped
<1>5. CacheFresh'
  <2> SUFFICES ASSUME clockSteps = 0, NEW q \in Procs
               PROVE  /\ quiet <= clock - Start /\ checkedAt'[q] <= clock
                      /\ checkedAt'[q] > clock - quiet => cache'[q] = rows
    BY <1>2 DEF CacheFresh
  <2>1. \/ checkedAt'[q] = checkedAt[q] /\ cache'[q] = cache[q]
        \/ checkedAt'[q] = 0
    BY <1>1, <1>2 DEF FileTyped
  <2>2. /\ quiet <= clock - Start /\ checkedAt[q] <= clock
        /\ checkedAt[q] > clock - quiet => cache[q] = rows
    BY <1>1 DEF CacheFresh
  <2>3. clock \in Nat /\ quiet \in Nat /\ Start \in Nat
    BY <1>1, Bounds DEF FileTyped
  <2> QED
    BY <2>1, <2>2, <2>3
<1>6. ReleasesKept'
  BY <1>1, <1>2 DEF ReleasesKept
<1> QED
  BY <1>3, <1>4, <1>5, <1>6 DEF FileSound

LEMMA FileStaysSound == FileSound /\ FileStep => FileSound'
<1> SUFFICES ASSUME FileSound, FileStep  PROVE FileSound'
  OBVIOUS
<1>1. FileTyped /\ CacheDated /\ CacheFresh /\ ReleasesKept
  BY DEF FileSound
<1>2. CASE Emits
  <2>1. /\ UNCHANGED <<clock, clockSteps, rows, mtime, cache, cacheMtime, checkedAt, released,
                       quiet>>
        /\ outbox' \in [Procs -> Seq(Reported)]
    BY <1>1, <1>2 DEF Emits, file, caches, history, FileTyped
  <2> QED
    BY <1>1, <2>1 DEF FileSound, FileTyped, CacheDated, CacheFresh, ReleasesKept
<1>3. CASE Unseen
  BY <1>1, <1>3 DEF Unseen, file, caches, history, FileSound, FileTyped, CacheDated, CacheFresh,
                    ReleasesKept
<1>4. CASE Tick
  <2>1. /\ clock' = clock + 1 /\ quiet' = IF quiet < Floor THEN quiet + 1 ELSE quiet
        /\ UNCHANGED <<clockSteps, outbox, rows, mtime, cache, cacheMtime, checkedAt, released>>
    BY <1>4 DEF Tick, file, caches
  <2>2. FileTyped' /\ CacheDated' /\ ReleasesKept'
    BY <1>1, <2>1, Bounds DEF FileTyped, CacheDated, ReleasesKept
  <2>3. CacheFresh'
    <3>1. clock \in Nat /\ quiet \in Nat /\ Start \in Nat
      BY <1>1, Bounds DEF FileTyped
    <3>2. clock' = clock + 1 /\ quiet' \in {quiet, quiet + 1}
      BY <2>1
    <3>3. clockSteps = 0 => quiet <= clock - Start
      BY <1>1 DEF CacheFresh
    <3>4. clockSteps = 0 => quiet' <= clock' - Start
      BY <3>1, <3>2, <3>3
    <3>5. ASSUME clockSteps = 0, NEW q \in Procs
          PROVE  /\ checkedAt[q] <= clock'
                 /\ checkedAt[q] > clock' - quiet' => cache[q] = rows
      <4>1. checkedAt[q] \in Nat
        BY <1>1 DEF FileTyped
      <4>2. /\ checkedAt[q] <= clock
            /\ checkedAt[q] > clock - quiet => cache[q] = rows
        BY <1>1, <3>5 DEF CacheFresh
      <4> QED
        BY <3>1, <3>2, <4>1, <4>2
    <3> QED
      BY <2>1, <3>4, <3>5 DEF CacheFresh
  <2> QED
    BY <2>2, <2>3 DEF FileSound
<1>5. ASSUME NEW p \in Procs, Lose(p)
      PROVE  FileSound'
  <2>1. /\ outbox' = [outbox EXCEPT ![p] = Tail(outbox[p])] /\ outbox[p] # <<>>
        /\ UNCHANGED <<clock, clockSteps, rows, mtime, cache, cacheMtime, checkedAt, released,
                       quiet>>
    BY <1>5 DEF Lose, file, caches, history
  <2>2. outbox[p] \in Seq(Reported)
    BY <1>1 DEF FileTyped
  <2>3. Tail(outbox[p]) \in Seq(Reported)
    BY <2>1, <2>2
  <2> QED
    BY <1>1, <2>1, <2>3 DEF FileSound, FileTyped, CacheDated, CacheFresh, ReleasesKept
<1>6. ASSUME NEW to \in Start..MaxTime, StepBack(to)
      PROVE  FileSound'
  <2>1. /\ clock' = to /\ clockSteps' = clockSteps + 1
        /\ UNCHANGED <<outbox, rows, mtime, cache, cacheMtime, checkedAt, released, quiet>>
    BY <1>6 DEF StepBack, file, caches, history
  <2> QED
    BY <1>1, <2>1, Bounds DEF FileSound, FileTyped, CacheDated, CacheFresh, ReleasesKept
<1>7. ASSUME NEW p \in Procs, Land(p)
      PROVE  FileSound'
  BY <1>7, LandingKeeps
<1> QED
  BY <1>2, <1>3, <1>4, <1>5, <1>6, <1>7, ReadingKeeps, ReleasingKeeps, RestartingKeeps
     DEF FileStep
-----------------------------------------------------------------------------
(* SharedHealth by itself: its specification takes only these steps.        *)

\* What one call reports of a slot is an event.
LEMMA EventTyped ==
    ASSUME NEW s \in Slots, NEW until \in Nat, NEW at \in Nat
    PROVE  Event(s, until, at) \in Reported
BY DEF Event, Reported

LEMMA NextIsFileStep == FileSound /\ Next => FileStep
<1> SUFFICES ASSUME FileSound, Next  PROVE FileStep
  OBVIOUS
<1>1. ASSUME NEW p \in Procs, NEW s \in Slots, NEW rest \in Rests \cup {0}, Report(p, s, rest)
      PROVE  Emits
  <2> DEFINE until == IF rest = 0 THEN 0 ELSE clock + rest
             reported == <<Event(s, until, clock)>>
  <2>1. until \in Nat /\ clock \in Nat
    BY Bounds DEF FileSound, FileTyped
  <2>2. Event(s, until, clock) \in Reported
    BY <2>1, EventTyped
  <2>3. reported \in Seq(Reported)
    BY <2>2
  <2>4. outbox' = [outbox EXCEPT ![p] = reported]
    BY <1>1 DEF Report, Emit
  <2> HIDE DEF reported
  <2> QED
    BY <1>1, <2>3, <2>4 DEF Emits, Report
<1>2. ASSUME NEW p \in Procs, NEW scope \in {Slots, ModelSlots}, PressRelease(p, scope)
      PROVE  Releases
  BY <1>2, Bounds DEF Releases, PressRelease
<1>3. ASSUME NEW p \in Readers, Read(p)
      PROVE  Reads
  BY <1>3, Bounds DEF Reads, Read
<1> QED
  BY <1>1, <1>2, <1>3 DEF Next, FileStep

LEMMA FileStartsSound == Init => FileSound
<1> SUFFICES ASSUME Init  PROVE FileSound
  OBVIOUS
<1>1. FileTyped
  BY Bounds, RowFacts DEF Init, FileTyped
<1>2. CacheDated
  BY DEF Init, CacheDated
<1>3. CacheFresh
  BY Bounds DEF Init, CacheFresh
<1>4. ReleasesKept
  BY RowFacts DEF Init, ReleasesKept, Empty
<1> QED
  BY <1>1, <1>2, <1>3, <1>4 DEF FileSound

LEMMA StillSound == FileSound /\ UNCHANGED healthVars => FileSound'
<1> SUFFICES ASSUME FileSound, UNCHANGED healthVars  PROVE FileSound'
  OBVIOUS
<1>1. Unseen
  BY DEF Unseen, healthVars, file, caches, history
<1> QED
  BY <1>1, FileStaysSound DEF FileStep

\* The inductive invariant of the file and the caches.
THEOREM FileInvariant == Spec => []FileSound
<1>1. FileSound /\ [Next]_healthVars => FileSound'
  BY FileStaysSound, NextIsFileStep, StillSound
<1> QED
  BY <1>1, FileStartsSound, PTL DEF Spec

(* Whatever order the writes of any number of processes land in, with any  *)
(* number of slots and rows pruned or capped in between, a late write      *)
(* never brings a rest back that is older than the release its row         *)
(* remembers (core/shared_health.py:736-768).                              *)
THEOREM NoOldRestReturns == Spec => []ReleaseStands
<1>1. FileSound => ReleaseStands
  BY DEF FileSound, ReleasesKept, ReleaseStands, FileTyped, Document
<1> QED
  BY <1>1, FileInvariant, PTL
-----------------------------------------------------------------------------
(* What a read finds.                                                       *)

\* A process that looks after the floor has the file's rows.
LEMMA LooksFresh ==
    ASSUME FileSound, NEW p \in Procs, Reload(p), rows' = rows, quiet >= Floor, clockSteps = 0
    PROVE  cache'[p] = rows
<1>1. FileTyped /\ CacheDated /\ CacheFresh
  BY DEF FileSound
<1>2. CASE Due(p)
  <2>1. ~ Due(p) \/ cache'[p] = rows
    BY <1>1, LookedRows
  <2> QED
    BY <1>2, <2>1
<1>3. CASE ~Due(p)
  <2>1. cache'[p] = cache[p]
    BY <1>3 DEF Reload, caches
  <2>2. clock - checkedAt[p] < Floor
    BY <1>1, <1>3, Bounds DEF Due, FileTyped
  <2>3. checkedAt[p] > clock - quiet
    BY <1>1, <2>2, Bounds DEF FileTyped
  <2> QED
    BY <1>1, <2>1, <2>3 DEF CacheFresh
<1> QED
  BY <1>2, <1>3

(* In every run of any number of processes, the first look after the floor *)
(* shows what is on file, while the clock does not step back: the mtime    *)
(* test and the throttle of stat calls hide nothing longer than that       *)
(* (core/shared_health.py:41-48, 540-571).                                 *)
THEOREM ReadsAreFresh == Spec => []FreshOnNextRead
<1>1. Init => FreshOnNextRead
  BY DEF Init, NoRead, FreshOnNextRead
<1>2. ASSUME FileSound, FreshOnNextRead, [Next]_healthVars
      PROVE  FreshOnNextRead'
  <2>1. ASSUME NEW p \in Readers, Read(p)
        PROVE  FreshOnNextRead'
    <3>1. p \in Procs /\ Reload(p) /\ rows' = rows /\ clockSteps' = clockSteps
      BY <2>1, Bounds DEF Read, file
    <3>2. lastRead' = [outcome |-> "read", quiet |-> quiet, current |-> cache'[p] = rows]
      BY <2>1 DEF Read
    <3>3. quiet >= Floor /\ clockSteps = 0 => cache'[p] = rows
      BY <1>2, <3>1, LooksFresh
    <3>4. lastRead'.quiet = quiet
      BY <3>2
    <3>5. cache'[p] = rows => lastRead'.current
      BY <3>2
    <3> QED
      BY <3>1, <3>3, <3>4, <3>5 DEF FreshOnNextRead
  <2>2. CASE lastRead' = NoRead
    BY <2>2 DEF NoRead, FreshOnNextRead
  <2>3. CASE UNCHANGED healthVars
    BY <1>2, <2>3 DEF healthVars, FreshOnNextRead
  <2> QED
    BY <1>2, <2>1, <2>2, <2>3 DEF Next, Report, PressRelease, Land, Lose, Tick, StepBack
<1> QED
  BY <1>1, <1>2, FileInvariant, PTL DEF Spec
-----------------------------------------------------------------------------
(* The file is never over its cap, and what a write costs.                  *)

LEMMA LiveIsFinite ==
    ASSUME NEW doc
    PROVE  /\ Live(doc) \subseteq Slots /\ IsFiniteSet(Live(doc))
           /\ Cardinality(Live(doc)) \in Nat
<1>1. Live(doc) \subseteq Slots
  BY DEF Live
<1>2. IsFiniteSet(Live(doc))
  BY <1>1, Bounds, FS_Subset
<1> QED
  BY <1>1, <1>2, FS_CardinalityType

\* What a landing keeps: the newest rows of a document, no more than fit.
NewestKept(doc) ==
    /\ Live(rows') \subseteq Live(doc)
    /\ \A s \in Live(rows') : rows'[s] = doc[s]
    /\ Cardinality(Live(rows')) <= MaxRows
    /\ Live(rows') # Live(doc) => Cardinality(Live(rows')) = MaxRows
    /\ \A s \in Live(rows'), t \in Live(doc) \ Live(rows') : doc[s].at >= doc[t].at

LEMMA KeptRows ==
    ASSUME FileTyped, NEW p \in Procs, Land(p), NEW e, e = Head(outbox[p]),
           NEW updated,
           updated = IF Accepted(e)
                     THEN [rows EXCEPT ![e.slot] = [until |-> e.until, at |-> e.at]] ELSE rows,
           NEW aged, aged = Aged(updated, PruneHorizon(e.at))
    PROVE  NewestKept(aged)
<1>1. rows' \in Capped(aged)
  BY DEF Land
<1>2. PICK kept \in SUBSET Live(aged) :
         /\ rows' = [s \in Slots |-> IF s \in kept THEN aged[s] ELSE NoRow]
         /\ Cardinality(kept) <= MaxRows
         /\ kept # Live(aged) => Cardinality(kept) = MaxRows
         /\ \A s \in kept, t \in Live(aged) \ kept : aged[s].at >= aged[t].at
  BY <1>1 DEF Capped
<1>3. Live(rows') = kept
  BY <1>2 DEF Live
<1>4. \A s \in kept : rows'[s] = aged[s]
  BY <1>2 DEF Live
<1>5. /\ kept \subseteq Live(aged)
      /\ Cardinality(kept) <= MaxRows
      /\ kept # Live(aged) => Cardinality(kept) = MaxRows
      /\ \A s \in kept, t \in Live(aged) \ kept : aged[s].at >= aged[t].at
  BY <1>2
<1> QED
  BY ONLY <1>3, <1>4, <1>5, Zenon DEF NewestKept

LEMMA LandingStaysWithinCap ==
    ASSUME FileTyped, NEW p \in Procs, Land(p)
    PROVE  WithinCap'
<1> DEFINE e == Head(outbox[p])
           updated == IF Accepted(e)
                      THEN [rows EXCEPT ![e.slot] = [until |-> e.until, at |-> e.at]] ELSE rows
           aged == Aged(updated, PruneHorizon(e.at))
<1> HIDE DEF aged
<1>1. aged = Aged(updated, PruneHorizon(e.at))
  BY DEF aged
<1> HIDE DEF updated
<1>2. updated = IF Accepted(e)
                THEN [rows EXCEPT ![e.slot] = [until |-> e.until, at |-> e.at]] ELSE rows
  BY DEF updated
<1> HIDE DEF e
<1>3. e = Head(outbox[p])
  BY DEF e
<1> QED
  BY <1>1, <1>2, <1>3, KeptRows DEF WithinCap, NewestKept

LEMMA FileStaysWithinCap == FileTyped /\ WithinCap /\ FileStep => WithinCap'
<1> SUFFICES ASSUME FileTyped, WithinCap, FileStep  PROVE WithinCap'
  OBVIOUS
<1>1. CASE rows' = rows
  BY <1>1 DEF WithinCap, Live
<1>2. ASSUME NEW p \in Procs, Land(p)
      PROVE  WithinCap'
  BY <1>2, LandingStaysWithinCap
<1>3. ASSUME NEW p \in Procs, NEW scope \in SUBSET Slots, ReleaseAll(p, scope)
      PROVE  WithinCap'
  <2>1. \A s \in Slots : rows'[s] = NoRow <=> rows[s] = NoRow
    BY <1>3, ReleasedRows, RowFacts
  <2>2. Live(rows') = Live(rows)
    BY <2>1 DEF Live
  <2> QED
    BY <2>2 DEF WithinCap
<1> QED
  BY <1>1, <1>2, <1>3 DEF FileStep, Emits, Reads, Releases, Restarts, Unseen, Tick, Lose, StepBack,
                          file

\* Only rows too old by this machine's clock are aged, and never the event's own.
LEMMA AgedRows ==
    ASSUME FileTyped, NEW e \in Reported, NEW s \in Slots, NEW updated \in Document,
           updated[s] # NoRow, Aged(updated, PruneHorizon(e.at))[s] = NoRow
    PROVE  clock + Slack - updated[s].at > PruneAfter /\ updated[s].at # e.at
<1> DEFINE horizon == PruneHorizon(e.at)
<1>1. horizon - updated[s].at > PruneAfter
  BY DEF Aged
<1>2. e.at \in Nat /\ clock \in Nat /\ Slack \in Nat /\ PruneAfter \in Nat
  BY Bounds DEF FileTyped, Reported
<1>3. updated[s].at \in Int
  BY RowFacts DEF Document
<1>4. horizon \in Int /\ horizon <= clock + Slack /\ horizon <= e.at
  BY <1>2 DEF PruneHorizon
<1> HIDE DEF horizon
<1> QED
  BY <1>1, <1>2, <1>3, <1>4

LEMMA OneEventCostsNoLiveRow ==
    ASSUME FileSound, WithinCap, NEW p \in Procs, Land(p), NEW s \in Slots,
           rows[s] # NoRow, rows'[s] = NoRow
    PROVE  \/ clock + Slack - rows[s].at > PruneAfter
           \/ /\ Cardinality(Live(rows')) = MaxRows
              /\ \A t \in Live(rows') : rows'[t].at >= rows[s].at
<1> DEFINE e == Head(outbox[p])
           new == [until |-> e.until, at |-> e.at]
           updated == IF Accepted(e) THEN [rows EXCEPT ![e.slot] = new] ELSE rows
           aged == Aged(updated, PruneHorizon(e.at))
<1>1. FileTyped
  BY DEF FileSound
<1>2. e \in Reported
  BY <1>1, LandedRows
<1>3. e.slot \in Slots /\ e.until \in Nat /\ e.at \in Nat /\ new \in Note
  BY <1>2 DEF Reported, Note
<1>4. rows \in Document /\ \A t \in Slots : rows[t] \in Row /\ rows[t].at \in Int
  BY <1>1, RowFacts DEF FileTyped, Document
<1>5. /\ updated \in Document
      /\ \A t \in Slots : updated[t] = IF t = e.slot /\ Accepted(e) THEN new ELSE rows[t]
  BY <1>3, <1>4, RowFacts DEF Document
<1>6. NewestKept(aged)
  <2> HIDE DEF aged
  <2>1. aged = Aged(updated, PruneHorizon(e.at))
    BY DEF aged
  <2> HIDE DEF updated
  <2>2. updated = IF Accepted(e)
                  THEN [rows EXCEPT ![e.slot] = [until |-> e.until, at |-> e.at]] ELSE rows
    BY DEF updated
  <2> HIDE DEF e
  <2>3. e = Head(outbox[p])
    BY DEF e
  <2> QED
    BY <1>1, <2>1, <2>2, <2>3, KeptRows
<1>7. new.at = e.at /\ new # NoRow
  BY <1>3, RowFacts
<1> HIDE DEF new
<1>8. updated[s] # NoRow
  BY <1>5, <1>7
<1>9. CASE aged[s] = NoRow
  <2>1. clock + Slack - updated[s].at > PruneAfter /\ updated[s].at # e.at
    BY <1>1, <1>2, <1>5, <1>8, <1>9, AgedRows
  <2>2. updated[s] = rows[s]
    BY <1>5, <1>7, <2>1
  <2> QED
    BY <2>1, <2>2
<1>10. CASE aged[s] # NoRow
  <2>1. \A t \in Slots : aged[t] \in {updated[t], NoRow}
    BY DEF Aged
  <2> HIDE DEF updated, aged, e
  <2>2. aged[s] = updated[s]
    BY <1>10, <2>1
  <2>3. s \in Live(aged) /\ s \notin Live(rows')
    BY <1>10 DEF Live
  <2>4. Cardinality(Live(rows')) = MaxRows
    BY <1>6, <2>3 DEF NewestKept
  <2>5. ~(s = e.slot /\ Accepted(e))
    <3> SUFFICES ASSUME s = e.slot, Accepted(e)  PROVE FALSE
      OBVIOUS
    <3>1. Live(aged) \subseteq Live(rows)
      BY <1>5, <2>1 DEF Live
    <3>2. Live(rows') \cup {s} \subseteq Live(rows)
      BY <1>6, <2>3, <3>1 DEF NewestKept
    <3>3. IsFiniteSet(Live(rows)) /\ IsFiniteSet(Live(rows'))
      BY LiveIsFinite
    <3>4. Cardinality(Live(rows') \cup {s}) = Cardinality(Live(rows')) + 1
      BY <2>3, <3>3, FS_AddElement
    <3>5. Cardinality(Live(rows') \cup {s}) <= Cardinality(Live(rows))
      BY <3>2, <3>3, FS_Subset
    <3>6. /\ MaxRows \in Nat /\ Cardinality(Live(rows)) \in Nat
          /\ Cardinality(Live(rows)) <= MaxRows
      BY LiveIsFinite, Bounds DEF WithinCap
    <3> QED
      BY <2>4, <3>4, <3>5, <3>6
  <2>6. updated[s] = rows[s]
    BY <1>5, <2>5
  <2> QED
    BY <1>6, <2>2, <2>3, <2>4, <2>6 DEF NewestKept
<1> QED
  BY <1>9, <1>10

\* One step of the file costs no live row.
LEMMA NoStepCostsALiveRow ==
    ASSUME FileSound, WithinCap, FileStep, NEW s \in Slots, rows[s] # NoRow, rows'[s] = NoRow
    PROVE  \/ clock + Slack - rows[s].at > PruneAfter
           \/ /\ Cardinality(Live(rows')) = MaxRows
              /\ \A t \in Live(rows') : rows'[t].at >= rows[s].at
<1>1. rows' # rows
  OBVIOUS
<1>2. ASSUME NEW p \in Procs, NEW scope \in SUBSET Slots, ReleaseAll(p, scope)
      PROVE  FALSE
  BY <1>2, ReleasedRows, RowFacts DEF FileSound
<1>3. \E p \in Procs : Land(p)
  BY <1>1, <1>2 DEF FileStep, Emits, Reads, Releases, Restarts, Unseen, Tick, Lose, StepBack, file
<1> QED
  BY <1>3, OneEventCostsNoLiveRow

LEMMA FileStartsWithinCap == Init => WithinCap
<1> SUFFICES ASSUME Init  PROVE WithinCap
  OBVIOUS
<1>1. Live(rows) = {}
  BY DEF Init, Empty, Live
<1> QED
  BY <1>1, FS_EmptySet, Bounds DEF WithinCap

(* However many profiles write, and however wrong a clock one of them has, *)
(* the file keeps every row that is not too old by this machine's clock,   *)
(* except the oldest when it is full; and it is never over its cap         *)
(* (core/shared_health.py:182-197, 373-413, 770-776).                      *)
THEOREM RowsAreKept == Spec => LiveRowsSurvive /\ []WithinCap
<1>1. FileSound /\ WithinCap /\ [Next]_healthVars => WithinCap'
  <2>1. FileSound /\ WithinCap /\ UNCHANGED healthVars => WithinCap'
    BY DEF healthVars, file, WithinCap, Live
  <2> QED
    BY <2>1, NextIsFileStep, FileStaysWithinCap DEF FileSound
<1>2. FileSound /\ WithinCap /\ [Next]_healthVars =>
        [\A s \in Slots : rows[s] # NoRow /\ rows'[s] = NoRow =>
             \/ clock + Slack - rows[s].at > PruneAfter
             \/ /\ Cardinality(Live(rows')) = MaxRows
                /\ \A t \in Live(rows') : rows'[t].at >= rows[s].at]_healthVars
  BY NextIsFileStep, NoStepCostsALiveRow
<1> QED
  BY <1>1, <1>2, FileInvariant, FileStartsWithinCap, PTL DEF Spec, LiveRowsSurvive
-----------------------------------------------------------------------------
(* The carousels over the file.                                             *)

Cap    == [at : Nat, cap : Nat] \cup {NoCap}
Memory == [event : Note, on : Nat, since : Nat]

\* What each process remembers.
HoldsTyped ==
    /\ local \in [Procs -> [Slots -> Note]] /\ caps \in [Procs -> [Slots -> Cap]]
    /\ clearing \in [Procs -> SUBSET Slots]
    /\ firstRead \in [Procs -> [Slots -> Memory]]

\* A rest without a cap ends within the dial from its first reading; a cap is
\* of the event last read, and does too.
Known(c, fr, dial) ==
    /\ c = NoCap => fr.event.until <= fr.on + dial
    /\ c # NoCap => c.at = fr.event.at /\ c.cap <= fr.on + dial

\* No cap is lowered while the clock does not step back.
Paced(c, fr, dial) == fr.since <= clock /\ (c # NoCap => c.cap >= fr.since + dial)

HoldsKnown == \A p \in Procs, s \in Slots : Known(caps[p][s], firstRead[p][s], Dial[p])
HoldsPaced ==
    clockSteps = 0 => \A p \in Procs, s \in Slots : Paced(caps[p][s], firstRead[p][s], Dial[p])

PoolSound == HoldsTyped /\ HoldsKnown /\ HoldsPaced

LEMMA PoolBounds ==
    /\ ModelSlots \subseteq Slots /\ Account \in Slots /\ Dial \in [Procs -> Nat] /\ Lag \in Nat
    /\ \A p \in Procs : Dial[p] \in Nat
BY SharedCarouselAssumption DEF SharedCarouselAssumption

LEMMA MemoryFacts ==
    /\ Unknown \in Note /\ Unknown.until = 0 /\ Unknown.at = 0
    /\ NoCap \in Cap /\ NoCap.at = -1
    /\ \A c \in Cap : c.at \in Int /\ c.cap \in Nat /\ (c # NoCap => c.at \in Nat)
    /\ \A at \in Nat, cap \in Nat : /\ [at |-> at, cap |-> cap] \in Cap
                                    /\ [at |-> at, cap |-> cap] # NoCap
    /\ NeverRead \in Memory /\ NeverRead.event = Unknown
    /\ NeverRead.on = 0 /\ NeverRead.since = 0
BY DEF Unknown, Note, NoCap, Cap, NeverRead, Memory

LEMMA Comparisons ==
    ASSUME NEW a \in Nat, NEW b \in Nat
    PROVE  /\ Earlier(a, b) \in {a, b} /\ Earlier(a, b) <= a /\ Earlier(a, b) <= b
           /\ Later(a, b) \in {a, b} /\ a <= Later(a, b) /\ b <= Later(a, b)
BY DEF Earlier, Later

LEMMA MomentsAreNats == clock \in Nat => Moments \subseteq Nat
<1> SUFFICES ASSUME clock \in Nat, NEW now \in Moments  PROVE now \in Nat
  OBVIOUS
<1>1. Later(Start, clock - Lag) >= Start /\ Later(Start, clock - Lag) \in Int
  BY Bounds, PoolBounds DEF Later
<1> QED
  BY <1>1, Bounds DEF Moments
-----------------------------------------------------------------------------
(* The file sees nothing of the carousels but its own steps.                *)

LEMMA AnsweredIsFileStep ==
    ASSUME FileSound, NEW p \in Procs, NEW m \in ModelSlots, NEW now \in Moments,
           MarkAnswered(p, m, now)
    PROVE  Emits
<1> DEFINE reported == <<Event(m, 0, now), Event(Account, 0, now)>>
<1>1. now \in Nat
  BY MomentsAreNats DEF FileSound, FileTyped
<1>2. Event(m, 0, now) \in Reported /\ Event(Account, 0, now) \in Reported
  BY <1>1, EventTyped, PoolBounds
<1>3. reported \in Seq(Reported)
  BY <1>2
<1>4. outbox' = [outbox EXCEPT ![p] = reported]
  BY DEF MarkAnswered, Emit
<1> HIDE DEF reported
<1> QED
  BY <1>3, <1>4 DEF MarkAnswered, Emits

\* What a refusal makes of a hold: a later end, within the dial.
LEMMA RefusedHolds ==
    ASSUME FileSound, HoldsTyped, NEW p \in Procs, NEW m \in ModelSlots, NEW rest \in Rests,
           NEW now \in Moments, NEW until, NEW hold,
           until = Earlier(Later(local[p][m].until, now + Earlier(rest, Dial[p])), now + Dial[p]),
           hold = Earlier(Later(local[p][Account].until, until), now + Dial[p])
    PROVE  until \in Nat /\ hold \in Nat /\ now \in Nat
<1>1. now \in Nat
  BY MomentsAreNats DEF FileSound, FileTyped
<1>2. rest \in Nat /\ Dial[p] \in Nat
  BY Bounds, PoolBounds
<1>3. local[p][m].until \in Nat /\ local[p][Account].until \in Nat
  <2>1. local[p][m] \in Note /\ local[p][Account] \in Note
    BY PoolBounds DEF HoldsTyped
  <2> QED
    BY <2>1 DEF Note
<1>4. Earlier(rest, Dial[p]) \in Nat
  BY <1>2, Comparisons
<1>5. now + Earlier(rest, Dial[p]) \in Nat /\ now + Dial[p] \in Nat
  BY <1>1, <1>2, <1>4
<1>6. Later(local[p][m].until, now + Earlier(rest, Dial[p])) \in Nat
  BY <1>3, <1>5, Comparisons
<1>7. until \in Nat
  BY <1>5, <1>6, Comparisons
<1>8. Later(local[p][Account].until, until) \in Nat
  BY <1>3, <1>7, Comparisons
<1> QED
  BY <1>1, <1>5, <1>7, <1>8, Comparisons

LEMMA RefusedIsFileStep ==
    ASSUME FileSound, HoldsTyped, NEW p \in Procs, NEW m \in ModelSlots, NEW rest \in Rests,
           NEW account \in BOOLEAN, NEW now \in Moments, MarkRefused(p, m, rest, account, now)
    PROVE  Emits
<1> DEFINE until == Earlier(Later(local[p][m].until, now + Earlier(rest, Dial[p])), now + Dial[p])
           hold == Earlier(Later(local[p][Account].until, until), now + Dial[p])
           reported == <<Event(m, until, now)>> \o
                       IF account THEN <<Event(Account, hold, now)>> ELSE <<>>
<1>1. outbox' = [outbox EXCEPT ![p] = reported]
  BY DEF MarkRefused, Emit
<1> HIDE DEF hold
<1>2. hold = Earlier(Later(local[p][Account].until, until), now + Dial[p])
  BY DEF hold
<1> HIDE DEF until
<1>3. until = Earlier(Later(local[p][m].until, now + Earlier(rest, Dial[p])), now + Dial[p])
  BY DEF until
<1>4. until \in Nat /\ hold \in Nat /\ now \in Nat
  BY <1>2, <1>3, RefusedHolds
<1>5. Event(m, until, now) \in Reported /\ Event(Account, hold, now) \in Reported
  BY <1>4, EventTyped, PoolBounds
<1>6. reported \in Seq(Reported)
  <2>1. <<Event(m, until, now)>> \in Seq(Reported)
    BY <1>5
  <2>2. <<Event(Account, hold, now)>> \in Seq(Reported) /\ << >> \in Seq(Reported)
    BY <1>5
  <2> QED
    BY <2>1, <2>2
<1> HIDE DEF reported
<1> QED
  BY <1>1, <1>6 DEF MarkRefused, Emits

LEMMA PoolNextIsFileStep == FileSound /\ HoldsTyped /\ PoolNext => FileStep
<1> SUFFICES ASSUME FileSound, HoldsTyped, PoolNext  PROVE FileStep
  OBVIOUS
<1>1. ASSUME NEW p \in Readers, NEW m \in ModelSlots, Consult(p, m)
      PROVE  Reads
  BY <1>1, Bounds DEF Reads, Consult
<1>2. ASSUME NEW p \in Procs, NEW scope \in {Slots} \cup {{m} : m \in ModelSlots},
             PressClear(p, scope)
      PROVE  Releases \/ Unseen
  <2>1. scope \in SUBSET Slots
    BY PoolBounds
  <2> QED
    BY <1>2, <2>1 DEF Releases, Unseen, PressClear
<1>3. ASSUME NEW p \in Procs, Forget(p)
      PROVE  Unseen
  BY <1>3 DEF Unseen, Forget, healthVars
<1>4. ASSUME NEW p \in Procs, Restart(p)
      PROVE  Restarts
  BY <1>4 DEF Restarts, Restart
<1> QED
  BY <1>1, <1>2, <1>3, <1>4, AnsweredIsFileStep, RefusedIsFileStep
     DEF PoolNext, Elsewhere, FileStep
-----------------------------------------------------------------------------
(* One reading of one slot.                                                 *)

LEMMA FirstReadFacts ==
    ASSUME NEW known \in Memory, NEW e \in Note, clock \in Nat
    PROVE  /\ FirstRead(known, e) \in Memory /\ FirstRead(known, e).event = e
           /\ FirstRead(known, e).on = IF known.event = e THEN known.on ELSE clock
           /\ FirstRead(known, e).since = IF known.event.at = e.at THEN known.since ELSE clock
BY DEF FirstRead, Memory

LEMMA BoundedFacts ==
    ASSUME NEW p \in Procs, NEW s \in Slots, NEW e \in Note, clock \in Nat,
           caps[p][s] \in Cap, firstRead[p][s] \in Memory,
           Known(caps[p][s], firstRead[p][s], Dial[p]),
           NEW known, known = FirstRead(firstRead[p][s], e)
    PROVE  /\ known \in Memory /\ known.event = e /\ Bounded(p, s, e) \in Cap
           /\ Known(Bounded(p, s, e), known, Dial[p])
           /\ Paced(caps[p][s], firstRead[p][s], Dial[p]) => Paced(Bounded(p, s, e), known, Dial[p])
           /\ Bounded(p, s, e) = NoCap => e.until <= Ceiling(p)
           /\ Bounded(p, s, e) # NoCap => Bounded(p, s, e).cap <= Ceiling(p)
<1> DEFINE c == caps[p][s]
           fr == firstRead[p][s]
           b == Bounded(p, s, e)
           top == clock + Dial[p]
<1>1. /\ e.at \in Nat /\ e.until \in Nat /\ Dial[p] \in Nat
      /\ c.at \in Int /\ c.cap \in Nat /\ (c = NoCap => c.at = -1)
      /\ fr.on \in Nat /\ fr.since \in Nat /\ fr.event.until \in Nat /\ fr.event.at \in Nat
  BY PoolBounds, MemoryFacts DEF Note, Memory
<1>2. /\ known \in Memory /\ known.event = e
      /\ known.on = IF fr.event = e THEN fr.on ELSE clock
      /\ known.since = IF fr.event.at = e.at THEN fr.since ELSE clock
  BY FirstReadFacts
<1>3. /\ c = NoCap => fr.event.until <= fr.on + Dial[p]
      /\ c # NoCap => c.at = fr.event.at /\ c.cap <= fr.on + Dial[p]
  BY DEF Known
<1>4. Ceiling(p) = top /\ top \in Nat
  BY <1>1 DEF Ceiling
<1>5. CASE c.at = e.at
  <2> DEFINE cap == Earlier(c.cap, top)
  <2>1. cap \in Nat /\ cap <= top /\ cap <= c.cap /\ cap \in {c.cap, top}
    BY <1>1, <1>4, Comparisons
  <2>2. b = [at |-> e.at, cap |-> cap]
    BY <1>4, <1>5 DEF Bounded
  <2> HIDE DEF cap
  <2>3. b \in Cap /\ b # NoCap /\ b.at = e.at /\ b.cap = cap
    BY <1>1, <2>1, <2>2, MemoryFacts
  <2> HIDE DEF b
  <2>4. c # NoCap
    BY <1>1, <1>5
  <2>5. fr.event.at = e.at /\ c.cap <= fr.on + Dial[p]
    BY <1>3, <1>5, <2>4
  <2>6. cap <= known.on + Dial[p]
    BY <1>1, <1>2, <2>1, <2>5
  <2>7. Known(b, known, Dial[p])
    BY <1>2, <2>3, <2>6 DEF Known
  <2>8. Paced(c, fr, Dial[p]) => Paced(b, known, Dial[p])
    BY <1>1, <1>2, <2>1, <2>3, <2>4, <2>5 DEF Paced
  <2> QED
    BY <1>2, <1>4, <2>1, <2>3, <2>7, <2>8 DEF b
<1>6. CASE c.at # e.at /\ e.until <= top
  <2>1. b = NoCap
    BY <1>4, <1>6 DEF Bounded
  <2> HIDE DEF b
  <2>2. fr.event = e => c = NoCap
    BY <1>3, <1>6
  <2>3. e.until <= known.on + Dial[p]
    BY <1>1, <1>2, <1>3, <1>6, <2>2
  <2>4. Known(b, known, Dial[p])
    BY <1>2, <2>1, <2>3 DEF Known
  <2>5. Paced(c, fr, Dial[p]) => Paced(b, known, Dial[p])
    BY <1>1, <1>2, <2>1 DEF Paced
  <2> QED
    BY <1>2, <1>4, <1>6, <2>1, <2>4, <2>5, MemoryFacts DEF b
<1>7. CASE c.at # e.at /\ ~(e.until <= top)
  <2>1. b = [at |-> e.at, cap |-> top]
    BY <1>4, <1>7 DEF Bounded
  <2>2. b \in Cap /\ b # NoCap /\ b.at = e.at /\ b.cap = top
    BY <1>1, <1>4, <2>1, MemoryFacts
  <2> HIDE DEF b
  <2>3. fr.event = e => c = NoCap
    BY <1>3, <1>7
  <2>4. top <= known.on + Dial[p]
    BY <1>1, <1>2, <1>3, <1>4, <1>7, <2>3
  <2>5. Known(b, known, Dial[p])
    BY <1>2, <2>2, <2>4 DEF Known
  <2>6. Paced(c, fr, Dial[p]) => Paced(b, known, Dial[p])
    BY <1>1, <1>2, <2>2 DEF Paced
  <2> QED
    BY <1>2, <1>4, <2>2, <2>5, <2>6 DEF b
<1> QED
  BY <1>5, <1>6, <1>7

\* The slots a verdict on model m takes from the file.
Believed(p, m, s) == s \in {m, Account} /\ Fresher(p, s, Evidence(cache'[p], s))

\* What a consultation leaves of one slot of any process.
LEMMA ConsultedSlot ==
    ASSUME FileSound, HoldsTyped, NEW p \in Readers, NEW m \in ModelSlots, Consult(p, m),
           NEW s \in Slots
    PROVE  /\ Evidence(cache'[p], s) \in Note
           /\ local'[p][s] = IF s \in {m, Account} THEN Trimmed(p, s) ELSE local[p][s]
           /\ caps'[p][s] = IF Believed(p, m, s) THEN Bounded(p, s, Evidence(cache'[p], s))
                            ELSE caps[p][s]
           /\ firstRead'[p][s] = IF Believed(p, m, s)
                                 THEN FirstRead(firstRead[p][s], Evidence(cache'[p], s))
                                 ELSE firstRead[p][s]
           /\ \A q \in Procs \ {p} : /\ local'[q] = local[q] /\ caps'[q] = caps[q]
                                     /\ firstRead'[q] = firstRead[q]
           /\ clearing' = clearing /\ clock' = clock /\ clockSteps' = clockSteps /\ rows' = rows
           /\ Reload(p)
<1>1. p \in Procs
  BY Bounds
<1>2. cache' \in [Procs -> Document]
  <2>1. FileTyped /\ CacheDated /\ Reload(p) /\ rows' = rows
    BY DEF FileSound, Consult, file
  <2> QED
    BY <1>1, <2>1, LookedRows
<1>3. Evidence(cache'[p], s) \in Note
  <2>1. cache'[p][s] \in Row
    BY <1>1, <1>2 DEF Document
  <2>2. [until |-> 0, at |-> 0] \in Note
    BY DEF Note
  <2> QED
    BY <2>1, <2>2, RowFacts DEF Evidence
<1>4. local' = [local EXCEPT ![p] = [t \in Slots |->
                   IF t \in {m, Account} THEN Trimmed(p, t) ELSE @[t]]]
  BY DEF Consult
<1>5. caps' = [caps EXCEPT ![p] = [t \in Slots |->
                  IF Believed(p, m, t) THEN Bounded(p, t, Evidence(cache'[p], t)) ELSE @[t]]]
  BY DEF Consult, Believed
<1>6. firstRead' = [firstRead EXCEPT ![p] = [t \in Slots |->
                       IF Believed(p, m, t) THEN FirstRead(@[t], Evidence(cache'[p], t))
                       ELSE @[t]]]
  BY DEF Consult, Believed
<1>7. /\ local'[p][s] = IF s \in {m, Account} THEN Trimmed(p, s) ELSE local[p][s]
      /\ \A q \in Procs \ {p} : local'[q] = local[q]
  BY <1>1, <1>4 DEF HoldsTyped
<1>8. /\ caps'[p][s] = IF Believed(p, m, s) THEN Bounded(p, s, Evidence(cache'[p], s))
                       ELSE caps[p][s]
      /\ \A q \in Procs \ {p} : caps'[q] = caps[q]
  BY <1>1, <1>5 DEF HoldsTyped
<1>9. /\ firstRead'[p][s] = IF Believed(p, m, s)
                            THEN FirstRead(firstRead[p][s], Evidence(cache'[p], s))
                            ELSE firstRead[p][s]
      /\ \A q \in Procs \ {p} : firstRead'[q] = firstRead[q]
  BY <1>1, <1>6 DEF HoldsTyped
<1> QED
  BY <1>3, <1>7, <1>8, <1>9 DEF Consult, file

\* One slot of one process keeps its type and its bounds.
LEMMA ConsultedStaysKnown ==
    ASSUME FileSound, PoolSound, NEW p \in Readers, NEW m \in ModelSlots, Consult(p, m),
           NEW q \in Procs, NEW s \in Slots
    PROVE  /\ local'[q][s] \in Note /\ caps'[q][s] \in Cap /\ firstRead'[q][s] \in Memory
           /\ Known(caps'[q][s], firstRead'[q][s], Dial[q])
           /\ clockSteps = 0 => Paced(caps'[q][s], firstRead'[q][s], Dial[q])
<1> DEFINE e == Evidence(cache'[p], s)
<1>1. HoldsTyped /\ HoldsKnown /\ HoldsPaced /\ clock \in Nat /\ p \in Procs
  BY Bounds DEF PoolSound, FileSound, FileTyped
<1>2. /\ local[q][s] \in Note /\ caps[q][s] \in Cap /\ firstRead[q][s] \in Memory
      /\ Known(caps[q][s], firstRead[q][s], Dial[q])
      /\ clockSteps = 0 => Paced(caps[q][s], firstRead[q][s], Dial[q])
  BY <1>1 DEF HoldsTyped, HoldsKnown, HoldsPaced
<1>3. /\ e \in Note
      /\ local'[p][s] = IF s \in {m, Account} THEN Trimmed(p, s) ELSE local[p][s]
      /\ caps'[p][s] = IF Believed(p, m, s) THEN Bounded(p, s, e) ELSE caps[p][s]
      /\ firstRead'[p][s] = IF Believed(p, m, s) THEN FirstRead(firstRead[p][s], e)
                            ELSE firstRead[p][s]
      /\ q # p => /\ local'[q] = local[q] /\ caps'[q] = caps[q] /\ firstRead'[q] = firstRead[q]
  BY <1>1, ConsultedSlot
<1> HIDE DEF e
<1>4. CASE q # p
  BY <1>2, <1>3, <1>4
<1>5. CASE q = p
  <2>1. local'[q][s] \in Note
    <3>1. local[p][s].until \in Nat /\ local[p][s].at \in Nat /\ Ceiling(p) \in Nat
      BY <1>1, <1>2, <1>5, PoolBounds DEF Note, Ceiling
    <3>2. Earlier(local[p][s].until, Ceiling(p)) \in Nat
      BY <3>1, Comparisons
    <3>3. Trimmed(p, s) \in Note
      BY <1>2, <1>5, <3>2 DEF Trimmed, Note
    <3> QED
      BY <1>2, <1>3, <1>5, <3>3
  <2>2. CASE ~Believed(p, m, s)
    BY <1>2, <1>3, <1>5, <2>1, <2>2
  <2>3. CASE Believed(p, m, s)
    <3>1. caps'[q][s] = Bounded(p, s, e) /\ firstRead'[q][s] = FirstRead(firstRead[p][s], e)
      BY <1>3, <1>5, <2>3
    <3> DEFINE known == FirstRead(firstRead[p][s], e)
    <3> HIDE DEF known
    <3>2. known = FirstRead(firstRead[p][s], e)
      BY DEF known
    <3>3. /\ known \in Memory /\ Bounded(p, s, e) \in Cap
          /\ Known(Bounded(p, s, e), known, Dial[p])
          /\ Paced(caps[p][s], firstRead[p][s], Dial[p]) => Paced(Bounded(p, s, e), known, Dial[p])
      BY <1>1, <1>2, <1>3, <1>5, <3>2, BoundedFacts
    <3> QED
      BY <1>2, <1>5, <2>1, <3>1, <3>2, <3>3
  <2> QED
    BY <2>2, <2>3
<1> QED
  BY <1>4, <1>5

\* The functions of two arguments that the carousels hold.
LEMMA HoldsShape ==
    ASSUME NEW f, NEW g, NEW S, f \in [Procs -> [Slots -> S]], NEW p \in Procs, NEW T,
           g = [f EXCEPT ![p] = [s \in Slots |-> g[p][s]]],
           \A q \in Procs, s \in Slots : g[q][s] \in T, S \subseteq T
    PROVE  g \in [Procs -> [Slots -> T]]
<1>1. \A q \in Procs : g[q] \in [Slots -> T]
  <2> TAKE q \in Procs
  <2>1. CASE q = p
    <3>1. g[p] = [s \in Slots |-> g[p][s]]
      OBVIOUS
    <3> QED
      BY <2>1, <3>1
  <2>2. CASE q # p
    BY <2>2
  <2> QED
    BY <2>1, <2>2
<1> QED
  BY <1>1

LEMMA ConsultKeeps ==
    ASSUME FileSound, PoolSound, NEW p \in Readers, NEW m \in ModelSlots, Consult(p, m)
    PROVE  PoolSound'
<1>1. HoldsTyped /\ p \in Procs
  BY Bounds DEF PoolSound
<1>2. \A q \in Procs, s \in Slots :
         /\ local'[q][s] \in Note /\ caps'[q][s] \in Cap /\ firstRead'[q][s] \in Memory
         /\ Known(caps'[q][s], firstRead'[q][s], Dial[q])
         /\ clockSteps = 0 => Paced(caps'[q][s], firstRead'[q][s], Dial[q])
  BY ConsultedStaysKnown
<1>3. local' \in [Procs -> [Slots -> Note]]
  <2>1. local' = [local EXCEPT ![p] = [s \in Slots |->
                     IF s \in {m, Account} THEN Trimmed(p, s) ELSE local[p][s]]]
    BY <1>1 DEF Consult, HoldsTyped
  <2>2. local' = [local EXCEPT ![p] = [s \in Slots |-> local'[p][s]]]
    BY <1>1, <2>1 DEF HoldsTyped
  <2> QED
    BY <1>1, <1>2, <2>2, HoldsShape DEF HoldsTyped
<1>4. caps' \in [Procs -> [Slots -> Cap]]
  <2>1. caps' = [caps EXCEPT ![p] = [s \in Slots |->
                    IF Believed(p, m, s) THEN Bounded(p, s, Evidence(cache'[p], s))
                    ELSE caps[p][s]]]
    BY <1>1 DEF Consult, HoldsTyped, Believed
  <2>2. caps' = [caps EXCEPT ![p] = [s \in Slots |-> caps'[p][s]]]
    BY <1>1, <2>1 DEF HoldsTyped
  <2> QED
    BY <1>1, <1>2, <2>2, HoldsShape DEF HoldsTyped
<1>5. firstRead' \in [Procs -> [Slots -> Memory]]
  <2>1. firstRead' = [firstRead EXCEPT ![p] = [s \in Slots |->
                         IF Believed(p, m, s)
                         THEN FirstRead(firstRead[p][s], Evidence(cache'[p], s))
                         ELSE firstRead[p][s]]]
    BY <1>1 DEF Consult, HoldsTyped, Believed
  <2>2. firstRead' = [firstRead EXCEPT ![p] = [s \in Slots |-> firstRead'[p][s]]]
    BY <1>1, <2>1 DEF HoldsTyped
  <2> QED
    BY <1>1, <1>2, <2>2, HoldsShape DEF HoldsTyped
<1>6. clearing' = clearing /\ clock' = clock /\ clockSteps' = clockSteps
  BY DEF Consult
<1>7. HoldsTyped'
  BY <1>1, <1>3, <1>4, <1>5, <1>6 DEF HoldsTyped
<1>8. HoldsKnown'
  BY <1>2 DEF HoldsKnown
<1>9. HoldsPaced'
  BY <1>2, <1>6 DEF HoldsPaced, Paced
<1> QED
  BY <1>7, <1>8, <1>9 DEF PoolSound
-----------------------------------------------------------------------------
(* The other steps of the carousels.                                        *)

\* What was read of a slot stays bounded while nothing is read and no time is lost.
LEMMA UnreadStays ==
    ASSUME PoolSound, UNCHANGED <<caps, firstRead>>,
           clockSteps' = 0 => clockSteps = 0 /\ clock <= clock',
           clock \in Nat, clock' \in Nat,
           local' \in [Procs -> [Slots -> Note]], clearing' \in [Procs -> SUBSET Slots]
    PROVE  PoolSound'
<1>1. HoldsTyped /\ HoldsKnown /\ HoldsPaced
  BY DEF PoolSound
<1>2. HoldsTyped'
  BY <1>1 DEF HoldsTyped
<1>3. HoldsKnown'
  BY <1>1 DEF HoldsKnown
<1>4. HoldsPaced'
  <2> SUFFICES ASSUME clockSteps' = 0, NEW p \in Procs, NEW s \in Slots
               PROVE  Paced(caps[p][s], firstRead[p][s], Dial[p])'
    BY DEF HoldsPaced
  <2>1. Paced(caps[p][s], firstRead[p][s], Dial[p])
    BY <1>1 DEF HoldsPaced
  <2>2. firstRead[p][s].since \in Nat
    <3>1. firstRead[p][s] \in Memory
      BY <1>1 DEF HoldsTyped
    <3> QED
      BY <3>1 DEF Memory
  <2> QED
    BY <2>1, <2>2 DEF Paced
<1> QED
  BY <1>2, <1>3, <1>4 DEF PoolSound

\* A process that forgets one slot or all of them starts anew there.
LEMMA ForgettingKeeps ==
    ASSUME PoolSound, clock \in Nat, UNCHANGED <<clock, clockSteps>>,
           local' \in [Procs -> [Slots -> Note]], clearing' \in [Procs -> SUBSET Slots],
           NEW p \in Procs,
           caps' = [caps EXCEPT ![p] = [s \in Slots |-> NoCap]],
           firstRead' = [firstRead EXCEPT ![p] = [s \in Slots |-> NeverRead]]
    PROVE  PoolSound'
<1>1. HoldsTyped /\ HoldsKnown /\ HoldsPaced
  BY DEF PoolSound
<1>2. HoldsTyped'
  BY <1>1, MemoryFacts DEF HoldsTyped
<1>3. \A q \in Procs, s \in Slots :
         \/ caps'[q][s] = caps[q][s] /\ firstRead'[q][s] = firstRead[q][s]
         \/ caps'[q][s] = NoCap /\ firstRead'[q][s] = NeverRead
  BY <1>1 DEF HoldsTyped
<1>4. \A q \in Procs : Known(NoCap, NeverRead, Dial[q]) /\ Paced(NoCap, NeverRead, Dial[q])
  BY PoolBounds, MemoryFacts DEF Known, Paced
<1>5. HoldsKnown'
  BY <1>1, <1>3, <1>4 DEF HoldsKnown
<1>6. HoldsPaced'
  <2> SUFFICES ASSUME clockSteps = 0, NEW q \in Procs, NEW s \in Slots
               PROVE  Paced(caps'[q][s], firstRead'[q][s], Dial[q])
    BY DEF HoldsPaced, Paced
  <2> QED
    BY <1>1, <1>3, <1>4 DEF HoldsPaced
<1> QED
  BY <1>2, <1>5, <1>6 DEF PoolSound

LEMMA AnsweringKeeps ==
    ASSUME FileSound, PoolSound, NEW p \in Procs, NEW m \in ModelSlots, NEW now \in Moments,
           MarkAnswered(p, m, now)
    PROVE  PoolSound'
<1>1. HoldsTyped /\ clock \in Nat
  BY DEF PoolSound, FileSound, FileTyped
<1>2. now \in Nat
  BY <1>1, MomentsAreNats
<1>3. [until |-> 0, at |-> now] \in Note
  BY <1>2 DEF Note
<1>4. local' = [local EXCEPT ![p][m] = [until |-> 0, at |-> now],
                             ![p][Account] = [until |-> 0, at |-> now]]
  BY DEF MarkAnswered
<1>5. local' \in [Procs -> [Slots -> Note]]
  BY <1>1, <1>3, <1>4, PoolBounds DEF HoldsTyped
<1>6. UNCHANGED <<caps, firstRead, clearing, clock, clockSteps>>
  BY DEF MarkAnswered
<1> QED
  BY <1>1, <1>5, <1>6, UnreadStays DEF HoldsTyped

LEMMA RefusingKeeps ==
    ASSUME FileSound, PoolSound, NEW p \in Procs, NEW m \in ModelSlots, NEW rest \in Rests,
           NEW account \in BOOLEAN, NEW now \in Moments, MarkRefused(p, m, rest, account, now)
    PROVE  PoolSound'
<1> DEFINE until == Earlier(Later(local[p][m].until, now + Earlier(rest, Dial[p])), now + Dial[p])
           hold == Earlier(Later(local[p][Account].until, until), now + Dial[p])
<1>1. HoldsTyped /\ clock \in Nat
  BY DEF PoolSound, FileSound, FileTyped
<1>2. local' = [local EXCEPT ![p][m] = [until |-> until, at |-> now],
                             ![p][Account] = IF account THEN [until |-> hold, at |-> now] ELSE @]
  BY DEF MarkRefused
<1> HIDE DEF hold
<1>3. hold = Earlier(Later(local[p][Account].until, until), now + Dial[p])
  BY DEF hold
<1> HIDE DEF until
<1>4. until = Earlier(Later(local[p][m].until, now + Earlier(rest, Dial[p])), now + Dial[p])
  BY DEF until
<1>5. until \in Nat /\ hold \in Nat /\ now \in Nat
  BY <1>1, <1>3, <1>4, RefusedHolds
<1>6. [until |-> until, at |-> now] \in Note /\ [until |-> hold, at |-> now] \in Note
  BY <1>5 DEF Note
<1>7. local' \in [Procs -> [Slots -> Note]]
  BY <1>1, <1>2, <1>6, PoolBounds DEF HoldsTyped
<1>8. UNCHANGED <<caps, firstRead, clearing, clock, clockSteps>>
  BY DEF MarkRefused
<1> QED
  BY <1>1, <1>7, <1>8, UnreadStays DEF HoldsTyped

LEMMA ForgetKeeps ==
    ASSUME FileSound, PoolSound, NEW p \in Procs, Forget(p)
    PROVE  PoolSound'
<1>1. HoldsTyped /\ clock \in Nat
  BY DEF PoolSound, FileSound, FileTyped
<1>2. /\ local' = [local EXCEPT ![p] = [s \in Slots |->
                      IF s \in clearing[p] THEN Unknown ELSE local[p][s]]]
      /\ clearing' = [clearing EXCEPT ![p] = {}]
      /\ UNCHANGED <<clock, clockSteps>>
  BY <1>1 DEF Forget, healthVars, HoldsTyped
<1>3. local' \in [Procs -> [Slots -> Note]] /\ clearing' \in [Procs -> SUBSET Slots]
  BY <1>1, <1>2, MemoryFacts DEF HoldsTyped
<1>4. CASE clearing[p] = Slots
  <2>1. /\ caps' = [caps EXCEPT ![p] = [s \in Slots |-> NoCap]]
        /\ firstRead' = [firstRead EXCEPT ![p] = [s \in Slots |-> NeverRead]]
    BY <1>4 DEF Forget
  <2> QED
    BY <1>1, <1>2, <1>3, <2>1, ForgettingKeeps
<1>5. CASE clearing[p] # Slots
  <2>1. UNCHANGED <<caps, firstRead>>
    BY <1>5 DEF Forget
  <2> QED
    BY <1>1, <1>2, <1>3, <2>1, UnreadStays
<1> QED
  BY <1>4, <1>5

LEMMA PoolStaysSound == FileSound /\ PoolSound /\ PoolNext => PoolSound'
<1> SUFFICES ASSUME FileSound, PoolSound, PoolNext  PROVE PoolSound'
  OBVIOUS
<1>1. HoldsTyped /\ clock \in Nat /\ clockSteps \in Nat
  BY DEF PoolSound, FileSound, FileTyped
<1>2. ASSUME NEW p \in Procs, NEW scope \in {Slots} \cup {{m} : m \in ModelSlots},
             PressClear(p, scope)
      PROVE  PoolSound'
  <2>1. scope \in SUBSET Slots
    BY PoolBounds
  <2>2. /\ clearing' = [clearing EXCEPT ![p] = scope]
        /\ UNCHANGED <<clock, clockSteps, local, caps, firstRead>>
    BY <1>2 DEF PressClear
  <2>3. clearing' \in [Procs -> SUBSET Slots]
    BY <1>1, <2>1, <2>2 DEF HoldsTyped
  <2> QED
    BY <1>1, <2>2, <2>3, UnreadStays DEF HoldsTyped
<1>3. ASSUME NEW p \in Procs, Restart(p)
      PROVE  PoolSound'
  <2>1. /\ local' = [local EXCEPT ![p] = [s \in Slots |-> Unknown]]
        /\ clearing' = [clearing EXCEPT ![p] = {}]
        /\ caps' = [caps EXCEPT ![p] = [s \in Slots |-> NoCap]]
        /\ firstRead' = [firstRead EXCEPT ![p] = [s \in Slots |-> NeverRead]]
        /\ UNCHANGED <<clock, clockSteps>>
    BY <1>3 DEF Restart
  <2>2. local' \in [Procs -> [Slots -> Note]] /\ clearing' \in [Procs -> SUBSET Slots]
    BY <1>1, <2>1, MemoryFacts DEF HoldsTyped
  <2> QED
    BY <1>1, <2>1, <2>2, ForgettingKeeps
<1>4. ASSUME Elsewhere
      PROVE  PoolSound'
  <2>1. UNCHANGED <<local, caps, clearing, firstRead>>
    BY <1>4 DEF Elsewhere, carousels
  <2>2. \/ clock' = clock /\ clockSteps' = clockSteps
        \/ clock' = clock + 1 /\ clockSteps' = clockSteps
        \/ clock' \in Start..MaxTime /\ clockSteps' = clockSteps + 1
    BY <1>4 DEF Elsewhere, Land, Lose, Tick, StepBack
  <2>3. clock' \in Nat /\ (clockSteps' = 0 => clockSteps = 0 /\ clock <= clock')
    BY <1>1, <2>2, Bounds
  <2> QED
    BY <1>1, <2>1, <2>3, UnreadStays DEF HoldsTyped
<1> QED
  BY <1>2, <1>3, <1>4, ConsultKeeps, AnsweringKeeps, RefusingKeeps, ForgetKeeps DEF PoolNext

LEMMA PoolStartsSound == PoolInit => FileSound /\ PoolSound
<1> SUFFICES ASSUME PoolInit  PROVE FileSound /\ PoolSound
  OBVIOUS
<1>1. FileSound
  BY FileStartsSound DEF PoolInit
<1>2. HoldsTyped
  BY MemoryFacts DEF PoolInit, HoldsTyped
<1>3. \A p \in Procs : Known(NoCap, NeverRead, Dial[p]) /\ Paced(NoCap, NeverRead, Dial[p])
  <2>1. clock \in Nat
    BY <1>1 DEF FileSound, FileTyped
  <2> QED
    BY <2>1, PoolBounds, MemoryFacts DEF Known, Paced
<1>4. \A p \in Procs, s \in Slots : caps[p][s] = NoCap /\ firstRead[p][s] = NeverRead
  BY DEF PoolInit
<1> QED
  BY <1>1, <1>2, <1>3, <1>4 DEF PoolSound, HoldsKnown, HoldsPaced

\* The inductive invariant of the carousels over the file.
THEOREM PoolInvariant == PoolSpec => [](FileSound /\ PoolSound)
<1>1. ASSUME FileSound, PoolSound, [PoolNext]_poolVars
      PROVE  FileSound' /\ PoolSound'
  <2>1. HoldsTyped
    BY <1>1 DEF PoolSound
  <2>2. CASE PoolNext
    BY <1>1, <2>1, <2>2, PoolNextIsFileStep, FileStaysSound, PoolStaysSound
  <2>3. CASE UNCHANGED poolVars
    <3>1. UNCHANGED <<healthVars, local, caps, clearing, firstRead>>
      BY <2>3 DEF poolVars, carousels
    <3>2. FileSound'
      BY <1>1, <3>1, StillSound
    <3>3. clock \in Nat /\ clock' = clock /\ clockSteps' = clockSteps
      BY <1>1, <3>1 DEF FileSound, FileTyped, healthVars
    <3> QED
      BY <1>1, <2>1, <3>1, <3>2, <3>3, UnreadStays DEF HoldsTyped
  <2> QED
    BY <1>1, <2>2, <2>3
<1> QED
  BY <1>1, PoolStartsSound, PTL DEF PoolSpec
-----------------------------------------------------------------------------
(* The verdict of one consultation.                                         *)

LEMMA VerdictShape ==
    ASSUME NEW p \in Readers, NEW m \in ModelSlots, Consult(p, m)
    PROVE  /\ last'.outcome = "verdict" /\ last'.proc = p /\ last'.quiet = quiet
           /\ DOMAIN last'.until = {m, Account}
           /\ \A s \in {m, Account} :
                /\ ~Believed(p, m, s) => last'.until[s] = local'[p][s].until
                /\ Believed(p, m, s) /\ caps'[p][s] = NoCap =>
                      last'.until[s] = Evidence(cache'[p], s).until
                /\ Believed(p, m, s) /\ caps'[p][s] # NoCap =>
                      last'.until[s] = Earlier(Evidence(cache'[p], s).until, caps'[p][s].cap)
<1> DEFINE newer == {s \in {m, Account} : Fresher(p, s, Evidence(cache'[p], s))}
           seen(s) == Evidence(cache'[p], s)
           until(s) == IF s \notin newer THEN local'[p][s].until
                       ELSE IF caps'[p][s] = NoCap THEN seen(s).until
                       ELSE Earlier(seen(s).until, caps'[p][s].cap)
           ends == [s \in {m, Account} |-> until(s)]
<1>1. last' = [outcome |-> "verdict", proc |-> p, model |-> m, quiet |-> quiet,
               until |-> ends]
  BY DEF Consult
<1>2. \A s \in {m, Account} : s \in newer <=> Believed(p, m, s)
  BY DEF Believed
<1> HIDE DEF newer, seen
<1>3. ASSUME NEW s \in {m, Account}
      PROVE  /\ ~Believed(p, m, s) => until(s) = local'[p][s].until
             /\ Believed(p, m, s) /\ caps'[p][s] = NoCap => until(s) = seen(s).until
             /\ Believed(p, m, s) /\ caps'[p][s] # NoCap =>
                   until(s) = Earlier(seen(s).until, caps'[p][s].cap)
  BY <1>2
<1> HIDE DEF until
<1>4. DOMAIN ends = {m, Account} /\ \A s \in {m, Account} : ends[s] = until(s)
  OBVIOUS
<1> HIDE DEF ends
<1>5. /\ last'.outcome = "verdict" /\ last'.proc = p /\ last'.quiet = quiet
      /\ last'.until = ends
  BY <1>1
<1> QED
  BY <1>3, <1>4, <1>5 DEF seen

\* The three ways to come to a deadline, and what is known of each.
LEMMA VerdictCases ==
    ASSUME FileSound, PoolSound, NEW p \in Readers, NEW m \in ModelSlots, Consult(p, m),
           NEW s \in {m, Account}, NEW e, e = Evidence(cache'[p], s),
           NEW c, c = caps'[p][s], NEW known, known = firstRead'[p][s],
           NEW until, until = last'.until[s]
    PROVE  /\ s \in Slots /\ p \in Procs /\ e \in Note /\ c \in Cap /\ known \in Memory
           /\ local[p][s] \in Note /\ local'[p][s].at = local[p][s].at
           /\ local'[p][s].until \in Nat /\ local'[p][s].until <= Ceiling(p)
           /\ clock' = clock /\ Ceiling(p) \in Nat
           /\ clockSteps = 0 => Paced(c, known, Dial[p])
           /\ \/ ~Believed(p, m, s) /\ until = local'[p][s].until
              \/ /\ Believed(p, m, s) /\ c = NoCap /\ until = e.until
                 /\ until <= Ceiling(p) /\ until <= known.on + Dial[p]
              \/ /\ Believed(p, m, s) /\ c # NoCap /\ until = Earlier(e.until, c.cap)
                 /\ c.cap <= Ceiling(p) /\ c.cap <= known.on + Dial[p]
<1>1. HoldsTyped /\ HoldsKnown /\ HoldsPaced /\ clock \in Nat /\ p \in Procs /\ s \in Slots
  BY Bounds, PoolBounds DEF PoolSound, FileSound, FileTyped
<1>2. /\ local[p][s] \in Note /\ caps[p][s] \in Cap /\ firstRead[p][s] \in Memory
      /\ Known(caps[p][s], firstRead[p][s], Dial[p])
  BY <1>1 DEF HoldsTyped, HoldsKnown
<1>3. /\ e \in Note /\ local'[p][s] = Trimmed(p, s) /\ clock' = clock
      /\ c = IF Believed(p, m, s) THEN Bounded(p, s, e) ELSE caps[p][s]
      /\ known = IF Believed(p, m, s) THEN FirstRead(firstRead[p][s], e) ELSE firstRead[p][s]
  BY <1>1, ConsultedSlot
<1>4. /\ c \in Cap /\ known \in Memory
      /\ Known(c, known, Dial[p]) /\ (clockSteps = 0 => Paced(c, known, Dial[p]))
  BY <1>1, ConsultedStaysKnown
<1>5. /\ local'[p][s].at = local[p][s].at /\ Ceiling(p) \in Nat
      /\ local'[p][s].until \in Nat /\ local'[p][s].until <= Ceiling(p)
  <2>1. local[p][s].until \in Nat /\ Ceiling(p) \in Nat
    BY <1>1, <1>2, PoolBounds DEF Note, Ceiling
  <2>2. /\ Earlier(local[p][s].until, Ceiling(p)) \in Nat
        /\ Earlier(local[p][s].until, Ceiling(p)) <= Ceiling(p)
    BY <2>1, Comparisons
  <2>3. /\ Trimmed(p, s).until = Earlier(local[p][s].until, Ceiling(p))
        /\ Trimmed(p, s).at = local[p][s].at
    BY <1>2 DEF Trimmed, Note
  <2> QED
    BY <1>3, <2>1, <2>2, <2>3
<1>6. /\ ~Believed(p, m, s) => until = local'[p][s].until
      /\ Believed(p, m, s) /\ c = NoCap => until = e.until
      /\ Believed(p, m, s) /\ c # NoCap => until = Earlier(e.until, c.cap)
  BY VerdictShape
<1>7. CASE ~Believed(p, m, s)
  BY <1>1, <1>2, <1>3, <1>4, <1>5, <1>6, <1>7
<1>8. CASE Believed(p, m, s)
  <2>1. c = Bounded(p, s, e) /\ known = FirstRead(firstRead[p][s], e)
    BY <1>3, <1>8
  <2>2. /\ known.event = e
        /\ c = NoCap => e.until <= Ceiling(p)
        /\ c # NoCap => c.cap <= Ceiling(p)
    BY <1>1, <1>2, <1>3, <2>1, BoundedFacts
  <2>3. CASE c = NoCap
    <3>1. until = e.until
      BY <1>6, <1>8, <2>3
    <3>2. e.until <= known.on + Dial[p]
      BY <1>4, <2>2, <2>3 DEF Known
    <3> QED
      BY <1>1, <1>2, <1>3, <1>4, <1>5, <1>8, <2>2, <2>3, <3>1, <3>2
  <2>4. CASE c # NoCap
    <3>1. until = Earlier(e.until, c.cap)
      BY <1>6, <1>8, <2>4
    <3>2. c.cap <= known.on + Dial[p]
      BY <1>4, <2>4 DEF Known
    <3> QED
      BY <1>1, <1>2, <1>3, <1>4, <1>5, <1>8, <2>2, <2>4, <3>1, <3>2
  <2> QED
    BY <2>3, <2>4
<1> QED
  BY <1>7, <1>8

LEMMA VerdictIsBounded ==
    ASSUME FileSound, PoolSound, NEW p \in Readers, NEW m \in ModelSlots, Consult(p, m)
    PROVE  HoldsBounded'
<1>1. last'.proc = p /\ DOMAIN last'.until = {m, Account}
  BY VerdictShape
<1>2. ASSUME NEW s \in {m, Account}
      PROVE  /\ last'.until[s] <= Ceiling(p)
             /\ last'.until[s] <= Later(local'[p][s].until, firstRead'[p][s].on + Dial[p])
             /\ clock' = clock
  <2> DEFINE e == Evidence(cache'[p], s)
             c == caps'[p][s]
             known == firstRead'[p][s]
             until == last'.until[s]
  <2>1. /\ e \in Note /\ c \in Cap /\ known \in Memory /\ p \in Procs
        /\ local'[p][s].until \in Nat /\ local'[p][s].until <= Ceiling(p)
        /\ clock' = clock /\ Ceiling(p) \in Nat
        /\ \/ until = local'[p][s].until
           \/ /\ until = e.until /\ until <= Ceiling(p) /\ until <= known.on + Dial[p]
           \/ /\ c # NoCap /\ until = Earlier(e.until, c.cap)
              /\ c.cap <= Ceiling(p) /\ c.cap <= known.on + Dial[p]
    BY VerdictCases
  <2>2. e.until \in Nat /\ c.cap \in Nat /\ known.on + Dial[p] \in Nat
    BY <2>1, MemoryFacts, PoolBounds DEF Note, Memory
  <2> HIDE DEF e, c, known, until
  <2>3. Earlier(e.until, c.cap) \in Nat /\ Earlier(e.until, c.cap) <= c.cap
    BY <2>2, Comparisons
  <2>4. /\ until \in Nat /\ until <= Ceiling(p)
        /\ until = local'[p][s].until \/ until <= known.on + Dial[p]
    BY <2>1, <2>2, <2>3
  <2>5. /\ local'[p][s].until <= Later(local'[p][s].until, known.on + Dial[p])
        /\ known.on + Dial[p] <= Later(local'[p][s].until, known.on + Dial[p])
        /\ Later(local'[p][s].until, known.on + Dial[p]) \in Nat
    BY <2>1, <2>2, Comparisons
  <2> QED
    BY <2>1, <2>2, <2>4, <2>5 DEF until, known
<1>3. Ceiling(p)' = Ceiling(p)
  BY <1>2 DEF Ceiling
<1> QED
  BY <1>1, <1>2, <1>3 DEF HoldsBounded

\* Who believes what is on file and sees it fresh reads the file's row.
LEMMA BelievesTheFile ==
    ASSUME FileSound, PoolSound, NEW p \in Readers, NEW m \in ModelSlots, Consult(p, m),
           NEW s \in {m, Account}, quiet >= Floor, clockSteps = 0,
           rows[s].at > local'[p][s].at
    PROVE  Believed(p, m, s) /\ Evidence(cache'[p], s) = rows[s]
<1>1. HoldsTyped /\ p \in Procs /\ s \in Slots
  BY Bounds, PoolBounds DEF PoolSound
<1>2. local[p][s] \in Note /\ local'[p][s].at = local[p][s].at
  BY VerdictCases
<1>3. cache'[p] = rows
  <2>1. Reload(p) /\ rows' = rows
    BY DEF Consult, file
  <2> QED
    BY <1>1, <2>1, LooksFresh
<1>4. rows[s] # NoRow
  <2>1. local[p][s].at \in Nat
    BY <1>2 DEF Note
  <2> QED
    BY <1>2, <2>1, RowFacts
<1>5. Evidence(cache'[p], s) = rows[s]
  BY <1>3, <1>4 DEF Evidence
<1> QED
  BY <1>2, <1>5 DEF Believed, Fresher

LEMMA VerdictHonours ==
    ASSUME FileSound, PoolSound, NEW p \in Readers, NEW m \in ModelSlots, Consult(p, m),
           quiet >= Floor, clockSteps = 0, NEW s \in {m, Account},
           rows[s].at > local'[p][s].at
    PROVE  /\ last'.until[s] >= Earlier(rows[s].until, firstRead'[p][s].since + Dial[p])
           /\ rows[s].until = 0 => last'.until[s] = 0
<1> DEFINE e == Evidence(cache'[p], s)
           c == caps'[p][s]
           known == firstRead'[p][s]
           until == last'.until[s]
<1>1. Believed(p, m, s) /\ e = rows[s]
  BY BelievesTheFile
<1>2. /\ e \in Note /\ c \in Cap /\ known \in Memory /\ p \in Procs
      /\ Paced(c, known, Dial[p])
      /\ \/ c = NoCap /\ until = e.until
         \/ c # NoCap /\ until = Earlier(e.until, c.cap)
  BY <1>1, VerdictCases
<1>3. e.until \in Nat /\ c.cap \in Nat /\ known.since + Dial[p] \in Nat
  BY <1>2, MemoryFacts, PoolBounds DEF Note, Memory
<1> HIDE DEF e, c, known, until
<1>4. c # NoCap => c.cap >= known.since + Dial[p]
  BY <1>2 DEF Paced
<1>5. /\ Earlier(e.until, known.since + Dial[p]) <= e.until
      /\ Earlier(e.until, known.since + Dial[p]) <= known.since + Dial[p]
      /\ Earlier(e.until, known.since + Dial[p]) \in Nat
      /\ Earlier(e.until, c.cap) \in {e.until, c.cap} /\ Earlier(e.until, c.cap) <= e.until
  BY <1>3, Comparisons
<1>6. until >= Earlier(e.until, known.since + Dial[p])
  BY <1>2, <1>3, <1>4, <1>5
<1>7. e.until = 0 => until = 0
  BY <1>2, <1>3, <1>5
<1>8. until >= Earlier(rows[s].until, known.since + Dial[p])
  BY <1>1, <1>6
<1>9. rows[s].until = 0 => until = 0
  BY <1>1, <1>7
<1> QED
  BY <1>8, <1>9 DEF until, known

LEMMA OnlyConsultingSpeaks ==
    ASSUME PoolNext
    PROVE  last' = NoCall \/ \E p \in Readers, m \in ModelSlots : Consult(p, m)
<1>1. ASSUME NEW p \in Procs, NEW m \in ModelSlots, NEW now \in Moments, MarkAnswered(p, m, now)
      PROVE  last' = NoCall
  BY <1>1 DEF MarkAnswered
<1>2. ASSUME NEW p \in Procs, NEW m \in ModelSlots, NEW rest \in Rests,
             NEW account \in BOOLEAN, NEW now \in Moments, MarkRefused(p, m, rest, account, now)
      PROVE  last' = NoCall
  BY <1>2 DEF MarkRefused
<1>3. ASSUME NEW p \in Procs, NEW scope \in {Slots} \cup {{m} : m \in ModelSlots},
             PressClear(p, scope)
      PROVE  last' = NoCall
  BY <1>3 DEF PressClear
<1>4. ASSUME NEW p \in Procs, Forget(p) \/ Restart(p)
      PROVE  last' = NoCall
  BY <1>4 DEF Forget, Restart
<1>5. Elsewhere => last' = NoCall
  BY DEF Elsewhere
<1> QED
  BY <1>1, <1>2, <1>3, <1>4, <1>5 DEF PoolNext

(* However many profiles write and read, in any order, with clears,        *)
(* restarts and clocks set back: no verdict is longer than this process's  *)
(* own dial from now, nor than its dial from the first reading of the      *)
(* event, however often it is read (core/carousel.py:1552-1626).           *)
THEOREM NoHoldOutlastsTheDial == PoolSpec => []HoldsBounded
<1>1. PoolInit => HoldsBounded
  BY DEF PoolInit, NoCall, HoldsBounded, Verdict
<1>2. ASSUME FileSound, PoolSound, HoldsBounded, [PoolNext]_poolVars
      PROVE  HoldsBounded'
  <2>1. CASE last' = NoCall
    BY <2>1 DEF NoCall, HoldsBounded, Verdict
  <2>2. CASE UNCHANGED poolVars
    <3>1. UNCHANGED <<last, local, firstRead, clock>>
      BY <2>2 DEF poolVars, carousels, healthVars
    <3> QED
      BY <1>2, <3>1 DEF HoldsBounded, Verdict, Ceiling
  <2>3. ASSUME NEW p \in Readers, NEW m \in ModelSlots, Consult(p, m)
        PROVE  HoldsBounded'
    BY <1>2, <2>3, VerdictIsBounded
  <2> QED
    BY <1>2, <2>1, <2>2, <2>3, OnlyConsultingSpeaks
<1> QED
  BY <1>1, <1>2, PoolInvariant, PTL DEF PoolSpec

(* In every run, a rest on file keeps the key out of every process that    *)
(* knows nothing newer, a restarted one included, from its first look      *)
(* after the floor until the rest is over or has outlasted that process's  *)
(* dial (core/shared_health.py:9-16, core/carousel.py:1508-1550).          *)
THEOREM RestsAreHonoured == PoolSpec => []HonouredOnceRead
<1>1. PoolInit => HonouredOnceRead
  BY DEF PoolInit, NoCall, HonouredOnceRead, Verdict
<1>2. ASSUME FileSound, PoolSound, HonouredOnceRead, [PoolNext]_poolVars
      PROVE  HonouredOnceRead'
  <2>1. CASE last' = NoCall
    BY <2>1 DEF NoCall, HonouredOnceRead, Verdict
  <2>2. CASE UNCHANGED poolVars
    <3>1. UNCHANGED <<last, local, firstRead, rows, clockSteps>>
      BY <2>2 DEF poolVars, carousels, healthVars, file
    <3> QED
      BY <1>2, <3>1 DEF HonouredOnceRead, Verdict, Sure, Newer
  <2>3. ASSUME NEW p \in Readers, NEW m \in ModelSlots, Consult(p, m)
        PROVE  HonouredOnceRead'
    <3>1. /\ last'.proc = p /\ DOMAIN last'.until = {m, Account} /\ last'.quiet = quiet
          /\ rows' = rows /\ clockSteps' = clockSteps
      BY <2>3, VerdictShape DEF Consult, file
    <3>2. \A s \in {m, Account} :
             quiet >= Floor /\ clockSteps = 0 /\ rows[s].at > local'[p][s].at =>
                last'.until[s] >= Earlier(rows[s].until, firstRead'[p][s].since + Dial[p])
      BY <1>2, <2>3, VerdictHonours
    <3> QED
      BY <3>1, <3>2 DEF HonouredOnceRead, Verdict, Sure, Newer
  <2> QED
    BY <1>2, <2>1, <2>2, <2>3, OnlyConsultingSpeaks
<1> QED
  BY <1>1, <1>2, PoolInvariant, PTL DEF PoolSpec

(* In every run, a success or a clear that is on file frees the key in     *)
(* every process that has learned nothing newer, whatever it still holds   *)
(* locally and whatever cap it remembers (core/shared_health.py:18-20,     *)
(* core/carousel.py:1508-1526).                                            *)
THEOREM ASuccessFreesEveryone == PoolSpec => []SuccessFreesEveryone
<1>1. PoolInit => SuccessFreesEveryone
  BY DEF PoolInit, NoCall, SuccessFreesEveryone, Verdict
<1>2. ASSUME FileSound, PoolSound, SuccessFreesEveryone, [PoolNext]_poolVars
      PROVE  SuccessFreesEveryone'
  <2>1. CASE last' = NoCall
    BY <2>1 DEF NoCall, SuccessFreesEveryone, Verdict
  <2>2. CASE UNCHANGED poolVars
    <3>1. UNCHANGED <<last, local, firstRead, rows, clockSteps>>
      BY <2>2 DEF poolVars, carousels, healthVars, file
    <3> QED
      BY <1>2, <3>1 DEF SuccessFreesEveryone, Verdict, Sure, Newer
  <2>3. ASSUME NEW p \in Readers, NEW m \in ModelSlots, Consult(p, m)
        PROVE  SuccessFreesEveryone'
    <3>1. /\ last'.proc = p /\ DOMAIN last'.until = {m, Account} /\ last'.quiet = quiet
          /\ rows' = rows /\ clockSteps' = clockSteps
      BY <2>3, VerdictShape DEF Consult, file
    <3>2. \A s \in {m, Account} :
             quiet >= Floor /\ clockSteps = 0 /\ rows[s].at > local'[p][s].at =>
                (rows[s].until = 0 => last'.until[s] = 0)
      BY <1>2, <2>3, VerdictHonours
    <3> QED
      BY <3>1, <3>2 DEF SuccessFreesEveryone, Verdict, Sure, Newer
  <2> QED
    BY <1>2, <2>1, <2>2, <2>3, OnlyConsultingSpeaks
<1> QED
  BY <1>1, <1>2, PoolInvariant, PTL DEF PoolSpec

(* The file's own promises hold under the carousels too: whoever writes,   *)
(* no older rest returns after a release (core/shared_health.py:736-768).  *)
THEOREM NoOldRestReturnsToThePool == PoolSpec => []ReleaseStands
<1>1. FileSound => ReleaseStands
  BY DEF FileSound, ReleasesKept, ReleaseStands, FileTyped, Document
<1> QED
  BY <1>1, PoolInvariant, PTL
=============================================================================

---------------------------- MODULE SharedHealth ----------------------------
(***************************************************************************)
(* The pool-health file that several Hermes profiles share                 *)
(* (core/shared_health.py, class SharedHealth): events on their way to the *)
(* file, the reconciliation when one lands, pruning, the release of every  *)
(* hold, and each process's cached view of the file.                       *)
(*                                                                         *)
(* A slot is one credential's row in one scope: a model's, or the          *)
(* account's.  A write that lands is one step - SharedLock.tla is that     *)
(* step in detail - and may be lost instead: the lock was not free, or the *)
(* disk refused.  Every landed write changes the file's mtime.  Nothing    *)
(* else writes the file, and a damaged file is not modelled.               *)
(***************************************************************************)
EXTENDS Integers, FiniteSets, Sequences

CONSTANTS
    Procs,           \* the profiles' processes
    Readers,         \* those whose reading is explored
    Slots,           \* rows a document can hold
    ModelSlots,      \* the rows "wake this model" releases
    PruneAfter,      \* PRUNE_AFTER_S
    Slack,           \* _PRUNE_HORIZON_SLACK_S
    MaxRows,         \* MAX_ENTRIES
    Floor,           \* READ_STAT_FLOOR_S
    Rests,           \* lengths of the rests reported
    Start,           \* the clock at the start
    MaxEvents,       \* bound on outcomes, releases and clock steps
    Horizon,         \* bound: nothing is written after this moment
    MaxTime,         \* bound: the clock stops here
    MaxClockSteps    \* bound on backward steps of the wall clock

ASSUME SharedHealthAssumption ==
    /\ Readers \subseteq Procs /\ ModelSlots \subseteq Slots /\ IsFiniteSet(Slots)
    /\ Rests \subseteq Nat \ {0}
    /\ {PruneAfter, Slack, MaxRows, Floor, Start, MaxEvents, Horizon, MaxTime,
        MaxClockSteps} \subseteq Nat

VARIABLES
    clock,           \* time.time(), the same for all processes
    clockSteps,
    outbox,          \* outbox[p]: events marked, not yet written
    rows,            \* the document: a row, or NoRow, in every slot
    mtime,           \* the file's mtime as an ordinal, 0 while there is none
    cache,           \* _cache, as a document
    cacheMtime,      \* _cache_mtime, 0 for None
    checkedAt,       \* _cache_checked_at
    events           \* outcomes, releases and clock steps so far, for the bound

\* History, for the properties only.
VARIABLES
    released,        \* released[s]: the moment of the last release that landed,
                     \* -1 once its row is gone
    quiet,           \* time since the last write, saturating at Floor
    lastRead         \* what the last step read, if it read

file    == <<rows, mtime>>
caches  == <<cache, cacheMtime, checkedAt>>
history == <<released, quiet>>
healthVars == <<clock, clockSteps, outbox, file, caches, events, history, lastRead>>

NoRow     == [until |-> 0, at |-> -1]
NoRead    == [outcome |-> "none"]
Empty     == [s \in Slots |-> NoRow]
Live(doc) == {s \in Slots : doc[s] # NoRow}

\* An outcome as mark() reports it; a release is the rest of no length.
Event(s, until, at) == [slot |-> s, until |-> until, at |-> at]
-----------------------------------------------------------------------------
(* Writing: _write_locked.                                                  *)

\* record() is called; the write itself comes later.
Emit(p, reported) ==
    /\ outbox[p] = <<>>
    /\ outbox' = [outbox EXCEPT ![p] = reported]

\* Mutant of Accepted: the newest write wins.
AcceptedAlways(e) == TRUE

\* Newest event wins, except that a release is always let through.
Accepted(e) == e.until <= 0 \/ e.at >= rows[e.slot].at

\* Mutant of PruneHorizon: every event's own stamp is trusted.
PruneHorizonTrusting(at) == at

\* An event from the future does not set the horizon.
PruneHorizon(at) == IF at <= clock + Slack THEN at ELSE clock

Aged(doc, horizon) ==
    [s \in Slots |-> IF doc[s] # NoRow /\ horizon - doc[s].at > PruneAfter
                     THEN NoRow ELSE doc[s]]

\* The oldest rows go when there are too many.
Capped(doc) ==
    {[s \in Slots |-> IF s \in kept THEN doc[s] ELSE NoRow] :
        kept \in {S \in SUBSET Live(doc) :
                    /\ Cardinality(S) <= MaxRows
                    /\ S # Live(doc) => Cardinality(S) = MaxRows
                    /\ \A s \in S, t \in Live(doc) \ S : doc[s].at >= doc[t].at}}

Land(p) ==
    /\ outbox[p] # <<>> /\ clock <= Horizon
    /\ LET e       == Head(outbox[p])
           updated == IF Accepted(e)
                      THEN [rows EXCEPT ![e.slot] = [until |-> e.until, at |-> e.at]]
                      ELSE rows
       IN  /\ rows' \in Capped(Aged(updated, PruneHorizon(e.at)))
           /\ released' = [s \in Slots |-> IF rows'[s] = NoRow THEN -1
                                            ELSE IF s = e.slot /\ e.until = 0 THEN e.at
                                            ELSE released[s]]
    /\ outbox' = [outbox EXCEPT ![p] = Tail(@)]
    /\ mtime' = mtime + 1
    /\ quiet' = 0 /\ lastRead' = NoRead
    /\ UNCHANGED <<clock, clockSteps, caches, events>>

Lose(p) ==
    /\ outbox[p] # <<>>
    /\ outbox' = [outbox EXCEPT ![p] = Tail(@)]
    /\ lastRead' = NoRead
    /\ UNCHANGED <<clock, clockSteps, file, caches, events, history>>

\* release_all, by the button: every row of its scope, and this process looks
\* at the file anew.
ReleaseAll(p, scope) ==
    LET at(s) == IF rows[s].at > clock THEN rows[s].at ELSE clock
        freed == scope \cap Live(rows)
    IN  /\ mtime # 0
        /\ rows' = [s \in Slots |-> IF s \in freed THEN [until |-> 0, at |-> at(s)] ELSE rows[s]]
        /\ mtime' = mtime + 1
        /\ cache' = [cache EXCEPT ![p] = Empty]
        /\ cacheMtime' = [cacheMtime EXCEPT ![p] = 0]
        /\ checkedAt' = [checkedAt EXCEPT ![p] = 0]
        /\ released' = [s \in Slots |-> IF s \in freed THEN at(s) ELSE released[s]]
        /\ quiet' = 0
-----------------------------------------------------------------------------
(* Reading: _reload_if_needed, then _entry.                                 *)

\* Mutant of Due: off by one at the floor.
DueLate(p) == clock - checkedAt[p] > Floor

Due(p) == clock - checkedAt[p] >= Floor

\* Mutant of Reload: a document once cached is never parsed again.
ReloadOnce(p) ==
    \/ /\ ~Due(p)
       /\ UNCHANGED caches
    \/ /\ Due(p)
       /\ checkedAt' = [checkedAt EXCEPT ![p] = clock]
       /\ IF mtime # 0 /\ cacheMtime[p] = 0
          THEN /\ cache' = [cache EXCEPT ![p] = rows]
               /\ cacheMtime' = [cacheMtime EXCEPT ![p] = mtime]
          ELSE UNCHANGED <<cache, cacheMtime>>

Reload(p) ==
    \/ /\ ~Due(p)
       /\ UNCHANGED caches
    \/ /\ Due(p)
       /\ checkedAt' = [checkedAt EXCEPT ![p] = clock]
       /\ \/ /\ mtime = 0
             /\ cache' = [cache EXCEPT ![p] = Empty]
             /\ cacheMtime' = [cacheMtime EXCEPT ![p] = 0]
          \/ /\ mtime # 0 /\ cacheMtime[p] = mtime
             /\ UNCHANGED <<cache, cacheMtime>>
          \/ /\ mtime # 0 /\ cacheMtime[p] # mtime
             /\ cache' = [cache EXCEPT ![p] = rows]
             /\ cacheMtime' = [cacheMtime EXCEPT ![p] = mtime]

\* What the file says of a slot; "no evidence" is two zeros.
Evidence(doc, s) == IF doc[s] = NoRow THEN [until |-> 0, at |-> 0] ELSE doc[s]

Read(p) ==
    /\ Reload(p)
    /\ lastRead' = [outcome |-> "read", quiet |-> quiet, current |-> cache'[p] = rows]
    /\ UNCHANGED <<clock, clockSteps, outbox, file, events, history>>
-----------------------------------------------------------------------------
Tick ==
    /\ clock < MaxTime
    /\ clock' = clock + 1
    /\ quiet' = IF quiet < Floor THEN quiet + 1 ELSE quiet
    /\ lastRead' = NoRead
    /\ UNCHANGED <<clockSteps, outbox, file, caches, events, released>>

\* One more outcome, release or clock step.
Another == events < MaxEvents /\ clock <= Horizon /\ events' = events + 1

StepBack(to) ==
    /\ Another
    /\ clockSteps < MaxClockSteps /\ to < clock
    /\ clock' = to
    /\ clockSteps' = clockSteps + 1
    /\ lastRead' = NoRead
    /\ UNCHANGED <<outbox, file, caches, history>>

Report(p, s, rest) ==
    /\ Another
    /\ Emit(p, <<Event(s, IF rest = 0 THEN 0 ELSE clock + rest, clock)>>)
    /\ lastRead' = NoRead
    /\ UNCHANGED <<clock, clockSteps, file, caches, history>>

PressRelease(p, scope) ==
    /\ Another
    /\ ReleaseAll(p, scope)
    /\ lastRead' = NoRead
    /\ UNCHANGED <<clock, clockSteps, outbox>>

Init ==
    /\ clock = Start /\ clockSteps = 0
    /\ outbox = [p \in Procs |-> <<>>]
    /\ rows = Empty /\ mtime = 0
    /\ cache = [p \in Procs |-> Empty]
    /\ cacheMtime = [p \in Procs |-> 0]
    /\ checkedAt = [p \in Procs |-> 0]
    /\ events = 0
    /\ released = [s \in Slots |-> -1]
    /\ quiet = 0 /\ lastRead = NoRead

Next ==
    \/ \E p \in Procs, s \in Slots, rest \in Rests \cup {0} : Report(p, s, rest)
    \/ \E p \in Procs, scope \in {Slots, ModelSlots} : PressRelease(p, scope)
    \/ \E p \in Procs : Land(p) \/ Lose(p)
    \/ \E p \in Readers : Read(p)
    \/ Tick
    \/ \E to \in Start..MaxTime : StepBack(to)

Spec == Init /\ [][Next]_healthVars

\* Time passes, and every turn reads the file.
FairSpec ==
    /\ Spec
    /\ WF_healthVars(Tick)
    /\ \A p \in Readers : WF_healthVars(Read(p))
-----------------------------------------------------------------------------
(* Properties                                                               *)

(* Once a release has landed, in whatever order the writes around it land, *)
(* a rest stands in its row only if it was earned no earlier than the      *)
(* release: while the row is kept, a late write never brings an older rest *)
(* back (core/shared_health.py:18-20, 736-768), the button's release       *)
(* included.  A release is forgotten with its row (_prune, 373-413).       *)
ReleaseStands ==
    \A s \in Slots : rows[s].until > 0 => rows[s].at >= released[s]

(* One event, however wrong its clock, costs no other row: a row goes only *)
(* when it is old by this machine's clock, or when the file is full and    *)
(* everything that stays is at least as new (core/shared_health.py:        *)
(* 182-197, 373-413, 770-776).                                             *)
LiveRowsSurvive ==
    [][\A s \in Slots : rows[s] # NoRow /\ rows'[s] = NoRow =>
         \/ clock + Slack - rows[s].at > PruneAfter
         \/ /\ Cardinality(Live(rows')) = MaxRows
            /\ \A t \in Live(rows') : rows'[t].at >= rows[s].at]_healthVars

(* A change on disk older than the floor is seen by the next read of every *)
(* process, while the clock does not step back (core/shared_health.py:     *)
(* 41-48, 540-571).                                                        *)
FreshOnNextRead ==
    lastRead.outcome = "read" /\ lastRead.quiet >= Floor /\ clockSteps = 0 =>
        lastRead.current

(* In the end every process that keeps reading believes what the file      *)
(* says: caches, floors and clock steps only delay it.                     *)
EveryoneLearns == <>[](\A p \in Readers : cache[p] = rows)

=============================================================================

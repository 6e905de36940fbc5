--------------------------- MODULE SharedCarousel ---------------------------
(***************************************************************************)
(* Several profiles' carousels over one pool-health file: how what a       *)
(* process remembers of one key and what the file says of it become one    *)
(* deadline (core/carousel.py, _model_deadline, _account_deadline,         *)
(* _bounded_shared, _combined_until), and how outcomes reach the file.     *)
(*                                                                         *)
(* The size of a refusal's rest is Carousel.tla's business: here it is an  *)
(* input.  mark() writes its events while it holds the carousel's lock, so *)
(* a process with unwritten events does nothing else; the button's release *)
(* takes only the file's lock.                                             *)
(***************************************************************************)
EXTENDS SharedHealth

CONSTANTS
    Account,         \* the slot of account-wide holds; the others are models
    Dial,            \* Dial[p]: max_hold_s of process p
    Lag              \* how long mark() may wait for the carousel's lock

ASSUME SharedCarouselAssumption ==
    /\ Slots = ModelSlots \cup {Account} /\ Account \notin ModelSlots
    /\ Dial \in [Procs -> Nat] /\ Lag \in Nat

VARIABLES
    local,           \* local[p][s]: [until, at], p's own hold and its moment
    caps,            \* _shared_cap, NoCap when there is none
    clearing,        \* clearing[p]: released in the file, still to be forgotten
    last,            \* what the last call returned
    firstRead        \* history: the event p believes, when p first read it, and
                     \* when it first read one of the same moment

carousels == <<local, caps, clearing>>
poolVars  == <<healthVars, carousels, last, firstRead>>

Unknown   == [until |-> 0, at |-> 0]
NoCap     == [at |-> -1, cap |-> 0]
NeverRead == [event |-> Unknown, on |-> 0, since |-> 0]
NoCall    == [outcome |-> "none"]

Earlier(a, b) == IF a <= b THEN a ELSE b
Later(a, b)   == IF a >= b THEN a ELSE b

Idle(p) == outbox[p] = <<>>

\* time.time() as read before the carousel's lock was free.
Moments == Later(Start, clock - Lag)..clock
-----------------------------------------------------------------------------
(* Reading                                                                  *)

Ceiling(p) == clock + Dial[p]

Trimmed(p, s) == [local[p][s] EXCEPT !.until = Earlier(@, Ceiling(p))]

\* Mutants of Bounded: a cap taken anew at every read; one kept for every event.
BoundedAnew(p, s, e) ==
    IF e.until <= Ceiling(p) THEN NoCap ELSE [at |-> e.at, cap |-> Ceiling(p)]
BoundedOnce(p, s, e) ==
    IF caps[p][s] # NoCap
    THEN [at |-> e.at, cap |-> Earlier(caps[p][s].cap, Ceiling(p))]
    ELSE IF e.until <= Ceiling(p) THEN NoCap
    ELSE [at |-> e.at, cap |-> Ceiling(p)]

\* The cap is taken when an event is first read, and then only lowered.
Bounded(p, s, e) ==
    IF caps[p][s].at = e.at
    THEN [at |-> e.at, cap |-> Earlier(caps[p][s].cap, Ceiling(p))]
    ELSE IF e.until <= Ceiling(p) THEN NoCap
    ELSE [at |-> e.at, cap |-> Ceiling(p)]

\* Mutant of Fresher: "no rest" is taken for "no evidence".
FresherIfResting(p, s, e) == e.at > local[p][s].at /\ e.until > 0

\* The file is believed only where it knows something newer.
Fresher(p, s, e) == e.at > local[p][s].at

FirstRead(known, e) ==
    [event |-> e,
     on    |-> IF known.event = e THEN known.on ELSE clock,
     since |-> IF known.event.at = e.at THEN known.since ELSE clock]

Consult(p, m) ==
    LET read     == {m, Account}
        seen(s)  == Evidence(cache'[p], s)
        newer    == {s \in read : Fresher(p, s, seen(s))}
        until(s) == IF s \notin newer THEN local'[p][s].until
                    ELSE IF caps'[p][s] = NoCap THEN seen(s).until
                    ELSE Earlier(seen(s).until, caps'[p][s].cap)
    IN  /\ Idle(p)
        /\ Reload(p)
        /\ local' = [local EXCEPT ![p] = [s \in Slots |->
                        IF s \in read THEN Trimmed(p, s) ELSE @[s]]]
        /\ caps' = [caps EXCEPT ![p] = [s \in Slots |->
                        IF s \in newer THEN Bounded(p, s, seen(s)) ELSE @[s]]]
        /\ firstRead' = [firstRead EXCEPT ![p] = [s \in Slots |->
                        IF s \in newer THEN FirstRead(@[s], seen(s)) ELSE @[s]]]
        /\ last' = [outcome |-> "verdict", proc |-> p, model |-> m, quiet |-> quiet,
                    until |-> [s \in read |-> until(s)]]
        /\ UNCHANGED <<clock, clockSteps, outbox, file, events, history, lastRead,
                       clearing>>
-----------------------------------------------------------------------------
(* mark                                                                     *)

MarkAnswered(p, m, now) ==
    /\ Another
    /\ Emit(p, <<Event(m, 0, now), Event(Account, 0, now)>>)
    /\ local' = [local EXCEPT ![p][m] = [until |-> 0, at |-> now],
                              ![p][Account] = [until |-> 0, at |-> now]]
    /\ last' = NoCall
    /\ UNCHANGED <<clock, clockSteps, file, caches, history, lastRead, caps, clearing,
                   firstRead>>

MarkRefused(p, m, rest, account, now) ==
    LET applied == Earlier(rest, Dial[p])
        until   == Earlier(Later(local[p][m].until, now + applied), now + Dial[p])
        hold    == Earlier(Later(local[p][Account].until, until), now + Dial[p])
    IN  /\ Another
        /\ Emit(p, <<Event(m, until, now)>> \o
                   IF account THEN <<Event(Account, hold, now)>> ELSE <<>>)
        /\ local' = [local EXCEPT
                ![p][m] = [until |-> until, at |-> now],
                ![p][Account] = IF account THEN [until |-> hold, at |-> now] ELSE @]
        /\ last' = NoCall
        /\ UNCHANGED <<clock, clockSteps, file, caches, history, lastRead, caps, clearing,
                       firstRead>>
-----------------------------------------------------------------------------
(* reset_pool and reset_all: the file first, then the memory.               *)

PressClear(p, scope) ==
    /\ Another /\ clearing[p] = {}
    /\ \/ ReleaseAll(p, scope)
       \/ /\ mtime = 0
          /\ UNCHANGED <<file, caches, history>>
    /\ clearing' = [clearing EXCEPT ![p] = scope]
    /\ last' = NoCall
    /\ UNCHANGED <<clock, clockSteps, outbox, lastRead, local, caps, firstRead>>

\* Waking one model leaves the account's hold, and what was capped, alone.
Forget(p) ==
    /\ Idle(p) /\ clearing[p] # {}
    /\ local' = [local EXCEPT ![p] = [s \in Slots |->
                    IF s \in clearing[p] THEN Unknown ELSE @[s]]]
    /\ caps' = IF clearing[p] = Slots
               THEN [caps EXCEPT ![p] = [s \in Slots |-> NoCap]] ELSE caps
    /\ firstRead' = IF clearing[p] = Slots
                    THEN [firstRead EXCEPT ![p] = [s \in Slots |-> NeverRead]] ELSE firstRead
    /\ clearing' = [clearing EXCEPT ![p] = {}]
    /\ last' = NoCall
    /\ UNCHANGED healthVars

\* The process ends and another starts: only the file remembers.
Restart(p) ==
    /\ Another
    /\ outbox' = [outbox EXCEPT ![p] = <<>>]
    /\ cache' = [cache EXCEPT ![p] = Empty]
    /\ cacheMtime' = [cacheMtime EXCEPT ![p] = 0]
    /\ checkedAt' = [checkedAt EXCEPT ![p] = 0]
    /\ local' = [local EXCEPT ![p] = [s \in Slots |-> Unknown]]
    /\ caps' = [caps EXCEPT ![p] = [s \in Slots |-> NoCap]]
    /\ clearing' = [clearing EXCEPT ![p] = {}]
    /\ firstRead' = [firstRead EXCEPT ![p] = [s \in Slots |-> NeverRead]]
    /\ last' = NoCall
    /\ UNCHANGED <<clock, clockSteps, file, history, lastRead>>
-----------------------------------------------------------------------------
PoolInit ==
    /\ Init
    /\ local = [p \in Procs |-> [s \in Slots |-> Unknown]]
    /\ caps = [p \in Procs |-> [s \in Slots |-> NoCap]]
    /\ clearing = [p \in Procs |-> {}]
    /\ last = NoCall
    /\ firstRead = [p \in Procs |-> [s \in Slots |-> NeverRead]]

\* What the carousels do not see.
Elsewhere ==
    /\ \/ \E p \in Procs : Land(p) \/ Lose(p)
       \/ Tick
       \/ \E to \in Start..MaxTime : StepBack(to)
    /\ last' = NoCall
    /\ UNCHANGED <<carousels, firstRead>>

PoolNext ==
    \/ \E p \in Readers, m \in ModelSlots : Consult(p, m)
    \/ \E p \in Procs, m \in ModelSlots, now \in Moments : MarkAnswered(p, m, now)
    \/ \E p \in Procs, m \in ModelSlots, rest \in Rests, account \in BOOLEAN, now \in Moments :
          MarkRefused(p, m, rest, account, now)
    \/ \E p \in Procs, scope \in {Slots} \cup {{m} : m \in ModelSlots} : PressClear(p, scope)
    \/ \E p \in Procs : Forget(p) \/ Restart(p)
    \/ Elsewhere

PoolSpec == PoolInit /\ [][PoolNext]_poolVars
-----------------------------------------------------------------------------
(* Properties                                                               *)

Verdict == last.outcome = "verdict"
Sure    == last.quiet >= Floor /\ clockSteps = 0

\* The file knows something newer of a slot the verdict read.
Newer(s) == rows[s].at > local[last.proc][s].at

(* A sibling's rest, however long and however often it is read, keeps the  *)
(* key out of this process for its own dial at most, counted from the      *)
(* first time it read the event (a clear or a restart starts anew); and no *)
(* hold is ever longer than the dial from now, also once the clock was set *)
(* back (core/carousel.py:1552-1574, 1613-1626).                           *)
HoldsBounded ==
    Verdict => \A s \in DOMAIN last.until :
        /\ last.until[s] <= Ceiling(last.proc)
        /\ last.until[s] <= Later(local[last.proc][s].until,
                                 firstRead[last.proc][s].on + Dial[last.proc])

(* A rest that is on file is honoured by every process that knows nothing  *)
(* newer, a restarted one included, from its first look after the floor:   *)
(* the key is healthy there only when the rest is over or has outlasted    *)
(* that process's own dial (core/shared_health.py:9-16,                    *)
(* core/carousel.py:1508-1550).                                            *)
HonouredOnceRead ==
    Verdict /\ Sure => \A s \in DOMAIN last.until :
        Newer(s) => last.until[s] >= Earlier(rows[s].until,
                                             firstRead[last.proc][s].since + Dial[last.proc])

(* A success recorded by one profile, or a clear, frees the key in every   *)
(* other that has learned nothing newer, whatever it still holds locally   *)
(* (core/shared_health.py:18-20, core/carousel.py:1508-1526).              *)
SuccessFreesEveryone ==
    Verdict /\ Sure => \A s \in DOMAIN last.until :
        Newer(s) /\ rows[s].until = 0 => last.until[s] = 0

=============================================================================

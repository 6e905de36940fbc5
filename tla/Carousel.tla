----------------------------- MODULE Carousel -----------------------------
(***************************************************************************)
(* One process's carousel (core/carousel.py, class Carousel) with pool     *)
(* sharing switched off: which key each request gets, what its outcome     *)
(* does to the key, and how rests end.  The models are the identities      *)
(* "provider:model" of one provider, so an account-wide refusal on one of  *)
(* them rests the key on all.                                              *)
(*                                                                         *)
(* Every public method holds self._lock for its whole body, so a call is   *)
(* one step; reset_pool takes the lock several times and is three steps.   *)
(* Any number of requests are in flight at once: an outcome may be marked  *)
(* in any state, for any key.                                              *)
(*                                                                         *)
(* Not modelled: the pacing and latency terms of the ranking.  select asks *)
(* both with the wall clock while they keep monotonic time, so both are    *)
(* constant (Pacing.tla); a tie is broken arbitrarily here.                *)
(***************************************************************************)
EXTENDS KeyMemory

CONSTANTS
    Models,           \* identities of one provider
    Keys,             \* its API keys
    Position,         \* Position[k]: place of k in the configured list
    Refusals,         \* the refusals explored, a subset of Refusal
    Dials,            \* the values the owner gives max_hold_s
    Spreads,          \* the settings of the spread switch explored
    MirrorGrace,      \* MIRROR_GRACE_S
    PoolSilence,      \* POOL_SILENCE_BEFORE_THE_DAY_S
    ThawBase,         \* THAW_BASE_S
    ThawFan,          \* largest fan-out of a thaw, whole seconds
    Start,            \* the clock when the process starts
    MaxCalls,         \* bound on the calls made into the carousel
    Horizon,          \* bound: no call after this moment
    MaxTime,          \* bound: the clock stops here
    MaxClockSteps     \* bound on backward steps of the wall clock

ASSUME CarouselAssumption ==
    /\ Refusals \subseteq Refusal
    /\ Dials \subseteq Nat /\ Dials # {}
    /\ Spreads \subseteq BOOLEAN
    /\ Position \in [Keys -> Nat] /\ IsFiniteSet(Keys)
    /\ {MirrorGrace, PoolSilence, ThawBase, ThawFan, Start, MaxCalls, Horizon,
        MaxTime, MaxClockSteps} \subseteq Nat

VARIABLES
    clock,            \* time.time()
    clockSteps,       \* backward clock steps so far
    max_hold,         \* max_hold_s, the owner's ceiling on any hold
    known,            \* known[m]: the keys _pools[m] holds
    memory,           \* memory[m][k]: their KeyState
    ceiling,          \* _stated_rl_ceiling, 0 when never stated
    named,            \* _named_window, "" when none
    noAnswerSince,    \* _no_answer_since, NoTime when unset
    accountHold,      \* _account_hold, 0 when none
    restoring,        \* restoring[m]: how far reset_pool is, and the keys it keeps
    calls             \* calls made so far, for the bound

\* What the last call returned.
VARIABLES
    offer,            \* of select: model, key, the keys offered, outcome
    ruling            \* of mark: model, effective refusal, rest applied

\* History, for the properties only.
VARIABLES
    owed,             \* owed[m][k]: end of the longest firm rest ruled
    owedAccount,      \* owedAccount[k]: ... of an account-wide one
    lastAnswer        \* lastAnswer[m]: when a key of m last answered

pools    == <<known, memory, ceiling, named, noAnswerSince>>
history  == <<owed, owedAccount, lastAnswer>>
vars == <<clock, clockSteps, max_hold, pools, accountHold, restoring, calls,
          offer, ruling, history>>

NoTime   == -1
NoOffer  == [outcome |-> "none"]
NoRuling == [outcome |-> "none"]
NotReset == [stage |-> "none", keys |-> {}]
Resets == [stage : {"none", "read", "forgotten"}, keys : SUBSET Keys]

\* One more call into the carousel.
Called == calls < MaxCalls /\ clock <= Horizon /\ calls' = calls + 1
-----------------------------------------------------------------------------
(* Reading a key's deadline: _combined_until without a shared file.         *)

State(m, k) == IF k \in known[m] THEN memory[m][k] ELSE Fresh(clock)

\* A read trims what it reads to the ceiling of this moment.
Trimmed(until) == Earlier(until, clock + max_hold)

\* Mutant of Deadline: an account-wide hold is not consulted.
DeadlineOfModel(m, k) == Trimmed(State(m, k).sick_until)

Deadline(m, k) == Later(Trimmed(State(m, k).sick_until), Trimmed(accountHold[k]))

\* Mutant of Healthy: a retired key never is, even where nothing else is left.
HealthyUnlessRetired(m, k) == ~State(m, k).retired /\ Deadline(m, k) <= clock

Healthy(m, k) == Deadline(m, k) <= clock

\* A retired key counts only when every key offered is retired.
Standing(m, usable) ==
    LET standing == {k \in usable : ~State(m, k).retired}
    IN  IF standing # {} THEN standing ELSE usable

\* Mutant of HealthyCount: an account-wide hold is not consulted.
HealthyCountOfModel(m, usable) ==
    Cardinality({k \in Standing(m, usable) : Trimmed(State(m, k).sick_until) <= clock})

\* healthy_count, and next_recovery_seconds (0 stands for None).
HealthyCount(m, usable) == Cardinality({k \in Standing(m, usable) : Healthy(m, k)})

NextRecovery(m, usable) ==
    LET soonest == CHOOSE d \in {Deadline(m, k) : k \in Standing(m, usable)} :
                       \A k \in Standing(m, usable) : d <= Deadline(m, k)
    IN  IF soonest <= clock THEN 0 ELSE soonest - clock

\* The two share this effect on what they looked at; a call that finds nothing
\* to trim changes nothing and is left out.
TrimRead(m, read) ==
    /\ memory' = [memory EXCEPT ![m] = [k \in Keys |->
                    IF k \in read \cap known[m]
                    THEN [memory[m][k] EXCEPT !.sick_until = Trimmed(memory[m][k].sick_until)]
                    ELSE memory[m][k]]]
    /\ accountHold' = [k \in Keys |->
                    IF k \in read THEN Trimmed(accountHold[k]) ELSE accountHold[k]]

Consult(m, usable) ==
    /\ Called
    /\ \E k \in Standing(m, usable) :
          State(m, k).sick_until > clock + max_hold \/ accountHold[k] > clock + max_hold
    /\ TrimRead(m, Standing(m, usable))
    /\ offer' = NoOffer /\ ruling' = NoRuling
    /\ UNCHANGED <<clock, clockSteps, max_hold, known, ceiling, named, noAnswerSince,
                   restoring, history>>
-----------------------------------------------------------------------------
(* select                                                                   *)

\* _mirror: a key no call has offered for MirrorGrace was removed by the owner.
Removed(m, usable) ==
    {k \in known[m] \ usable : memory[m][k].last_offered <= clock - MirrorGrace}

\* The pool as select leaves it, before the choice.
Mirrored(m, usable) ==
    [k \in Keys |->
        IF k \in usable
        THEN [State(m, k) EXCEPT !.last_offered = clock,
                                 !.request_log = Recent(@, clock),
                                 !.sick_until = Trimmed(@)]
        ELSE IF k \in Removed(m, usable) THEN Fresh(0) ELSE memory[m][k]]

Least(S, f) == {k \in S : \A j \in S : f[k] <= f[j]}

\* The keys the ranking may choose: never-rejected first; then by load and by
\* age when spreading, else by place in the list.
Ranked(pool, healthy, spread) ==
    LET rejected == [k \in healthy |-> IF pool[k].kind \in RejectedKinds THEN 1 ELSE 0]
        load     == [k \in healthy |-> Cardinality(pool[k].request_log)]
        age      == [k \in healthy |-> pool[k].last_used]
        first    == Least(healthy, rejected)
    IN  IF spread THEN Least(Least(first, load), age) ELSE Least(first, Position)

Select(m, usable, spread) ==
    LET healthy == {k \in Standing(m, usable) : Healthy(m, k)}
        pool    == Mirrored(m, usable)
        kept    == (known[m] \cup usable) \ Removed(m, usable)
    IN  /\ Called /\ usable # {}
        /\ known' = [known EXCEPT ![m] = kept]
        /\ ceiling' = [ceiling EXCEPT ![m] = [k \in Keys |-> IF k \in kept THEN @[k] ELSE 0]]
        /\ named' = [named EXCEPT ![m] = [k \in Keys |-> IF k \in kept THEN @[k] ELSE ""]]
        /\ accountHold' = [k \in Keys |->
                    IF k \in usable THEN Trimmed(accountHold[k]) ELSE accountHold[k]]
        /\ owed' = [owed EXCEPT ![m] = [k \in Keys |-> IF k \in kept THEN @[k] ELSE 0]]
        /\ \/ /\ healthy = {}
              /\ \E k \in Least(Standing(m, usable), [j \in Keys |-> Deadline(m, j)]) :
                    offer' = [outcome |-> "EXHAUSTED", model |-> m, key |-> k, usable |-> usable]
              /\ memory' = [memory EXCEPT ![m] = pool]
           \/ /\ healthy # {}
              /\ \E k \in Ranked(pool, healthy, spread) :
                    /\ offer' = [outcome |-> "SUCCESS", model |-> m, key |-> k, usable |-> usable]
                    /\ memory' = [memory EXCEPT ![m] =
                          [pool EXCEPT ![k] = Chosen(@, clock)]]
        /\ ruling' = NoRuling
        /\ UNCHANGED <<clock, clockSteps, max_hold, noAnswerSince, restoring,
                       owedAccount, lastAnswer>>
-----------------------------------------------------------------------------
(* mark                                                                     *)

MarkAnswered(m, k) ==
    /\ Called
    /\ known' = [known EXCEPT ![m] = @ \cup {k}]
    /\ memory' = [memory EXCEPT ![m][k] = Answered(State(m, k), clock)]
    /\ ceiling' = [ceiling EXCEPT ![m][k] = 0]
    /\ named' = [named EXCEPT ![m][k] = ""]
    /\ noAnswerSince' = [noAnswerSince EXCEPT ![m] = NoTime]
    /\ accountHold' = [accountHold EXCEPT ![k] = 0]
    /\ owed' = [owed EXCEPT ![m][k] = 0]
    /\ owedAccount' = [owedAccount EXCEPT ![k] = 0]
    /\ lastAnswer' = [lastAnswer EXCEPT ![m] = clock]
    /\ offer' = NoOffer /\ ruling' = NoRuling
    /\ UNCHANGED <<clock, clockSteps, max_hold, restoring>>

\* A refusal that is about this key, not an outage nobody sized.
Firm(f) == f.kind # "server" \/ (f.stated /\ f.delay > 0)

\* since is _no_answer_since as this refusal leaves it.
SilentSince(m, f) ==
    IF f.kind = "daily" /\ noAnswerSince[m] = NoTime THEN clock ELSE noAnswerSince[m]

\* Mutant of AccountHeld: the newest account-wide refusal replaces the longest.
AccountHeldAnew(k, until) == Trimmed(until)

\* The account's hold after one more refusal for the whole account.
AccountHeld(k, until) == Trimmed(Later(accountHold[k], until))

MarkRefused(m, k, refusal) ==
    LET learned   == Taught(ceiling[m][k], refusal)
        f         == Renamed(refusal, named[m][k])
        since     == SilentSince(m, f)
        poolAlive == f.kind = "daily" => clock - since < PoolSilence
        counted   == Counted(Blamed(State(m, k), refusal), f, learned)
        rest      == Rest(counted, f, learned, poolAlive, max_hold)
        after     == Held(counted, f, rest, clock, max_hold)
    IN  /\ Called
        /\ known' = [known EXCEPT ![m] = @ \cup {k}]
        /\ memory' = [memory EXCEPT ![m][k] = after]
        /\ ceiling' = [ceiling EXCEPT ![m][k] = learned]
        /\ named' = IF refusal.kind \in NamedWindow
                    THEN [named EXCEPT ![m][k] = refusal.kind] ELSE named
        /\ noAnswerSince' = [noAnswerSince EXCEPT ![m] = since]
        /\ accountHold' = IF f.account
                          THEN [accountHold EXCEPT ![k] = AccountHeld(k, after.sick_until)]
                          ELSE accountHold
        /\ ruling' = [outcome |-> "held", model |-> m, refusal |-> f, rest |-> rest]
        /\ offer' = NoOffer
        /\ owed' = IF Firm(f)
                   THEN [owed EXCEPT ![m][k] = Later(@, clock + rest)]
                   ELSE owed
        /\ owedAccount' = IF f.account
                          THEN [owedAccount EXCEPT ![k] = Later(@, clock + rest)]
                          ELSE owedAccount
        /\ UNCHANGED <<clock, clockSteps, max_hold, restoring, lastAnswer>>
-----------------------------------------------------------------------------
(* thaw_server_cooled: the key that just answered pulls the outage rests of *)
(* its pool forward; the fan-out follows the pool's insertion order.        *)

\* Mutant of ThawTarget: a neighbour's success erases what this key was told.
ThawTargetWithoutFloor(s, fan) == clock + ThawBase + fan

ThawTarget(s, fan) ==
    Later(clock + ThawBase + fan, Later(s.non_server_until, s.stated_server_until))

Thaw(m, except, fan) ==
    LET cooled == {k \in known[m] \ {except} :
                     /\ memory[m][k].consecutive_server > 0
                     /\ memory[m][k].sick_until > clock
                     /\ ThawTarget(memory[m][k], fan[k]) < memory[m][k].sick_until}
    IN  /\ Called /\ cooled # {}
        /\ memory' = [memory EXCEPT ![m] = [k \in Keys |->
                IF k \in cooled
                THEN [memory[m][k] EXCEPT !.sick_until = ThawTarget(memory[m][k], fan[k])]
                ELSE memory[m][k]]]
        /\ offer' = NoOffer /\ ruling' = NoRuling
        /\ UNCHANGED <<clock, clockSteps, max_hold, known, ceiling, named, noAnswerSince,
                       accountHold, restoring, history>>
-----------------------------------------------------------------------------
(* forget, reset_pool and reset_all.                                        *)

Forgotten(m) ==
    /\ known' = [known EXCEPT ![m] = {}]
    /\ memory' = [memory EXCEPT ![m] = [k \in Keys |-> Fresh(0)]]
    /\ ceiling' = [ceiling EXCEPT ![m] = [k \in Keys |-> 0]]
    /\ named' = [named EXCEPT ![m] = [k \in Keys |-> ""]]
    /\ noAnswerSince' = [noAnswerSince EXCEPT ![m] = NoTime]
    /\ owed' = [owed EXCEPT ![m] = [k \in Keys |-> 0]]

\* "Wake this model": first, under the lock, the keys to keep are read ...
ResetPoolRead(m) ==
    /\ Called /\ known[m] # {} /\ restoring[m] = NotReset
    /\ restoring' = [restoring EXCEPT ![m] = [stage |-> "read", keys |-> known[m]]]
    /\ offer' = NoOffer /\ ruling' = NoRuling
    /\ UNCHANGED <<clock, clockSteps, max_hold, pools, accountHold, history>>

\* ... then, under it again, the pool is forgotten, with every key met since ...
ResetPoolForget(m) ==
    /\ restoring[m].stage = "read"
    /\ Forgotten(m)
    /\ restoring' = [restoring EXCEPT ![m].stage = "forgotten"]
    /\ offer' = NoOffer /\ ruling' = NoRuling
    /\ UNCHANGED <<clock, clockSteps, max_hold, accountHold, calls, owedAccount, lastAnswer>>

\* ... and put back with every key fresh; what was learned of the pool in
\* between goes with it, the rest of the memory stays.
ResetPoolRestore(m) ==
    /\ restoring[m].stage = "forgotten"
    /\ known' = [known EXCEPT ![m] = restoring[m].keys]
    /\ memory' = [memory EXCEPT ![m] = [k \in Keys |->
                    IF k \in restoring[m].keys THEN Fresh(clock) ELSE Fresh(0)]]
    /\ restoring' = [restoring EXCEPT ![m] = NotReset]
    /\ owed' = [owed EXCEPT ![m] = [k \in Keys |-> 0]]
    /\ offer' = NoOffer /\ ruling' = NoRuling
    /\ UNCHANGED <<clock, clockSteps, max_hold, ceiling, named, noAnswerSince,
                   accountHold, calls, owedAccount, lastAnswer>>

\* "Clear pool".
ResetAll ==
    /\ Called
    /\ known' = [m \in Models |-> {}]
    /\ memory' = [m \in Models |-> [k \in Keys |-> Fresh(0)]]
    /\ ceiling' = [m \in Models |-> [k \in Keys |-> 0]]
    /\ named' = [m \in Models |-> [k \in Keys |-> ""]]
    /\ noAnswerSince' = [m \in Models |-> NoTime]
    /\ accountHold' = [k \in Keys |-> 0]
    /\ owed' = [m \in Models |-> [k \in Keys |-> 0]]
    /\ owedAccount' = [k \in Keys |-> 0]
    /\ offer' = NoOffer /\ ruling' = NoRuling
    /\ UNCHANGED <<clock, clockSteps, max_hold, restoring, lastAnswer>>
-----------------------------------------------------------------------------
(* The environment.  The ceiling and the wall clock are outside the        *)
(* carousel; a rest still owed is owed no longer than the ceiling allows   *)
(* from that moment.                                                       *)

OwedAtMost(limit) ==
    /\ owed' = [m \in Models |-> [k \in Keys |-> Earlier(owed[m][k], limit)]]
    /\ owedAccount' = [k \in Keys |-> Earlier(owedAccount[k], limit)]

\* The owner moves the dial (transport.configure assigns max_hold_s).
TurnDial(seconds) ==
    /\ Called /\ seconds # max_hold
    /\ max_hold' = seconds
    /\ OwedAtMost(clock + seconds)
    /\ offer' = NoOffer /\ ruling' = NoRuling
    /\ UNCHANGED <<clock, clockSteps, pools, accountHold, restoring, lastAnswer>>

Tick ==
    /\ clock < MaxTime
    /\ clock' = clock + 1
    /\ offer' = NoOffer /\ ruling' = NoRuling
    /\ UNCHANGED <<clockSteps, max_hold, pools, accountHold, restoring, calls, history>>

\* The machine's clock is set back.
StepBack(to) ==
    /\ clockSteps < MaxClockSteps /\ to < clock /\ clock <= Horizon
    /\ clock' = to
    /\ clockSteps' = clockSteps + 1
    /\ OwedAtMost(to + max_hold)
    /\ lastAnswer' = [m \in Models |-> Earlier(lastAnswer[m], to)]
    /\ offer' = NoOffer /\ ruling' = NoRuling
    /\ UNCHANGED <<max_hold, pools, accountHold, restoring, calls>>

Init ==
    /\ clock = Start /\ clockSteps = 0
    /\ max_hold \in Dials
    /\ known = [m \in Models |-> {}]
    /\ memory = [m \in Models |-> [k \in Keys |-> Fresh(0)]]
    /\ ceiling = [m \in Models |-> [k \in Keys |-> 0]]
    /\ named = [m \in Models |-> [k \in Keys |-> ""]]
    /\ noAnswerSince = [m \in Models |-> NoTime]
    /\ accountHold = [k \in Keys |-> 0]
    /\ restoring = [m \in Models |-> NotReset]
    /\ calls = 0
    /\ offer = NoOffer /\ ruling = NoRuling
    /\ owed = [m \in Models |-> [k \in Keys |-> 0]]
    /\ owedAccount = [k \in Keys |-> 0]
    /\ lastAnswer = [m \in Models |-> Start]

Next ==
    \/ \E m \in Models, usable \in SUBSET Keys, spread \in Spreads : Select(m, usable, spread)
    \/ \E m \in Models, usable \in SUBSET Keys : Consult(m, usable)
    \/ \E m \in Models, k \in Keys : MarkAnswered(m, k)
    \/ \E m \in Models, k \in Keys, f \in Refusals : MarkRefused(m, k, f)
    \/ \E m \in Models, k \in Keys, fan \in [Keys -> 0..ThawFan] : Thaw(m, k, fan)
    \/ \E m \in Models : ResetPoolRead(m) \/ ResetPoolForget(m) \/ ResetPoolRestore(m)
    \/ ResetAll
    \/ \E seconds \in Dials : TurnDial(seconds)
    \/ Tick
    \/ \E to \in Start..MaxTime : StepBack(to)

Spec == Init /\ [][Next]_vars

\* Time passes.
FairSpec == Spec /\ WF_vars(Tick)
-----------------------------------------------------------------------------
(* Properties                                                              *)

TypeOK ==
    /\ clock \in Nat /\ clockSteps \in Nat
    /\ max_hold \in Dials
    /\ known \in [Models -> SUBSET Keys]
    /\ memory \in [Models -> [Keys -> KeyState]]
    /\ ceiling \in [Models -> [Keys -> Nat]]
    /\ named \in [Models -> [Keys -> NamedWindow \cup {""}]]
    /\ noAnswerSince \in [Models -> Nat \cup {NoTime}]
    /\ accountHold \in [Keys -> Nat]
    /\ restoring \in [Models -> Resets]
    /\ calls \in Nat
    /\ owed \in [Models -> [Keys -> Nat]]
    /\ owedAccount \in [Keys -> Nat]
    /\ lastAnswer \in [Models -> Nat]

(* No key is handed out before the longest firm rest ruled since its last  *)
(* success is over, whatever came in between: softer refusals, a thaw by a *)
(* neighbour's success, other keys' resets, an account-wide refusal on     *)
(* another model, a clock set back (core/carousel.py:34-41, 2472-2482).    *)
FirmRestHonoured ==
    offer.outcome = "SUCCESS" =>
        /\ owed[offer.model][offer.key] <= clock
        /\ owedAccount[offer.key] <= clock

Covered(m, k) ==
    /\ k \notin known[m] => owed[m][k] = 0
    /\ owed[m][k] <= memory[m][k].sick_until
    /\ owed[m][k] <= Later(memory[m][k].non_server_until, memory[m][k].stated_server_until)
    /\ owed[m][k] <= clock + max_hold

CoveredAccount(k) == owedAccount[k] <= Earlier(accountHold[k], clock + max_hold)

(* Why: every firm rest still owed is on record where each later step      *)
(* reads it - in the hold itself, in the floors a thaw respects, in the    *)
(* account's hold - and is owed no longer than the dial allows             *)
(* (core/carousel.py:2049-2066, 2472-2499, 1613-1626).                     *)
OwedIsHeld ==
    /\ \A m \in Models, k \in Keys : Covered(m, k)
    /\ \A k \in Keys : CoveredAccount(k)

(* The three readers agree: a pool select calls exhausted is one that      *)
(* healthy_count finds empty and that next_recovery_seconds gives a        *)
(* positive wait for, and the key returned is one that recovers first.  A  *)
(* caller that was refused a key never finds nothing to wait for.          *)
ReadersAgree ==
    /\ \A m \in Models, usable \in (SUBSET Keys) \ {{}} :
          (HealthyCount(m, usable) = 0) <=> (NextRecovery(m, usable) > 0)
    /\ offer.outcome = "EXHAUSTED" =>
          Deadline(offer.model, offer.key) - clock = NextRecovery(offer.model, offer.usable)
    /\ offer.outcome = "SUCCESS" => Healthy(offer.model, offer.key)

(* An unsized daily refusal rests a key for longer than a recheck only     *)
(* when no key of the model has answered for PoolSilence                   *)
(* (core/carousel.py:2000-2003, 2205-2235).                                *)
DayRestNeedsSilence ==
    ruling.outcome = "held" /\ ruling.refusal.kind = "daily"
        /\ ~ruling.refusal.stated /\ ~ruling.refusal.calendar
        /\ ruling.rest > RateCap
    => lastAnswer[ruling.model] + PoolSilence <= clock

(* Every rest ends: a key that rests is healthy again once time has        *)
(* passed, however the ladders, the holds and the dial combined.           *)
RestsEnd ==
    \A m \in Models, k \in Keys : ~Healthy(m, k) ~> Healthy(m, k)
=============================================================================

----------------------------- MODULE KeyMemory -----------------------------
(***************************************************************************)
(* What core/carousel.py remembers about one key, and what one answer or   *)
(* one refusal does to it: the per-key half of Carousel.mark and all of    *)
(* Carousel._escalate, as operators on records.  Carousel.tla and          *)
(* SharedCarousel.tla build their actions from them.                       *)
(*                                                                         *)
(* Times are whole seconds.  A strike counter saturates at MaxStrikes,     *)
(* where both doubling ladders have reached their cap.  The moment of the  *)
(* last outcome (health_at) is read only where profiles share the pool,    *)
(* and is a variable of SharedCarousel.tla.                                *)
(***************************************************************************)
EXTENDS Integers, FiniteSets

CONSTANTS
    DailyCooldown,          \* daily_cooldown_s, the long rest
    HardCap,                \* HARD_DELAY_CAP_S, the module's own sanity cap
    RateCap,                \* RL_BACKOFF_CAP_S
    RateBase,               \* RL_BASE_S
    ServerBase,             \* SERVER_BASE_S
    UnsizedRest,            \* unsized_throttle_rest_s
    UnsizedBackoff,         \* unsized_throttle_backoff (a switch)
    UnsizedBackoffMax,      \* unsized_backoff_max_s
    DailyBase,              \* DAILY_BASE_S, first rest of a refused key
    RefusalsBeforeRetiring, \* REFUSALS_BEFORE_RETIRING
    RpmWindow,              \* RPM_WINDOW_S
    MaxStrikes              \* bound: where the strike counters saturate

ASSUME KeyMemoryAssumption ==
    /\ {DailyCooldown, HardCap, RateCap, RateBase, ServerBase, UnsizedRest,
        UnsizedBackoffMax, DailyBase, RpmWindow} \subseteq Nat
    /\ UnsizedBackoff \in BOOLEAN
    /\ {RefusalsBeforeRetiring, MaxStrikes} \subseteq Nat \ {0}
    /\ DailyBase * 2^(MaxStrikes - 1) >= DailyCooldown
    /\ 2^(MaxStrikes - 1) >= UnsizedBackoffMax
-----------------------------------------------------------------------------
Later(a, b)   == IF a >= b THEN a ELSE b
Earlier(a, b) == IF a <= b THEN a ELSE b

\* One more strike, saturating.
Strike(n, limit) == IF n < limit THEN n + 1 ELSE limit

\* The kinds a verdict can carry into mark() (core/vocabulary.py).
Throttles      == {"per_minute", "rate_limit"}
NamedWindow    == {"daily", "insufficient_quota"}
RejectedKinds  == {"auth", "denied", "revoked"}
RetiringKinds  == {"auth", "revoked"}
Kinds == Throttles \cup NamedWindow \cup RejectedKinds
            \cup {"server", "timeout", "other"}

\* A classified refusal, as mark() is handed it.
Refusal == [kind     : Kinds,
            delay    : Nat,
            stated   : BOOLEAN,  \* the provider gave the number
            calendar : BOOLEAN,  \* ... as a named calendar window's reset
            account  : BOOLEAN,  \* it speaks for the whole account
            bare     : BOOLEAN]  \* an overload with no number at all

Requests == {log \in SUBSET (Nat \X Nat) : IsFiniteSet(log)}

KeyState == [sick_until                   : Nat,
             non_server_until             : Nat,
             stated_server_until          : Nat,
             last_used                    : Nat,
             last_offered                 : Nat,
             request_log                  : Requests,
             consecutive_rl               : 0..MaxStrikes,
             consecutive_server           : 0..MaxStrikes,
             consecutive_unsized_throttle : 0..MaxStrikes,
             consecutive_refusals         : 0..RefusalsBeforeRetiring,
             retired                      : BOOLEAN,
             kind                         : Kinds \cup {""}]

Fresh(now) == [sick_until |-> 0, non_server_until |-> 0, stated_server_until |-> 0,
               last_used |-> 0, last_offered |-> now, request_log |-> {},
               consecutive_rl |-> 0, consecutive_server |-> 0,
               consecutive_unsized_throttle |-> 0, consecutive_refusals |-> 0,
               retired |-> FALSE, kind |-> ""]
-----------------------------------------------------------------------------
(* The sliding window of requests: a list of instants in the code, here the *)
(* set of <<instant, ordinal among the requests of that instant>>.          *)

Logged(log, now) == log \cup {<<now, Cardinality({e \in log : e[1] = now})>>}

Recent(log, now) == {e \in log : e[1] > now - RpmWindow}
-----------------------------------------------------------------------------
(* How long one refusal rests a key: _escalate.                             *)

\* base * 2^(strikes-1), never past cap.
Doubled(base, strikes, cap) ==
    LET grown == base * 2^(Later(strikes, 1) - 1)
    IN  IF grown \in 0..cap THEN grown ELSE cap

\* Mutant of DailyRest: the pool still answering is not asked.
DailyRestAlwaysLong(f, poolAlive) ==
    IF (f.calendar /\ f.delay > 0) \/ (f.stated /\ f.delay >= DailyCooldown)
    THEN Earlier(f.delay, HardCap)
    ELSE Later(f.delay, DailyCooldown)

\* A spent day: the provider's own calendar when it gave one, a short
\* recheck while the pool is still answering, the long rest after that.
DailyRest(f, poolAlive) ==
    IF (f.calendar /\ f.delay > 0) \/ (f.stated /\ f.delay >= DailyCooldown)
    THEN Earlier(f.delay, HardCap)
    ELSE IF poolAlive THEN Earlier(RateCap, DailyCooldown)
                      ELSE Later(f.delay, DailyCooldown)

\* A rejected key: the stated time, or a doubling rest; both at most the long
\* one.
RejectedRest(s, f) ==
    IF f.stated /\ f.delay > 0
    THEN Earlier(f.delay, DailyCooldown)
    ELSE Earlier(Later(f.delay, Doubled(DailyBase, s.consecutive_rl,
                                        Earlier(DailyCooldown, HardCap))),
                 DailyCooldown)

\* An overload nobody sized climbs the short ladder instead of the flat rest.
Climbs(f, learned) ==
    /\ f.kind \in Throttles
    /\ f.delay <= 0 /\ learned <= 0
    /\ UnsizedBackoff /\ f.bare

\* A throttle: its own number, else the largest this key ever stated, else
\* the ladder or the flat rest.
ThrottleRest(s, f, learned, maxHold) ==
    IF f.delay > 0 THEN Later(f.delay, RateBase)
    ELSE IF learned > 0 THEN Later(Earlier(learned, RateCap), RateBase)
    ELSE IF Climbs(f, learned)
         THEN Doubled(1, s.consecutive_unsized_throttle,
                      Later(1, Earlier(maxHold, UnsizedBackoffMax)))
         ELSE UnsizedRest

ServerRest(f) ==
    IF f.stated /\ f.delay > 0 THEN Earlier(f.delay, HardCap)
                               ELSE Later(f.delay, ServerBase)

\* The counters _escalate moves before it reads them.
Counted(s, f, learned) ==
    [s EXCEPT
        !.consecutive_rl =
            IF f.kind \in {"daily"} \cup RejectedKinds \cup Throttles
            THEN Strike(@, MaxStrikes) ELSE @,
        !.consecutive_server =
            IF f.kind = "server" THEN Strike(@, MaxStrikes) ELSE @,
        !.consecutive_unsized_throttle =
            IF f.kind \notin Throttles THEN @
            ELSE IF Climbs(f, learned) THEN Strike(@, MaxStrikes) ELSE 0]

\* The rest mark() will apply: one rule per kind, then both ceilings.
Rest(s, f, learned, poolAlive, maxHold) ==
    LET sized == CASE f.kind = "insufficient_quota" -> Later(f.delay, DailyCooldown)
                   [] f.kind = "daily"              -> DailyRest(f, poolAlive)
                   [] f.kind \in RejectedKinds      -> RejectedRest(s, f)
                   [] f.kind \in Throttles          -> ThrottleRest(s, f, learned, maxHold)
                   [] f.kind = "server"             -> ServerRest(f)
                   [] OTHER                         -> f.delay
    IN  Earlier(sized, Earlier(HardCap, maxHold))
-----------------------------------------------------------------------------
(* What select() notes on the key it hands out, and what mark() stores.     *)

Chosen(s, now) == [s EXCEPT !.last_used = now, !.request_log = Logged(@, now)]

\* A success proves everything held against the key wrong.
Answered(s, now) ==
    [s EXCEPT !.sick_until = 0, !.non_server_until = 0, !.stated_server_until = 0,
              !.consecutive_rl = 0, !.consecutive_server = 0,
              !.consecutive_unsized_throttle = 0, !.consecutive_refusals = 0,
              !.retired = FALSE, !.kind = "",
              !.request_log = Logged(@, now)]

\* Strikes towards retirement are judged on the kind as the caller named it.
Blamed(s, f) ==
    LET refusals == IF f.kind \in RetiringKinds
                    THEN Strike(s.consecutive_refusals, RefusalsBeforeRetiring)
                    ELSE 0
    IN  [s EXCEPT !.consecutive_refusals = refusals,
                  !.retired = @ \/ (f.kind \in RetiringKinds
                                    /\ (f.kind = "revoked"
                                        \/ refusals >= RefusalsBeforeRetiring))]

\* Mutant of Held: a softer refusal shortens the hold.
HeldShortened(s, f, rest, now, maxHold) ==
    LET until == Earlier(now + rest, now + maxHold)
    IN  [s EXCEPT !.sick_until = until, !.kind = f.kind,
                  !.non_server_until = IF f.kind # "server" THEN Later(@, until) ELSE @,
                  !.stated_server_until =
                      IF f.kind = "server" /\ f.stated /\ f.delay > 0
                      THEN Later(@, until) ELSE @]

\* Mutant of Held: an outage whose end was stated leaves no floor.
HeldWithoutStatedFloor(s, f, rest, now, maxHold) ==
    LET until == Earlier(Later(s.sick_until, now + rest), now + maxHold)
    IN  [s EXCEPT !.sick_until = until, !.kind = f.kind,
                  !.non_server_until = IF f.kind # "server" THEN Later(@, until) ELSE @]

\* Never shortened by a softer refusal, never past the ceiling of this moment.
Held(s, f, rest, now, maxHold) ==
    LET until == Earlier(Later(s.sick_until, now + rest), now + maxHold)
    IN  [s EXCEPT !.sick_until = until,
                  !.kind = f.kind,
                  !.non_server_until =
                      IF f.kind # "server" THEN Later(@, until) ELSE @,
                  !.stated_server_until =
                      IF f.kind = "server" /\ f.stated /\ f.delay > 0
                      THEN Later(@, until) ELSE @]

\* The largest per-minute pause this key ever stated.
Taught(learned, f) ==
    IF f.kind \in Throttles /\ f.stated /\ f.delay > 0 /\ f.delay <= RateCap
    THEN Later(learned, f.delay) ELSE learned

\* An unsized throttle on a key whose long window is known to be spent is that
\* window speaking again.
Renamed(f, named) ==
    IF f.kind \in Throttles /\ ~f.stated /\ f.delay <= 0 /\ named \in NamedWindow
    THEN [f EXCEPT !.kind = named] ELSE f
=============================================================================

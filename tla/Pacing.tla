------------------------------- MODULE Pacing -------------------------------
(***************************************************************************)
(* The pacer (core/pacing.py, class Pacer) as its callers use it: the      *)
(* carousel asks it while it ranks the healthy keys (core/carousel.py,     *)
(* select), the transport stamps every answer and reports every per-minute *)
(* refusal.  One identity, provider:model; a scope is a key, or the quota  *)
(* group the owner put it in.                                              *)
(*                                                                         *)
(* Two clocks: the pacer stamps with time.monotonic(), and select asks     *)
(* with time.time(), which runs WallAhead ahead of it.  The other terms of *)
(* the ranking are Carousel.tla's; here any key may come first by them.    *)
(*                                                                         *)
(* Nothing here is bounded: the module is proved about (ComponentProofs).  *)
(***************************************************************************)
EXTENDS Integers, Sequences, FiniteSets

CONSTANTS
    Keys,
    Group,           \* Group[k]: the scope of k, k itself without a group
    Window,          \* _WINDOW_S
    Skew,            \* _SKEW_S
    SmallLimit,      \* below this limit _eff_limit keeps no margin
    SyncEvery,       \* _SYNC_EVERY_S
    Overrides,       \* the limits the owner sets by hand, 0 for none
    WallAhead        \* time.time() less time.monotonic(): decades

Scopes == Keys \cup {Group[k] : k \in Keys}
Never  == -1

VARIABLES
    mono,            \* time.monotonic()
    log,             \* log[s]: _log, the dispatches remembered
    rpm,             \* rpm[s]: _rpm, 0 when unknown
    notBefore,       \* notBefore[s]: _not_before
    setting,         \* pacing_rpm_overrides, as it stands in the panel
    override,        \* _identity_override_rpm, 0 when never set
    syncedAt,        \* _synced_at
    flying           \* flying[k]: calls on k with no outcome yet

pacerVars == <<mono, log, rpm, notBefore, setting, override, syncedAt, flying>>

Wall == mono + WallAhead

Lower(a, b)  == IF a <= b THEN a ELSE b
Higher(a, b) == IF a >= b THEN a ELSE b
CountWithin(stamps, now, span) ==
    Cardinality({i \in 1..Len(stamps) : now - stamps[i] <= span})

\* _eff_limit: one request of margin, unless the limit is small.
Effective(limit) == IF limit >= SmallLimit THEN limit - 1 ELSE limit

Limit(known, byHand, s) == IF known[s] # 0 THEN known[s] ELSE byHand
-----------------------------------------------------------------------------
(* ready_at: it forgets what has left the window, on the clock it is asked  *)
(* with, and only when the scope has a limit.                               *)

\* popleft, as long as the oldest one has left the window.
Kept(stamps, now) ==
    LET gone == CHOOSE n \in 0..Len(stamps) :
                    /\ \A i \in 1..n : stamps[i] <= now - Window - Skew
                    /\ n < Len(stamps) => stamps[n + 1] > now - Window - Skew
    IN  SubSeq(stamps, gone + 1, Len(stamps))

Purged(known, byHand, s, now) ==
    IF Limit(known, byHand, s) = 0 THEN log[s] ELSE Kept(log[s], now)

ReadyAt(known, byHand, s, now) ==
    LET kept == Purged(known, byHand, s, now)
        eff  == Effective(Limit(known, byHand, s))
    IN  IF Limit(known, byHand, s) = 0 \/ Len(kept) < eff
        THEN Higher(notBefore[s], now)
        ELSE Higher(notBefore[s], kept[Len(kept) - eff + 1] + Window + Skew)

\* sync_identity_settings, on its short clock.  An entry taken out of the
\* panel is not taken back.
SyncDue == syncedAt = Never \/ mono - syncedAt >= SyncEvery

Synced ==
    /\ syncedAt' = IF SyncDue THEN mono ELSE syncedAt
    /\ override' = IF SyncDue /\ setting # 0 THEN setting ELSE override

Taught ==
    IF SyncDue /\ setting # 0
    THEN [s \in Scopes |-> IF rpm[s] # 0 THEN Lower(rpm[s], setting) ELSE 0]
    ELSE rpm

\* select's pacing term, asked with the wall clock for every healthy key: a
\* ready one is handed out before any other.
Select(healthy) ==
    LET ready == {k \in healthy : ReadyAt(Taught, override', Group[k], Wall) <= Wall}
    IN  /\ healthy # {}
        /\ Synced
        /\ rpm' = Taught
        /\ log' = [s \in Scopes |->
                IF \E k \in healthy : Group[k] = s THEN Purged(Taught, override', s, Wall) ELSE log[s]]
        /\ \E k \in IF ready # {} THEN ready ELSE healthy :
              flying' = [flying EXCEPT ![k] = @ + 1]
        /\ UNCHANGED <<mono, notBefore, setting>>
-----------------------------------------------------------------------------
(* What the transport reports.                                              *)

\* stamp, when a call is answered: more answers inside one window than the
\* learned limit allows raise it, never past the owner's.
Answered(k) ==
    LET s        == Group[k]
        stamped  == Append(log[s], mono)
        answered == CountWithin(stamped, mono, Window)
    IN  /\ flying[k] > 0
        /\ flying' = [flying EXCEPT ![k] = @ - 1]
        /\ log' = [log EXCEPT ![s] = stamped]
        /\ rpm' = IF rpm[s] # 0 /\ answered > rpm[s] /\ (override = 0 \/ answered <= override)
                  THEN [rpm EXCEPT ![s] = answered] ELSE rpm
        /\ UNCHANGED <<mono, notBefore, setting, override, syncedAt>>

\* on_minute_429: the refused window held what was sent in it, so the limit
\* is one less.  It is told the key, also where the key has a group.
Refused(k) ==
    LET sent     == CountWithin(log[k], mono, Window + Skew)
        inferred == Higher(1, sent - 1)
        learned  == IF rpm[k] = 0 \/ inferred < rpm[k] THEN inferred ELSE rpm[k]
    IN  /\ flying[k] > 0
        /\ flying' = [flying EXCEPT ![k] = @ - 1]
        /\ \/ log[k] = <<>> /\ UNCHANGED <<rpm, notBefore>>
           \/ /\ log[k] # <<>>
              /\ rpm' = [rpm EXCEPT ![k] = learned]
              /\ notBefore' = IF Len(log[k]) >= Effective(learned)
                              THEN [notBefore EXCEPT ![k] = Higher(@, log[k][1] + Window + Skew)]
                              ELSE notBefore
        /\ UNCHANGED <<mono, log, setting, override, syncedAt>>
-----------------------------------------------------------------------------
\* The owner edits the panel.
SetOverride(limit) ==
    /\ setting' = limit
    /\ UNCHANGED <<mono, log, rpm, notBefore, override, syncedAt, flying>>

MonoTick ==
    /\ mono' = mono + 1
    /\ UNCHANGED <<log, rpm, notBefore, setting, override, syncedAt, flying>>

PacerInit ==
    /\ mono = 0
    /\ log = [s \in Scopes |-> <<>>]
    /\ rpm = [s \in Scopes |-> 0]
    /\ notBefore = [s \in Scopes |-> 0]
    /\ setting \in Overrides
    /\ override = 0 /\ syncedAt = Never
    /\ flying = [k \in Keys |-> 0]

PacerNext ==
    \/ \E healthy \in SUBSET Keys : Select(healthy)
    \/ \E k \in Keys : Answered(k) \/ Refused(k)
    \/ \E limit \in Overrides : SetOverride(limit)
    \/ MonoTick

PacerSpec == PacerInit /\ [][PacerNext]_pacerVars
-----------------------------------------------------------------------------
(* "a key is ready when the last limit requests are older than the window"   *)
(* (core/pacing.py:15-17): not as select asks. On the wall clock every key   *)
(* is ready, whatever limits are known and whatever was sent, so the term    *)
(* never puts one key before another (core/carousel.py:1793).                *)
NeverRanks ==
    \A known \in [Scopes -> Nat], byHand \in Nat, s \in Scopes :
        ReadyAt(known, byHand, s, Wall) <= Wall
=============================================================================

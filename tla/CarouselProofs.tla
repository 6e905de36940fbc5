-------------------------- MODULE CarouselProofs --------------------------
(***************************************************************************)
(* Theorems about Carousel, for every pool, every set of refusals, every   *)
(* dial and every value of the timing constants: its type invariant; that  *)
(* no key is handed out before the longest firm rest it was given is over; *)
(* that no caller is told to wait for longer than the dial; that select,   *)
(* healthy_count and next_recovery_seconds agree; that only a pool that    *)
(* has gone silent is given the day's rest on an unsized refusal; and, for *)
(* every payload FailureReading can be given, which refusals end a turn,   *)
(* how long the pool then rests, and which can never retire a key.         *)
(***************************************************************************)
EXTENDS MCReadPool, TLAPS, FiniteSetTheorems, WellFoundedInduction

\* ---- What the operators on one key's memory return ----

LEMMA LaterEarlierNat ==
    ASSUME NEW a \in Nat, NEW b \in Nat
    PROVE  /\ Later(a, b) \in Nat /\ Later(a, b) >= a /\ Later(a, b) >= b
           /\ Later(a, b) \in {a, b}
           /\ Earlier(a, b) \in Nat /\ Earlier(a, b) <= a /\ Earlier(a, b) <= b
           /\ Earlier(a, b) \in {a, b}
BY DEF Later, Earlier

LEMMA StrikeType ==
    ASSUME NEW limit \in Nat \ {0}, NEW n \in 0..limit
    PROVE  Strike(n, limit) \in 0..limit
BY DEF Strike

LEMMA FreshType == ASSUME NEW now \in Nat PROVE Fresh(now) \in KeyState
<1>1. {} \in Requests
  BY FS_EmptySet DEF Requests
<1>2. 0 \in 0..MaxStrikes /\ 0 \in 0..RefusalsBeforeRetiring
  BY KeyMemoryAssumption DEF KeyMemoryAssumption
<1> QED
  BY <1>1, <1>2 DEF Fresh, KeyState

LEMMA LoggedType ==
    ASSUME NEW log \in Requests, NEW now \in Nat
    PROVE  Logged(log, now) \in Requests
<1> DEFINE same == {e \in log : e[1] = now}
<1>1. IsFiniteSet(log) /\ log \in SUBSET (Nat \X Nat)
  BY DEF Requests
<1>2. IsFiniteSet(same)
  BY <1>1, FS_Subset
<1>3. Cardinality(same) \in Nat
  BY <1>2, FS_CardinalityType
<1>4. <<now, Cardinality(same)>> \in Nat \X Nat
  BY <1>3
<1>5. IsFiniteSet(log \cup {<<now, Cardinality(same)>>})
  BY <1>1, FS_AddElement
<1> QED
  BY <1>1, <1>4, <1>5 DEF Logged, Requests

LEMMA RecentType ==
    ASSUME NEW log \in Requests, NEW now \in Nat
    PROVE  Recent(log, now) \in Requests
<1>1. IsFiniteSet(log) /\ log \in SUBSET (Nat \X Nat)
  BY DEF Requests
<1>2. IsFiniteSet(Recent(log, now))
  BY <1>1, FS_Subset DEF Recent
<1> QED
  BY <1>1, <1>2 DEF Recent, Requests

LEMMA AnsweredType ==
    ASSUME NEW s \in KeyState, NEW now \in Nat
    PROVE  Answered(s, now) \in KeyState
<1>1. Logged(s.request_log, now) \in Requests
  BY LoggedType DEF KeyState
<1>2. 0 \in 0..MaxStrikes /\ 0 \in 0..RefusalsBeforeRetiring
  BY KeyMemoryAssumption DEF KeyMemoryAssumption
<1> QED
  BY <1>1, <1>2 DEF Answered, KeyState

LEMMA ChosenType ==
    ASSUME NEW s \in KeyState, NEW now \in Nat
    PROVE  Chosen(s, now) \in KeyState
<1>1. Logged(s.request_log, now) \in Requests
  BY LoggedType DEF KeyState
<1> QED
  BY <1>1 DEF Chosen, KeyState

LEMMA BlamedType ==
    ASSUME NEW s \in KeyState, NEW f \in Refusal
    PROVE  /\ Blamed(s, f) \in KeyState
           /\ Blamed(s, f).sick_until = s.sick_until
           /\ Blamed(s, f).non_server_until = s.non_server_until
           /\ Blamed(s, f).stated_server_until = s.stated_server_until
<1>1. Strike(s.consecutive_refusals, RefusalsBeforeRetiring) \in 0..RefusalsBeforeRetiring
  BY StrikeType, KeyMemoryAssumption DEF KeyMemoryAssumption, KeyState
<1>2. 0 \in 0..RefusalsBeforeRetiring
  BY KeyMemoryAssumption DEF KeyMemoryAssumption
<1> QED
  BY <1>1, <1>2 DEF Blamed, KeyState

LEMMA CountedType ==
    ASSUME NEW s \in KeyState, NEW f \in Refusal, NEW c \in Nat
    PROVE  /\ Counted(s, f, c) \in KeyState
           /\ Counted(s, f, c).sick_until = s.sick_until
           /\ Counted(s, f, c).non_server_until = s.non_server_until
           /\ Counted(s, f, c).stated_server_until = s.stated_server_until
<1>1. \A n \in 0..MaxStrikes : Strike(n, MaxStrikes) \in 0..MaxStrikes
  BY StrikeType, KeyMemoryAssumption DEF KeyMemoryAssumption
<1>2. 0 \in 0..MaxStrikes
  BY KeyMemoryAssumption DEF KeyMemoryAssumption
<1> QED
  BY <1>1, <1>2 DEF Counted, KeyState

\* Whatever the ladders compute, the rest applied is a number the dial bounds.
LEMMA RestBounded ==
    ASSUME NEW s \in KeyState, NEW f \in Refusal, NEW c \in Nat,
           NEW poolAlive \in BOOLEAN, NEW maxHold \in Nat
    PROVE  /\ Rest(s, f, c, poolAlive, maxHold) \in Nat
           /\ Rest(s, f, c, poolAlive, maxHold) <= maxHold
<1> USE KeyMemoryAssumption DEF KeyMemoryAssumption
<1>1. f.delay \in Nat
  BY DEF Refusal
<1>2. \A base, strikes : \A cap \in Nat : Doubled(base, strikes, cap) \in Nat
  BY DEF Doubled
<1>3. DailyRest(f, poolAlive) \in Nat
  BY <1>1 DEF DailyRest, Later, Earlier
<1>4. RejectedRest(s, f) \in Nat
  <2>1. Doubled(DailyBase, s.consecutive_rl, Earlier(DailyCooldown, HardCap)) \in Nat
    BY <1>2 DEF Earlier
  <2> QED
    BY <1>1, <2>1 DEF RejectedRest, Later, Earlier
<1>5. ThrottleRest(s, f, c, maxHold) \in Nat
  <2>1. Later(1, Earlier(maxHold, UnsizedBackoffMax)) \in Nat
    BY DEF Later, Earlier
  <2>2. Doubled(1, s.consecutive_unsized_throttle,
                Later(1, Earlier(maxHold, UnsizedBackoffMax))) \in Nat
    BY <1>2, <2>1
  <2> QED
    BY <1>1, <2>2 DEF ThrottleRest, Later, Earlier
<1>6. ServerRest(f) \in Nat
  BY <1>1 DEF ServerRest, Later, Earlier
<1>7. Later(f.delay, DailyCooldown) \in Nat
  BY <1>1 DEF Later
<1> DEFINE sized == CASE f.kind = "insufficient_quota" -> Later(f.delay, DailyCooldown)
                      [] f.kind = "daily"              -> DailyRest(f, poolAlive)
                      [] f.kind \in RejectedKinds      -> RejectedRest(s, f)
                      [] f.kind \in Throttles          -> ThrottleRest(s, f, c, maxHold)
                      [] f.kind = "server"             -> ServerRest(f)
                      [] OTHER                         -> f.delay
<1>8. sized \in Nat
  <2> HIDE <1>1
  <2>1. CASE f.kind = "insufficient_quota"
    BY <2>1, <1>7 DEF RejectedKinds, Throttles
  <2>2. CASE f.kind = "daily"
    BY <2>2, <1>3 DEF RejectedKinds, Throttles
  <2>3. CASE f.kind \in RejectedKinds
    BY <2>3, <1>4 DEF RejectedKinds, Throttles
  <2>4. CASE f.kind \in Throttles
    BY <2>4, <1>5 DEF RejectedKinds, Throttles
  <2>5. CASE f.kind = "server"
    BY <2>5, <1>6 DEF RejectedKinds, Throttles
  <2>6. CASE /\ f.kind \notin {"insufficient_quota", "daily", "server"}
             /\ f.kind \notin RejectedKinds /\ f.kind \notin Throttles
    BY <2>6, <1>1
  <2> QED
    BY <2>1, <2>2, <2>3, <2>4, <2>5, <2>6
<1>9. Rest(s, f, c, poolAlive, maxHold) = Earlier(sized, Earlier(HardCap, maxHold))
  BY DEF Rest
<1> HIDE DEF sized
<1> QED
  BY <1>8, <1>9 DEF Earlier

LEMMA HeldType ==
    ASSUME NEW s \in KeyState, NEW f \in Refusal, NEW rest \in Nat,
           NEW now \in Nat, NEW maxHold \in Nat
    PROVE  LET until == Earlier(Later(s.sick_until, now + rest), now + maxHold)
           IN  /\ Held(s, f, rest, now, maxHold) \in KeyState
               /\ until \in Nat
               /\ Held(s, f, rest, now, maxHold).sick_until = until
               /\ Held(s, f, rest, now, maxHold).non_server_until >= s.non_server_until
               /\ Held(s, f, rest, now, maxHold).stated_server_until >= s.stated_server_until
               /\ f.kind # "server" =>
                    Held(s, f, rest, now, maxHold).non_server_until >= until
               /\ f.kind = "server" /\ f.stated /\ f.delay > 0 =>
                    Held(s, f, rest, now, maxHold).stated_server_until >= until
<1> DEFINE until == Earlier(Later(s.sick_until, now + rest), now + maxHold)
<1>1. until \in Nat
  <2>1. s.sick_until \in Nat
    BY DEF KeyState
  <2>2. Later(s.sick_until, now + rest) \in Nat
    BY <2>1 DEF Later
  <2> QED
    BY <2>2 DEF Earlier
<1>2. f.kind \in Kinds /\ f.stated \in BOOLEAN /\ f.delay \in Nat
  BY DEF Refusal
<1>3. /\ Later(s.non_server_until, until) \in Nat
      /\ Later(s.non_server_until, until) >= until
      /\ Later(s.non_server_until, until) >= s.non_server_until
      /\ Later(s.stated_server_until, until) \in Nat
      /\ Later(s.stated_server_until, until) >= until
      /\ Later(s.stated_server_until, until) >= s.stated_server_until
  <2> s.non_server_until \in Nat /\ s.stated_server_until \in Nat
    BY DEF KeyState
  <2> HIDE DEF until
  <2> QED
    BY <1>1 DEF Later
<1>4. Held(s, f, rest, now, maxHold) =
        [s EXCEPT !.sick_until = until, !.kind = f.kind,
                  !.non_server_until =
                      IF f.kind # "server" THEN Later(s.non_server_until, until)
                      ELSE s.non_server_until,
                  !.stated_server_until =
                      IF f.kind = "server" /\ f.stated /\ f.delay > 0
                      THEN Later(s.stated_server_until, until)
                      ELSE s.stated_server_until]
  BY DEF Held
<1> HIDE DEF until
<1>5. Held(s, f, rest, now, maxHold) \in KeyState
  BY <1>1, <1>2, <1>3, <1>4 DEF KeyState
<1>6. /\ Held(s, f, rest, now, maxHold).sick_until = until
      /\ Held(s, f, rest, now, maxHold).non_server_until =
            IF f.kind # "server" THEN Later(s.non_server_until, until)
                                 ELSE s.non_server_until
      /\ Held(s, f, rest, now, maxHold).stated_server_until =
            IF f.kind = "server" /\ f.stated /\ f.delay > 0
            THEN Later(s.stated_server_until, until) ELSE s.stated_server_until
  BY <1>4 DEF KeyState
<1>7. s.non_server_until \in Nat /\ s.stated_server_until \in Nat
  BY DEF KeyState
<1> QED
  BY <1>1, <1>3, <1>5, <1>6, <1>7 DEF until
-----------------------------------------------------------------------------
\* ---- Type correctness ----

LEMMA StateType ==
    ASSUME TypeOK, NEW m \in Models, NEW k \in Keys
    PROVE  State(m, k) \in KeyState
BY FreshType DEF TypeOK, State

LEMMA MemoryType ==
    ASSUME TypeOK, NEW m \in Models, NEW k \in Keys
    PROVE  /\ memory[m][k] \in KeyState /\ memory[m][k].sick_until \in Nat
           /\ memory[m][k].non_server_until \in Nat
           /\ memory[m][k].stated_server_until \in Nat
           /\ owed[m][k] \in Nat /\ owedAccount[k] \in Nat /\ accountHold[k] \in Nat
<1>1. memory[m][k] \in KeyState
  <2>1. memory \in [Models -> [Keys -> KeyState]]
    BY DEF TypeOK
  <2> QED
    BY <2>1
<1>2. owed[m][k] \in Nat
  BY DEF TypeOK
<1>3. owedAccount[k] \in Nat /\ accountHold[k] \in Nat
  BY DEF TypeOK
<1> QED
  BY <1>1, <1>2, <1>3 DEF KeyState

LEMMA TrimmedType ==
    ASSUME TypeOK, NEW until \in Nat
    PROVE  Trimmed(until) \in Nat
<1>1. max_hold \in Nat /\ clock \in Nat
  BY CarouselAssumption DEF CarouselAssumption, TypeOK
<1> QED
  BY <1>1 DEF Trimmed, Earlier

\* One refusal leaves a well-typed key, and a rest within the dial.
LEMMA RefusedType ==
    ASSUME TypeOK, NEW m \in Models, NEW k \in Keys, NEW refusal \in Refusal,
           NEW poolAlive \in BOOLEAN
    PROVE  LET learned == Taught(ceiling[m][k], refusal)
               f       == Renamed(refusal, named[m][k])
               counted == Counted(Blamed(State(m, k), refusal), f, learned)
               rest    == Rest(counted, f, learned, poolAlive, max_hold)
           IN  /\ learned \in Nat /\ f \in Refusal
               /\ counted \in KeyState
               /\ counted.sick_until = State(m, k).sick_until
               /\ counted.non_server_until = State(m, k).non_server_until
               /\ counted.stated_server_until = State(m, k).stated_server_until
               /\ rest \in Nat /\ rest <= max_hold
               /\ Held(counted, f, rest, clock, max_hold) \in KeyState
<1> DEFINE learned == Taught(ceiling[m][k], refusal)
           f       == Renamed(refusal, named[m][k])
           blamed  == Blamed(State(m, k), refusal)
           counted == Counted(blamed, f, learned)
           rest    == Rest(counted, f, learned, poolAlive, max_hold)
<1>1. learned \in Nat
  <2>1. ceiling[m][k] \in Nat /\ refusal.delay \in Nat
    BY DEF TypeOK, Refusal
  <2> QED
    BY <2>1 DEF Taught, Later
<1>2. f \in Refusal
  <2>1. NamedWindow \subseteq Kinds
    BY DEF Kinds
  <2>2. named[m][k] \in NamedWindow => [refusal EXCEPT !.kind = named[m][k]] \in Refusal
    BY <2>1 DEF Refusal
  <2> QED
    BY <2>2 DEF Renamed
<1>3. /\ blamed \in KeyState
      /\ blamed.sick_until = State(m, k).sick_until
      /\ blamed.non_server_until = State(m, k).non_server_until
      /\ blamed.stated_server_until = State(m, k).stated_server_until
  BY StateType, BlamedType
<1> HIDE DEF learned, f, blamed
<1>4. /\ counted \in KeyState
      /\ counted.sick_until = State(m, k).sick_until
      /\ counted.non_server_until = State(m, k).non_server_until
      /\ counted.stated_server_until = State(m, k).stated_server_until
  BY <1>1, <1>2, <1>3, CountedType
<1> HIDE DEF counted
<1>5. max_hold \in Nat /\ clock \in Nat
  BY CarouselAssumption DEF CarouselAssumption, TypeOK
<1>6. rest \in Nat /\ rest <= max_hold
  BY <1>1, <1>2, <1>4, <1>5, RestBounded
<1> HIDE DEF rest
<1>7. Held(counted, f, rest, clock, max_hold) \in KeyState
  BY <1>2, <1>4, <1>5, <1>6, HeldType
<1> QED
  BY <1>1, <1>2, <1>4, <1>6, <1>7 DEF learned, f, blamed, counted, rest

\* The pool select leaves behind is well typed, and holds every key it keeps at
\* least as long as the trim allows.
LEMMA MirroredType ==
    ASSUME TypeOK, NEW m \in Models, NEW usable \in SUBSET Keys
    PROVE  Mirrored(m, usable) \in [Keys -> KeyState]
<1>1. clock \in Nat /\ memory[m] \in [Keys -> KeyState]
  BY DEF TypeOK
<1>2. ASSUME NEW k \in Keys
      PROVE  [State(m, k) EXCEPT !.last_offered = clock,
                                 !.request_log = Recent(State(m, k).request_log, clock),
                                 !.sick_until = Trimmed(State(m, k).sick_until)] \in KeyState
  <2> DEFINE s == State(m, k)
  <2>1. s \in KeyState
    BY StateType
  <2> HIDE DEF s
  <2>2. Recent(s.request_log, clock) \in Requests
    BY <1>1, <2>1, RecentType DEF KeyState
  <2>3. Trimmed(s.sick_until) \in Nat
    BY <2>1, TrimmedType DEF KeyState
  <2>4. [s EXCEPT !.last_offered = clock, !.request_log = Recent(s.request_log, clock),
                  !.sick_until = Trimmed(s.sick_until)] \in KeyState
    BY <1>1, <2>1, <2>2, <2>3 DEF KeyState
  <2> QED
    BY <2>4 DEF s
<1>3. Fresh(0) \in KeyState
  BY FreshType
<1> QED
  BY <1>1, <1>2, <1>3 DEF Mirrored

THEOREM TypeInitial == Init => TypeOK
<1> SUFFICES ASSUME Init PROVE TypeOK
  OBVIOUS
<1>1. Fresh(0) \in KeyState
  BY FreshType
<1>2. restoring \in [Models -> Resets]
  BY DEF Init, NotReset, Resets
<1> QED
  BY <1>1, <1>2, CarouselAssumption DEF Init, TypeOK, NoTime, CarouselAssumption

LEMMA TypeSelect ==
    ASSUME TypeOK, NEW m \in Models, NEW usable \in SUBSET Keys, NEW spread,
           Select(m, usable, spread)
    PROVE  TypeOK'
<1> DEFINE pool == Mirrored(m, usable)
           kept == (known[m] \cup usable) \ Removed(m, usable)
<1>1. pool \in [Keys -> KeyState]
  BY MirroredType
<1>2. kept \in SUBSET Keys
  BY DEF TypeOK
<1>3. clock \in Nat
  BY DEF TypeOK
<1>4. \A k \in Keys : Chosen(pool[k], clock) \in KeyState
  BY <1>1, <1>3, ChosenType
<1> HIDE DEF pool
<1>5. memory' \in [Models -> [Keys -> KeyState]]
  <2>1. memory' = [memory EXCEPT ![m] = pool]
        \/ \E k \in Keys : memory' = [memory EXCEPT ![m] =
                              [pool EXCEPT ![k] = Chosen(pool[k], clock)]]
    BY DEF Select, Ranked, Least, Standing, pool
  <2>2. CASE memory' = [memory EXCEPT ![m] = pool]
    BY <1>1, <2>2 DEF TypeOK
  <2>3. ASSUME NEW k \in Keys,
               memory' = [memory EXCEPT ![m] = [pool EXCEPT ![k] = Chosen(pool[k], clock)]]
        PROVE  memory' \in [Models -> [Keys -> KeyState]]
    <3>1. [pool EXCEPT ![k] = Chosen(pool[k], clock)] \in [Keys -> KeyState]
      BY <1>1, <1>4
    <3> QED
      BY <2>3, <3>1 DEF TypeOK
  <2> QED
    BY <2>1, <2>2, <2>3
<1>6. accountHold' \in [Keys -> Nat]
  <2>1. \A k \in Keys : Trimmed(accountHold[k]) \in Nat /\ accountHold[k] \in Nat
    BY TrimmedType DEF TypeOK
  <2> QED
    BY <2>1 DEF Select
<1>7. /\ known' = [known EXCEPT ![m] = kept]
      /\ ceiling' = [ceiling EXCEPT ![m] = [k \in Keys |-> IF k \in kept THEN ceiling[m][k] ELSE 0]]
      /\ named' = [named EXCEPT ![m] = [k \in Keys |-> IF k \in kept THEN named[m][k] ELSE ""]]
      /\ owed' = [owed EXCEPT ![m] = [k \in Keys |-> IF k \in kept THEN owed[m][k] ELSE 0]]
  BY DEF Select
<1> HIDE DEF kept
<1>8. known' \in [Models -> SUBSET Keys]
  BY <1>2, <1>7 DEF TypeOK
<1>9. ceiling' \in [Models -> [Keys -> Nat]] /\ owed' \in [Models -> [Keys -> Nat]]
  BY <1>7 DEF TypeOK
<1>10. named' \in [Models -> [Keys -> NamedWindow \cup {""}]]
  BY <1>7 DEF TypeOK
<1>11. calls' \in Nat
  <2>1. calls' = calls + 1
    BY DEF Select, Called
  <2>2. calls \in Nat
    BY DEF TypeOK
  <2> QED
    BY <2>1, <2>2
<1>12. UNCHANGED <<clock, clockSteps, max_hold, noAnswerSince, restoring,
                   owedAccount, lastAnswer>>
  BY DEF Select
<1> QED
  BY <1>5, <1>6, <1>8, <1>9, <1>10, <1>11, <1>12 DEF TypeOK

LEMMA TypeMarkAnswered ==
    ASSUME TypeOK, NEW m \in Models, NEW k \in Keys, MarkAnswered(m, k)
    PROVE  TypeOK'
<1>1. Answered(State(m, k), clock) \in KeyState
  BY StateType, AnsweredType DEF TypeOK
<1>2. known' \in [Models -> SUBSET Keys]
  BY DEF MarkAnswered, TypeOK
<1>3. memory' \in [Models -> [Keys -> KeyState]]
  BY <1>1 DEF MarkAnswered, TypeOK
<1>4. ceiling' \in [Models -> [Keys -> Nat]] /\ owed' \in [Models -> [Keys -> Nat]]
  BY DEF MarkAnswered, TypeOK
<1>5. named' \in [Models -> [Keys -> NamedWindow \cup {""}]]
  BY DEF MarkAnswered, TypeOK
<1>6. noAnswerSince' \in [Models -> Nat \cup {NoTime}]
  BY DEF MarkAnswered, TypeOK
<1>7. accountHold' \in [Keys -> Nat] /\ owedAccount' \in [Keys -> Nat]
  BY DEF MarkAnswered, TypeOK
<1>8. lastAnswer' \in [Models -> Nat]
  BY DEF MarkAnswered, TypeOK
<1>9. calls' \in Nat
  <2>1. calls' = calls + 1 /\ calls \in Nat
    BY DEF MarkAnswered, Called, TypeOK
  <2> QED
    BY <2>1
<1>10. UNCHANGED <<clock, clockSteps, max_hold, restoring>>
  BY DEF MarkAnswered
<1> QED
  BY <1>2, <1>3, <1>4, <1>5, <1>6, <1>7, <1>8, <1>9, <1>10 DEF TypeOK

LEMMA TypeMarkRefused ==
    ASSUME TypeOK, NEW m \in Models, NEW k \in Keys, NEW refusal \in Refusals,
           MarkRefused(m, k, refusal)
    PROVE  TypeOK'
<1> DEFINE learned   == Taught(ceiling[m][k], refusal)
           f         == Renamed(refusal, named[m][k])
           since     == SilentSince(m, f)
           poolAlive == f.kind = "daily" => clock - since < PoolSilence
           counted   == Counted(Blamed(State(m, k), refusal), f, learned)
           rest      == Rest(counted, f, learned, poolAlive, max_hold)
           after     == Held(counted, f, rest, clock, max_hold)
<1>1. refusal \in Refusal
  BY CarouselAssumption DEF CarouselAssumption
<1>2. learned \in Nat /\ rest \in Nat /\ after \in KeyState
  <2> HIDE DEF poolAlive
  <2>1. poolAlive \in BOOLEAN
    BY DEF poolAlive
  <2> QED
    BY <1>1, <2>1, RefusedType
<1>3. since \in Nat \cup {NoTime}
  BY DEF SilentSince, TypeOK
<1>4. /\ Called
      /\ known' = [known EXCEPT ![m] = @ \cup {k}]
      /\ memory' = [memory EXCEPT ![m][k] = after]
      /\ ceiling' = [ceiling EXCEPT ![m][k] = learned]
      /\ named' = IF refusal.kind \in NamedWindow
                  THEN [named EXCEPT ![m][k] = refusal.kind] ELSE named
      /\ noAnswerSince' = [noAnswerSince EXCEPT ![m] = since]
      /\ \/ accountHold' = [accountHold EXCEPT ![k] = AccountHeld(k, after.sick_until)]
         \/ accountHold' = accountHold
      /\ owed' = [owed EXCEPT ![m][k] = Later(owed[m][k], clock + rest)] \/ owed' = owed
      /\ \/ owedAccount' = [owedAccount EXCEPT ![k] = Later(owedAccount[k], clock + rest)]
         \/ owedAccount' = owedAccount
      /\ UNCHANGED <<clock, clockSteps, max_hold, restoring, lastAnswer>>
  BY DEF MarkRefused
<1> HIDE DEF learned, f, since, poolAlive, counted, rest, after
<1>5. known' \in [Models -> SUBSET Keys]
  BY <1>4 DEF TypeOK
<1>6. memory' \in [Models -> [Keys -> KeyState]]
  BY <1>2, <1>4 DEF TypeOK
<1>7. ceiling' \in [Models -> [Keys -> Nat]]
  BY <1>2, <1>4 DEF TypeOK
<1>8. named' \in [Models -> [Keys -> NamedWindow \cup {""}]]
  BY <1>4 DEF TypeOK
<1>9. noAnswerSince' \in [Models -> Nat \cup {NoTime}]
  BY <1>3, <1>4 DEF TypeOK
<1>10. accountHold' \in [Keys -> Nat]
  <2>1. accountHold \in [Keys -> Nat]
    BY DEF TypeOK
  <2>2. after.sick_until \in Nat
    BY <1>2 DEF KeyState
  <2>3. Later(accountHold[k], after.sick_until) \in Nat
    BY <2>1, <2>2 DEF Later
  <2>4. Trimmed(Later(accountHold[k], after.sick_until)) \in Nat
    BY <2>3, TrimmedType
  <2>5. AccountHeld(k, after.sick_until) \in Nat
    BY <2>4 DEF AccountHeld
  <2> QED
    BY <1>4, <2>1, <2>5
<1>11. owed' \in [Models -> [Keys -> Nat]]
  <2>1. owed \in [Models -> [Keys -> Nat]] /\ clock \in Nat
    BY DEF TypeOK
  <2>2. Later(owed[m][k], clock + rest) \in Nat
    BY <1>2, <2>1 DEF Later
  <2> QED
    BY <1>4, <2>1, <2>2
<1>12. owedAccount' \in [Keys -> Nat]
  <2>1. owedAccount \in [Keys -> Nat] /\ clock \in Nat
    BY DEF TypeOK
  <2>2. Later(owedAccount[k], clock + rest) \in Nat
    BY <1>2, <2>1 DEF Later
  <2> QED
    BY <1>4, <2>1, <2>2
<1>13. calls' \in Nat
  <2>1. calls' = calls + 1 /\ calls \in Nat
    BY <1>4 DEF Called, TypeOK
  <2> QED
    BY <2>1
<1>14. UNCHANGED <<clock, clockSteps, max_hold, restoring, lastAnswer>>
  BY <1>4
<1> QED
  BY <1>5, <1>6, <1>7, <1>8, <1>9, <1>10, <1>11, <1>12, <1>13, <1>14 DEF TypeOK

LEMMA TypeConsult ==
    ASSUME TypeOK, NEW m \in Models, NEW usable \in SUBSET Keys, Consult(m, usable)
    PROVE  TypeOK'
<1>1. \A k \in Keys : /\ memory[m][k] \in KeyState /\ accountHold[k] \in Nat
                      /\ Trimmed(accountHold[k]) \in Nat
                      /\ Trimmed(memory[m][k].sick_until) \in Nat
  <2> TAKE k \in Keys
  <2> QED
    BY MemoryType, TrimmedType
<1>2. \A k \in Keys : [memory[m][k] EXCEPT !.sick_until = Trimmed(memory[m][k].sick_until)]
                         \in KeyState
  BY <1>1 DEF KeyState
<1>3. memory' \in [Models -> [Keys -> KeyState]]
  <2>1. \E kept \in [Keys -> KeyState] : memory' = [memory EXCEPT ![m] = kept]
    BY <1>1, <1>2 DEF Consult, TrimRead
  <2> QED
    BY <2>1 DEF TypeOK
<1>4. accountHold' \in [Keys -> Nat]
  BY <1>1 DEF Consult, TrimRead
<1>5. calls' \in Nat
  <2>1. calls' = calls + 1 /\ calls \in Nat
    BY DEF Consult, Called, TypeOK
  <2> QED
    BY <2>1
<1>6. UNCHANGED <<clock, clockSteps, max_hold, known, ceiling, named, noAnswerSince,
                  restoring, history>>
  BY DEF Consult
<1> QED
  BY <1>3, <1>4, <1>5, <1>6 DEF TypeOK, history

LEMMA ThawTargetType ==
    ASSUME TypeOK, NEW s \in KeyState, NEW fan \in Nat
    PROVE  ThawTarget(s, fan) \in Nat
<1>1. s.non_server_until \in Nat /\ s.stated_server_until \in Nat
  BY DEF KeyState
<1>2. clock \in Nat
  BY DEF TypeOK
<1>3. ThawBase \in Nat
  BY CarouselAssumption DEF CarouselAssumption
<1>4. clock + ThawBase + fan \in Nat
  BY <1>2, <1>3
<1> QED
  BY <1>1, <1>4 DEF ThawTarget, Later

LEMMA TypeThaw ==
    ASSUME TypeOK, NEW m \in Models, NEW except, NEW fan \in [Keys -> 0..ThawFan],
           Thaw(m, except, fan)
    PROVE  TypeOK'
<1>1. \A k \in Keys : memory[m][k] \in KeyState /\ fan[k] \in Nat
  <2> TAKE k \in Keys
  <2>1. memory[m][k] \in KeyState
    BY MemoryType
  <2>2. fan[k] \in 0..ThawFan
    OBVIOUS
  <2>3. ThawFan \in Nat
    BY CarouselAssumption DEF CarouselAssumption
  <2>4. fan[k] \in Nat
    BY <2>2, <2>3
  <2> QED
    BY <2>1, <2>4
<1>2. \A k \in Keys : ThawTarget(memory[m][k], fan[k]) \in Nat
  BY <1>1, ThawTargetType
<1>3. \A k \in Keys : [memory[m][k] EXCEPT !.sick_until = ThawTarget(memory[m][k], fan[k])]
                         \in KeyState
  BY <1>1, <1>2 DEF KeyState
<1>4. memory' \in [Models -> [Keys -> KeyState]]
  <2>1. \E kept \in [Keys -> KeyState] : memory' = [memory EXCEPT ![m] = kept]
    BY <1>1, <1>3 DEF Thaw
  <2> QED
    BY <2>1 DEF TypeOK
<1>5. calls' \in Nat
  <2>1. calls' = calls + 1 /\ calls \in Nat
    BY DEF Thaw, Called, TypeOK
  <2> QED
    BY <2>1
<1>6. UNCHANGED <<clock, clockSteps, max_hold, known, ceiling, named, noAnswerSince,
                  accountHold, restoring, history>>
  BY DEF Thaw
<1> QED
  BY <1>4, <1>5, <1>6 DEF TypeOK, history

LEMMA TypeForgotten ==
    ASSUME TypeOK, NEW m \in Models, Forgotten(m)
    PROVE  /\ known' \in [Models -> SUBSET Keys]
           /\ memory' \in [Models -> [Keys -> KeyState]]
           /\ ceiling' \in [Models -> [Keys -> Nat]]
           /\ named' \in [Models -> [Keys -> NamedWindow \cup {""}]]
           /\ noAnswerSince' \in [Models -> Nat \cup {NoTime}]
           /\ owed' \in [Models -> [Keys -> Nat]]
<1>1. Fresh(0) \in KeyState
  BY FreshType
<1>2. memory' \in [Models -> [Keys -> KeyState]]
  BY <1>1 DEF Forgotten, TypeOK
<1>3. ceiling' \in [Models -> [Keys -> Nat]] /\ owed' \in [Models -> [Keys -> Nat]]
  BY DEF Forgotten, TypeOK
<1>4. named' \in [Models -> [Keys -> NamedWindow \cup {""}]]
  BY DEF Forgotten, TypeOK
<1>5. known' \in [Models -> SUBSET Keys]
  BY DEF Forgotten, TypeOK
<1>6. noAnswerSince' \in [Models -> Nat \cup {NoTime}]
  BY DEF Forgotten, TypeOK
<1> QED
  BY <1>2, <1>3, <1>4, <1>5, <1>6

LEMMA TypeReset ==
    ASSUME TypeOK,
           \/ \E m \in Models : ResetPoolRead(m) \/ ResetPoolForget(m) \/ ResetPoolRestore(m)
           \/ ResetAll
    PROVE  TypeOK'
<1>1. Fresh(0) \in KeyState /\ Fresh(clock) \in KeyState
  BY FreshType DEF TypeOK
<1>2. ASSUME NEW m \in Models, ResetPoolForget(m)
      PROVE  TypeOK'
  <2>1. Forgotten(m)
    BY <1>2 DEF ResetPoolForget
  <2>2. restoring' \in [Models -> Resets]
    <3>1. restoring \in [Models -> Resets]
      BY DEF TypeOK
    <3> QED
      BY <1>2, <3>1 DEF ResetPoolForget, Resets
  <2>3. UNCHANGED <<clock, clockSteps, max_hold, accountHold, calls, owedAccount, lastAnswer>>
    BY <1>2 DEF ResetPoolForget
  <2> QED
    BY <2>1, <2>2, <2>3, TypeForgotten DEF TypeOK
<1>3. ASSUME NEW m \in Models, ResetPoolRestore(m)
      PROVE  TypeOK'
  <2>1. /\ known' \in [Models -> SUBSET Keys]
        /\ restoring' \in [Models -> Resets]
    <3>1. restoring \in [Models -> Resets]
      BY DEF TypeOK
    <3>2. restoring[m].keys \subseteq Keys
      BY <3>1 DEF Resets
    <3>3. NotReset \in Resets
      BY DEF NotReset, Resets
    <3> QED
      BY <1>3, <3>1, <3>2, <3>3 DEF ResetPoolRestore, TypeOK
  <2>2. memory' \in [Models -> [Keys -> KeyState]]
    <3>1. \E kept \in [Keys -> KeyState] : memory' = [memory EXCEPT ![m] = kept]
      BY <1>1, <1>3 DEF ResetPoolRestore
    <3> QED
      BY <3>1 DEF TypeOK
  <2>3. owed' \in [Models -> [Keys -> Nat]]
    BY <1>3 DEF ResetPoolRestore, TypeOK
  <2>4. UNCHANGED <<clock, clockSteps, max_hold, ceiling, named, noAnswerSince,
                    accountHold, calls, owedAccount, lastAnswer>>
    BY <1>3 DEF ResetPoolRestore
  <2> QED
    BY <2>1, <2>2, <2>3, <2>4 DEF TypeOK
<1>4. ASSUME ResetAll
      PROVE  TypeOK'
  <2>1. /\ known' \in [Models -> SUBSET Keys]
        /\ memory' \in [Models -> [Keys -> KeyState]]
        /\ ceiling' \in [Models -> [Keys -> Nat]]
        /\ named' \in [Models -> [Keys -> NamedWindow \cup {""}]]
        /\ noAnswerSince' \in [Models -> Nat \cup {NoTime}]
        /\ accountHold' \in [Keys -> Nat] /\ owedAccount' \in [Keys -> Nat]
        /\ owed' \in [Models -> [Keys -> Nat]]
    BY <1>1, <1>4 DEF ResetAll
  <2>2. calls' \in Nat
    <3>1. calls' = calls + 1 /\ calls \in Nat
      BY <1>4 DEF ResetAll, Called, TypeOK
    <3> QED
      BY <3>1
  <2>3. UNCHANGED <<clock, clockSteps, max_hold, restoring, lastAnswer>>
    BY <1>4 DEF ResetAll
  <2> QED
    BY <2>1, <2>2, <2>3 DEF TypeOK
<1>5. ASSUME NEW m \in Models, ResetPoolRead(m)
      PROVE  TypeOK'
  <2>1. restoring' \in [Models -> Resets]
    <3>1. restoring \in [Models -> Resets] /\ known[m] \subseteq Keys
      BY DEF TypeOK
    <3>2. [stage |-> "read", keys |-> known[m]] \in Resets
      BY <3>1 DEF Resets
    <3> QED
      BY <1>5, <3>1, <3>2 DEF ResetPoolRead
  <2>2. calls' \in Nat
    <3>1. calls' = calls + 1 /\ calls \in Nat
      BY <1>5 DEF ResetPoolRead, Called, TypeOK
    <3> QED
      BY <3>1
  <2>3. UNCHANGED <<clock, clockSteps, max_hold, pools, accountHold, history>>
    BY <1>5 DEF ResetPoolRead
  <2> QED
    BY <2>1, <2>2, <2>3 DEF TypeOK, pools, history
<1> QED
  BY <1>2, <1>3, <1>4, <1>5

LEMMA OwedAtMostType ==
    ASSUME TypeOK, NEW limit \in Nat, OwedAtMost(limit)
    PROVE  owed' \in [Models -> [Keys -> Nat]] /\ owedAccount' \in [Keys -> Nat]
<1>1. \A n \in Nat : Earlier(n, limit) \in Nat
  BY DEF Earlier
<1>2. owed \in [Models -> [Keys -> Nat]] /\ owedAccount \in [Keys -> Nat]
  BY DEF TypeOK
<1> QED
  BY <1>1, <1>2 DEF OwedAtMost

LEMMA TypeEnvironment ==
    ASSUME TypeOK,
           \/ \E seconds \in Dials : TurnDial(seconds)
           \/ Tick
           \/ \E to \in Start..MaxTime : StepBack(to)
    PROVE  TypeOK'
<1>1. clock \in Nat /\ max_hold \in Nat /\ calls \in Nat /\ clockSteps \in Nat
  BY CarouselAssumption DEF CarouselAssumption, TypeOK
<1>2. ASSUME NEW seconds \in Dials, TurnDial(seconds)
      PROVE  TypeOK'
  <2>1. clock + seconds \in Nat
    BY <1>1, CarouselAssumption DEF CarouselAssumption
  <2>2. owed' \in [Models -> [Keys -> Nat]] /\ owedAccount' \in [Keys -> Nat]
    BY <1>2, <2>1, OwedAtMostType DEF TurnDial
  <2>3. calls' \in Nat
    BY <1>1, <1>2 DEF TurnDial, Called
  <2>4. max_hold' \in Dials
        /\ UNCHANGED <<clock, clockSteps, pools, accountHold, restoring, lastAnswer>>
    BY <1>2 DEF TurnDial
  <2> QED
    BY <2>2, <2>3, <2>4 DEF TypeOK, pools
<1>3. ASSUME Tick
      PROVE  TypeOK'
  <2>1. clock' \in Nat
    BY <1>1, <1>3 DEF Tick
  <2>2. UNCHANGED <<clockSteps, max_hold, pools, accountHold, restoring, calls, history>>
    BY <1>3 DEF Tick
  <2> QED
    BY <2>1, <2>2 DEF TypeOK, pools, history
<1>4. ASSUME NEW to \in Start..MaxTime, StepBack(to)
      PROVE  TypeOK'
  <2>1. to \in Nat
    <3>1. Start \in Nat /\ MaxTime \in Nat
      BY CarouselAssumption DEF CarouselAssumption
    <3> QED
      BY <3>1
  <2>2. clock' \in Nat /\ clockSteps' \in Nat
    BY <1>1, <1>4, <2>1 DEF StepBack
  <2>3. owed' \in [Models -> [Keys -> Nat]] /\ owedAccount' \in [Keys -> Nat]
    <3>1. to + max_hold \in Nat
      BY <1>1, <2>1
    <3> QED
      BY <1>4, <3>1, OwedAtMostType DEF StepBack
  <2>4. lastAnswer' \in [Models -> Nat]
    <3>1. lastAnswer \in [Models -> Nat]
      BY DEF TypeOK
    <3>2. \A n \in Nat : Earlier(n, to) \in Nat
      BY <2>1 DEF Earlier
    <3> QED
      BY <1>4, <3>1, <3>2 DEF StepBack
  <2>5. UNCHANGED <<max_hold, pools, accountHold, restoring, calls>>
    BY <1>4 DEF StepBack
  <2> QED
    BY <2>2, <2>3, <2>4, <2>5 DEF TypeOK, pools
<1> QED
  BY <1>2, <1>3, <1>4

LEMMA TypeStep == TypeOK /\ [Next]_vars => TypeOK'
<1> SUFFICES ASSUME TypeOK, [Next]_vars PROVE TypeOK'
  OBVIOUS
<1>1. CASE \E m \in Models, usable \in SUBSET Keys, spread \in Spreads : Select(m, usable, spread)
  BY <1>1, TypeSelect
<1>2. CASE \E m \in Models, usable \in SUBSET Keys : Consult(m, usable)
  BY <1>2, TypeConsult
<1>3. CASE \E m \in Models, k \in Keys : MarkAnswered(m, k)
  BY <1>3, TypeMarkAnswered
<1>4. CASE \E m \in Models, k \in Keys, f \in Refusals : MarkRefused(m, k, f)
  BY <1>4, TypeMarkRefused
<1>5. CASE \E m \in Models, k \in Keys, fan \in [Keys -> 0..ThawFan] : Thaw(m, k, fan)
  BY <1>5, TypeThaw
<1>6. CASE \/ \E m \in Models : ResetPoolRead(m) \/ ResetPoolForget(m) \/ ResetPoolRestore(m)
           \/ ResetAll
  BY <1>6, TypeReset
<1>7. CASE \/ \E seconds \in Dials : TurnDial(seconds)
           \/ Tick
           \/ \E to \in Start..MaxTime : StepBack(to)
  BY <1>7, TypeEnvironment
<1>8. CASE UNCHANGED vars
  BY <1>8 DEF TypeOK, vars, pools, history
<1> QED
  BY <1>1, <1>2, <1>3, <1>4, <1>5, <1>6, <1>7, <1>8 DEF Next

\* Every variable keeps its type: no ladder, trim, thaw or reset can leave a
\* deadline, a counter or a strike outside its range.
THEOREM TypeCorrect == Spec => []TypeOK
<1>1. Init => TypeOK
  BY TypeInitial
<1>2. TypeOK /\ [Next]_vars => TypeOK'
  BY TypeStep
<1> QED
  BY <1>1, <1>2, PTL DEF Spec
-----------------------------------------------------------------------------
\* ---- No key is offered before its longest firm rest is over ----

LEMMA Times == ASSUME TypeOK PROVE clock \in Nat /\ max_hold \in Nat /\ calls \in Nat
BY CarouselAssumption DEF CarouselAssumption, TypeOK

LEMMA NotOffered == ASSUME offer' = NoOffer PROVE FirmRestHonoured'
BY DEF FirmRestHonoured, NoOffer

LEMMA CoveredUnchanged ==
    ASSUME TypeOK, OwedIsHeld, NEW m \in Models, NEW k \in Keys,
           known'[m] = known[m], memory'[m][k] = memory[m][k], owed'[m][k] = owed[m][k],
           clock' = clock, max_hold' = max_hold
    PROVE  Covered(m, k)'
BY DEF OwedIsHeld, Covered

LEMMA AccountUnchanged ==
    ASSUME TypeOK, OwedIsHeld, NEW k \in Keys,
           accountHold'[k] = accountHold[k], owedAccount'[k] = owedAccount[k],
           clock' = clock, max_hold' = max_hold
    PROVE  CoveredAccount(k)'
BY DEF OwedIsHeld, CoveredAccount

\* The state select and mark start from covers what is owed, also for a key the
\* pool does not hold yet.
LEMMA StateCovers ==
    ASSUME TypeOK, OwedIsHeld, NEW m \in Models, NEW k \in Keys
    PROVE  /\ State(m, k) \in KeyState
           /\ owed[m][k] \in Nat
           /\ owed[m][k] <= State(m, k).sick_until
           /\ owed[m][k] <= Later(State(m, k).non_server_until,
                                 State(m, k).stated_server_until)
           /\ owed[m][k] <= clock + max_hold
<1>1. Covered(m, k)
  BY DEF OwedIsHeld
<1>2. CASE k \in known[m]
  BY <1>1, <1>2, StateType, MemoryType DEF State, Covered
<1>3. CASE k \notin known[m]
  <2>1. owed[m][k] = 0
    BY <1>1, <1>3 DEF Covered
  <2>2. State(m, k) = Fresh(clock)
    BY <1>3 DEF State
  <2>3. clock + max_hold >= 0
    BY Times
  <2>4. /\ State(m, k).sick_until = 0 /\ State(m, k).non_server_until = 0
        /\ State(m, k).stated_server_until = 0
    <3>1. /\ Fresh(clock).sick_until = 0 /\ Fresh(clock).non_server_until = 0
          /\ Fresh(clock).stated_server_until = 0
      BY DEF Fresh
    <3> QED
      BY <2>2, <3>1
  <2>5. Later(0, 0) = 0
    BY DEF Later
  <2> QED
    BY <2>1, <2>3, <2>4, <2>5, StateType
<1> QED
  BY <1>2, <1>3

\* The trim on a read never takes away what is still owed.
LEMMA TrimmedCovers ==
    ASSUME TypeOK, NEW until \in Nat, NEW o \in Nat, o <= until, o <= clock + max_hold
    PROVE  o <= Trimmed(until) /\ Trimmed(until) \in Nat
BY Times DEF Trimmed, Earlier

LEMMA AccountCovers ==
    ASSUME TypeOK, OwedIsHeld, NEW k \in Keys
    PROVE  owedAccount[k] <= Trimmed(accountHold[k])
<1>1. CoveredAccount(k)
  BY DEF OwedIsHeld
<1> QED
  BY <1>1 DEF CoveredAccount, Trimmed

\* A healthy key owes nothing.
LEMMA HealthyOwesNothing ==
    ASSUME TypeOK, OwedIsHeld, NEW m \in Models, NEW k \in Keys, Healthy(m, k)
    PROVE  owed[m][k] <= clock /\ owedAccount[k] <= clock
<1>1. State(m, k).sick_until \in Nat
  BY StateCovers DEF KeyState
<1>2. owed[m][k] <= Trimmed(State(m, k).sick_until) /\ Trimmed(State(m, k).sick_until) \in Nat
  BY <1>1, StateCovers, TrimmedCovers
<1>3. owedAccount[k] <= Trimmed(accountHold[k]) /\ Trimmed(accountHold[k]) \in Nat
  BY AccountCovers, MemoryType, TrimmedType
<1>4. Trimmed(State(m, k).sick_until) <= clock /\ Trimmed(accountHold[k]) <= clock
  BY <1>2, <1>3, Times DEF Healthy, Deadline, Later
<1>5. owed[m][k] \in Nat /\ owedAccount[k] \in Nat /\ clock \in Nat
  BY MemoryType, Times
<1> QED
  BY <1>2, <1>3, <1>4, <1>5

\* A key nothing is owed to is covered by any well-typed memory.
LEMMA NothingOwed ==
    ASSUME TypeOK', NEW m \in Models, NEW k \in Keys, owed'[m][k] = 0
    PROVE  Covered(m, k)'
<1>1. memory'[m][k] \in KeyState
  <2>1. memory' \in [Models -> [Keys -> KeyState]]
    BY DEF TypeOK
  <2> QED
    BY <2>1
<1>2. \A s \in KeyState : /\ 0 <= s.sick_until
                          /\ 0 <= Later(s.non_server_until, s.stated_server_until)
  <2> TAKE s \in KeyState
  <2>1. /\ s.sick_until \in Nat /\ s.non_server_until \in Nat
        /\ s.stated_server_until \in Nat
    BY DEF KeyState
  <2>2. Later(s.non_server_until, s.stated_server_until) \in Nat
    BY <2>1, LaterEarlierNat
  <2> QED
    BY <2>1, <2>2
<1>3. 0 <= clock' + max_hold'
  <2>1. clock' \in Nat /\ max_hold' \in Nat
    BY CarouselAssumption DEF CarouselAssumption, TypeOK
  <2>2. \A a, b \in Nat : 0 <= a + b
    OBVIOUS
  <2> QED
    BY <2>1, <2>2
<1> QED
  BY <1>1, <1>2, <1>3 DEF Covered

LEMMA MirroredCovers ==
    ASSUME TypeOK, OwedIsHeld, NEW m \in Models, NEW usable \in SUBSET Keys,
           NEW k \in (known[m] \cup usable) \ Removed(m, usable)
    PROVE  /\ owed[m][k] <= Mirrored(m, usable)[k].sick_until
           /\ owed[m][k] <= Later(Mirrored(m, usable)[k].non_server_until,
                                 Mirrored(m, usable)[k].stated_server_until)
<1>1. k \in Keys
  BY DEF TypeOK
<1>2. CASE k \in usable
  <2> DEFINE s == State(m, k)
  <2>1. s \in KeyState /\ owed[m][k] \in Nat /\ owed[m][k] <= s.sick_until
        /\ owed[m][k] <= Later(s.non_server_until, s.stated_server_until)
        /\ owed[m][k] <= clock + max_hold
    BY <1>1, StateCovers
  <2>2. Mirrored(m, usable)[k] = [s EXCEPT !.last_offered = clock,
                                           !.request_log = Recent(s.request_log, clock),
                                           !.sick_until = Trimmed(s.sick_until)]
    BY <1>1, <1>2 DEF Mirrored
  <2> HIDE DEF s
  <2>3. /\ Mirrored(m, usable)[k].sick_until = Trimmed(s.sick_until)
        /\ Mirrored(m, usable)[k].non_server_until = s.non_server_until
        /\ Mirrored(m, usable)[k].stated_server_until = s.stated_server_until
    BY <2>1, <2>2 DEF KeyState
  <2>4. s.sick_until \in Nat
    BY <2>1 DEF KeyState
  <2>5. owed[m][k] <= Trimmed(s.sick_until)
    BY <2>1, <2>4, TrimmedCovers
  <2> QED
    BY <2>1, <2>3, <2>5
<1>3. CASE k \notin usable
  <2>1. Mirrored(m, usable)[k] = memory[m][k]
    BY <1>1, <1>3 DEF Mirrored
  <2>2. Covered(m, k)
    BY <1>1 DEF OwedIsHeld
  <2> QED
    BY <2>1, <2>2 DEF Covered
<1> QED
  BY <1>2, <1>3

LEMMA FirmSelect ==
    ASSUME TypeOK, TypeOK', OwedIsHeld, NEW m \in Models, NEW usable \in SUBSET Keys,
           NEW spread, Select(m, usable, spread)
    PROVE  OwedIsHeld' /\ FirmRestHonoured'
<1> DEFINE pool == Mirrored(m, usable)
           kept == (known[m] \cup usable) \ Removed(m, usable)
           healthy == {k \in Standing(m, usable) : Healthy(m, k)}
<1>1. /\ known' = [known EXCEPT ![m] = kept]
      /\ owed' = [owed EXCEPT ![m] = [k \in Keys |-> IF k \in kept THEN owed[m][k] ELSE 0]]
      /\ accountHold' = [k \in Keys |->
                IF k \in usable THEN Trimmed(accountHold[k]) ELSE accountHold[k]]
  BY DEF Select
<1>2. clock' = clock /\ max_hold' = max_hold /\ owedAccount' = owedAccount
  BY DEF Select
<1>3. memory' = [memory EXCEPT ![m] = pool]
      \/ \E k \in Keys : memory' = [memory EXCEPT ![m] =
                            [pool EXCEPT ![k] = Chosen(pool[k], clock)]]
  BY DEF Select, Ranked, Least, Standing
<1>4. \/ offer'.outcome = "EXHAUSTED"
      \/ offer'.outcome = "SUCCESS" /\ offer'.model = m /\ offer'.key \in healthy
  <2>1. Ranked(pool, healthy, spread) \subseteq healthy
    BY DEF Ranked, Least
  <2>2. \/ \E k : offer' = [outcome |-> "EXHAUSTED", model |-> m, key |-> k, usable |-> usable]
        \/ \E k \in Ranked(pool, healthy, spread) :
              offer' = [outcome |-> "SUCCESS", model |-> m, key |-> k, usable |-> usable]
    BY DEF Select
  <2> HIDE DEF pool, healthy
  <2> QED
    BY <2>1, <2>2
<1>5. healthy \subseteq usable
  BY DEF Standing
<1>6. pool \in [Keys -> KeyState]
  BY MirroredType
<1>7. \A n \in Models : n # m => memory'[n] = memory[n] /\ known'[n] = known[n]
                                   /\ owed'[n] = owed[n]
  BY <1>1, <1>3 DEF TypeOK
<1>8. known \in [Models -> SUBSET Keys] /\ owed \in [Models -> [Keys -> Nat]]
  BY DEF TypeOK
<1>9. known'[m] = kept /\ \A k \in Keys : owed'[m][k] = IF k \in kept THEN owed[m][k] ELSE 0
  BY <1>1, <1>8
<1>10. \A k \in Keys : /\ memory'[m][k].sick_until = pool[k].sick_until
                       /\ memory'[m][k].non_server_until = pool[k].non_server_until
                       /\ memory'[m][k].stated_server_until = pool[k].stated_server_until
  <2> HIDE DEF pool
  <2>1. \A k \in Keys : memory'[m][k] = pool[k] \/ memory'[m][k] = Chosen(pool[k], clock)
    <3>1. memory \in [Models -> [Keys -> KeyState]]
      BY DEF TypeOK
    <3>2. memory'[m] = pool
          \/ \E k \in Keys : memory'[m] = [pool EXCEPT ![k] = Chosen(pool[k], clock)]
      BY <1>3, <3>1
    <3> QED
      BY <1>6, <3>2
  <2>2. \A k \in Keys : /\ Chosen(pool[k], clock).sick_until = pool[k].sick_until
                        /\ Chosen(pool[k], clock).non_server_until = pool[k].non_server_until
                        /\ Chosen(pool[k], clock).stated_server_until
                              = pool[k].stated_server_until
    BY <1>6 DEF Chosen, KeyState
  <2> QED
    BY <2>1, <2>2
<1>11. ASSUME NEW n \in Models, NEW k \in Keys
       PROVE  Covered(n, k)'
  <2>1. CASE n # m
    BY <1>2, <1>7, <2>1, CoveredUnchanged
  <2>2. CASE n = m /\ k \notin kept
    BY <1>9, <2>2, NothingOwed
  <2>3. CASE n = m /\ k \in kept
    <3>1. /\ owed[m][k] <= pool[k].sick_until
          /\ owed[m][k] <= Later(pool[k].non_server_until, pool[k].stated_server_until)
          /\ owed[m][k] <= clock + max_hold
      BY <2>3, MirroredCovers, StateCovers
    <3> HIDE DEF pool, kept
    <3> QED
      BY <1>2, <1>9, <1>10, <2>3, <3>1 DEF Covered
  <2> QED
    BY <2>1, <2>2, <2>3
<1>12. ASSUME NEW k \in Keys
       PROVE  CoveredAccount(k)'
  <2>1. accountHold'[k] = Trimmed(accountHold[k]) \/ accountHold'[k] = accountHold[k]
    BY <1>1
  <2>2. CASE accountHold'[k] = accountHold[k]
    BY <1>2, <2>2, AccountUnchanged
  <2>3. CASE accountHold'[k] = Trimmed(accountHold[k])
    <3>1. owedAccount[k] <= Trimmed(accountHold[k])
      BY AccountCovers
    <3>2. accountHold[k] \in Nat /\ clock \in Nat /\ max_hold \in Nat
      BY MemoryType, Times
    <3>3. Earlier(Trimmed(accountHold[k]), clock + max_hold) = Trimmed(accountHold[k])
      BY <3>2 DEF Trimmed, Earlier
    <3> QED
      BY <1>2, <2>3, <3>1, <3>3 DEF CoveredAccount
  <2> QED
    BY <2>1, <2>2, <2>3
<1>13. FirmRestHonoured'
  <2> SUFFICES ASSUME offer'.outcome = "SUCCESS"
      PROVE /\ owed'[offer'.model][offer'.key] <= clock
            /\ owedAccount[offer'.key] <= clock
    BY <1>2 DEF FirmRestHonoured
  <2> DEFINE k == offer'.key
  <2>1. k \in healthy /\ offer'.model = m /\ k \in Keys
    BY <1>4, <1>5
  <2>2. owed[m][k] <= clock /\ owedAccount[k] <= clock
    BY <2>1, HealthyOwesNothing
  <2>3. k \in kept
    BY <1>5, <2>1 DEF Removed
  <2> QED
    BY <1>9, <2>1, <2>2, <2>3
<1> QED
  BY <1>11, <1>12, <1>13 DEF OwedIsHeld

LEMMA FirmMarkAnswered ==
    ASSUME TypeOK, TypeOK', OwedIsHeld, NEW m \in Models, NEW k \in Keys, MarkAnswered(m, k)
    PROVE  OwedIsHeld' /\ FirmRestHonoured'
<1>1. /\ known \in [Models -> SUBSET Keys]
      /\ memory \in [Models -> [Keys -> KeyState]]
      /\ owed \in [Models -> [Keys -> Nat]]
      /\ accountHold \in [Keys -> Nat] /\ owedAccount \in [Keys -> Nat]
  BY DEF TypeOK
<1>2. clock' = clock /\ max_hold' = max_hold /\ offer' = NoOffer
  BY DEF MarkAnswered
<1>3. ASSUME NEW n \in Models, NEW j \in Keys
      PROVE  Covered(n, j)'
  <2>1. CASE n = m /\ j = k
    <3>1. owed'[n][j] = 0
      BY <1>1, <2>1 DEF MarkAnswered
    <3> QED
      BY <3>1, NothingOwed
  <2>2. CASE n # m
    <3>1. known'[n] = known[n] /\ memory'[n] = memory[n] /\ owed'[n] = owed[n]
      BY <1>1, <2>2 DEF MarkAnswered
    <3> QED
      BY <1>2, <3>1, CoveredUnchanged
  <2>3. CASE n = m /\ j # k
    <3>1. /\ known'[m] = known[m] \cup {k} /\ memory'[m][j] = memory[m][j]
          /\ owed'[m][j] = owed[m][j]
      BY <1>1, <2>3 DEF MarkAnswered
    <3>2. Covered(m, j)
      BY DEF OwedIsHeld
    <3> QED
      BY <1>2, <2>3, <3>1, <3>2 DEF Covered
  <2> QED
    BY <2>1, <2>2, <2>3
<1>4. ASSUME NEW j \in Keys
      PROVE  CoveredAccount(j)'
  <2>1. CASE j # k
    <3>1. accountHold'[j] = accountHold[j] /\ owedAccount'[j] = owedAccount[j]
      BY <1>1, <2>1 DEF MarkAnswered
    <3> QED
      BY <1>2, <3>1, AccountUnchanged
  <2>2. CASE j = k
    <3>1. accountHold'[k] = 0 /\ owedAccount'[k] = 0
      BY <1>1 DEF MarkAnswered
    <3>2. clock + max_hold \in Nat
      BY Times
    <3>3. 0 <= Earlier(0, clock + max_hold)
      BY <3>2, LaterEarlierNat
    <3> QED
      BY <1>2, <2>2, <3>1, <3>3 DEF CoveredAccount
  <2> QED
    BY <2>1, <2>2
<1> QED
  BY <1>2, <1>3, <1>4, NotOffered DEF OwedIsHeld

\* The arithmetic of one refusal: what mark stores covers what it now owes.
LEMMA HeldCovers ==
    ASSUME TypeOK, OwedIsHeld, NEW m \in Models, NEW k \in Keys,
           NEW counted \in KeyState, NEW f \in Refusal, NEW rest \in Nat, rest <= max_hold,
           counted.sick_until = State(m, k).sick_until,
           counted.non_server_until = State(m, k).non_server_until,
           counted.stated_server_until = State(m, k).stated_server_until,
           NEW o, o = IF Firm(f) THEN Later(owed[m][k], clock + rest) ELSE owed[m][k]
    PROVE  LET after == Held(counted, f, rest, clock, max_hold)
           IN  /\ after \in KeyState
               /\ clock + rest <= after.sick_until
               /\ o <= after.sick_until
               /\ o <= Later(after.non_server_until, after.stated_server_until)
               /\ o <= clock + max_hold
<1> DEFINE after == Held(counted, f, rest, clock, max_hold)
           until == Earlier(Later(counted.sick_until, clock + rest), clock + max_hold)
<1>1. clock \in Nat /\ max_hold \in Nat
  BY Times
<1>2. /\ after \in KeyState /\ until \in Nat /\ after.sick_until = until
      /\ after.non_server_until >= counted.non_server_until
      /\ after.stated_server_until >= counted.stated_server_until
      /\ f.kind # "server" => after.non_server_until >= until
      /\ f.kind = "server" /\ f.stated /\ f.delay > 0 => after.stated_server_until >= until
  BY <1>1, HeldType
<1>3. /\ after.non_server_until \in Nat /\ after.stated_server_until \in Nat
      /\ counted.sick_until \in Nat /\ counted.non_server_until \in Nat
      /\ counted.stated_server_until \in Nat
  BY <1>2 DEF KeyState
<1> DEFINE w == owed[m][k]
<1>4. /\ w \in Nat /\ w <= counted.sick_until /\ w <= clock + max_hold
      /\ w <= Later(counted.non_server_until, counted.stated_server_until)
  BY StateCovers
<1> HIDE DEF after, w
<1>5. clock + rest <= until /\ w <= until /\ until <= clock + max_hold
  BY <1>1, <1>3, <1>4 DEF Later, Earlier
<1> HIDE DEF until
<1>6. w <= Later(after.non_server_until, after.stated_server_until)
  BY <1>2, <1>3, <1>4 DEF Later
<1>7. CASE Firm(f)
  <2>1. until <= Later(after.non_server_until, after.stated_server_until)
    BY <1>2, <1>3, <1>7 DEF Firm, Later
  <2>2. o = w \/ o = clock + rest
    BY <1>7 DEF Later, w
  <2>3. Later(after.non_server_until, after.stated_server_until) \in Nat
    BY <1>3 DEF Later
  <2> QED
    BY <1>1, <1>2, <1>4, <1>5, <2>1, <2>2, <2>3 DEF after
<1>8. CASE ~Firm(f)
  BY <1>2, <1>4, <1>5, <1>6, <1>8 DEF after, w
<1> QED
  BY <1>7, <1>8

LEMMA FirmMarkRefused ==
    ASSUME TypeOK, OwedIsHeld, NEW m \in Models, NEW k \in Keys,
           NEW refusal \in Refusals, MarkRefused(m, k, refusal)
    PROVE  OwedIsHeld' /\ FirmRestHonoured'
<1> DEFINE learned   == Taught(ceiling[m][k], refusal)
           f         == Renamed(refusal, named[m][k])
           since     == SilentSince(m, f)
           poolAlive == f.kind = "daily" => clock - since < PoolSilence
           counted   == Counted(Blamed(State(m, k), refusal), f, learned)
           rest      == Rest(counted, f, learned, poolAlive, max_hold)
           after     == Held(counted, f, rest, clock, max_hold)
<1>1. refusal \in Refusal
  BY CarouselAssumption DEF CarouselAssumption
<1>2. /\ f \in Refusal /\ counted \in KeyState
      /\ counted.sick_until = State(m, k).sick_until
      /\ counted.non_server_until = State(m, k).non_server_until
      /\ counted.stated_server_until = State(m, k).stated_server_until
      /\ rest \in Nat /\ rest <= max_hold
  <2> HIDE DEF poolAlive
  <2>1. poolAlive \in BOOLEAN
    BY DEF poolAlive
  <2> QED
    BY <1>1, <2>1, RefusedType
<1>3. /\ known' = [known EXCEPT ![m] = @ \cup {k}]
      /\ memory' = [memory EXCEPT ![m][k] = after]
      /\ owed' = IF Firm(f) THEN [owed EXCEPT ![m][k] = Later(owed[m][k], clock + rest)]
                            ELSE owed
  BY DEF MarkRefused
<1>4. \/ /\ accountHold' = [accountHold EXCEPT ![k] =
                               Trimmed(Later(accountHold[k], after.sick_until))]
         /\ owedAccount' = [owedAccount EXCEPT ![k] = Later(owedAccount[k], clock + rest)]
      \/ accountHold' = accountHold /\ owedAccount' = owedAccount
  BY DEF MarkRefused, AccountHeld
<1>5. clock' = clock /\ max_hold' = max_hold /\ offer' = NoOffer
  BY DEF MarkRefused
<1> HIDE DEF learned, f, since, poolAlive, counted, rest
<1> DEFINE o == IF Firm(f) THEN Later(owed[m][k], clock + rest) ELSE owed[m][k]
<1>6. /\ after \in KeyState
      /\ clock + rest <= after.sick_until
      /\ o <= after.sick_until
      /\ o <= Later(after.non_server_until, after.stated_server_until)
      /\ o <= clock + max_hold
  BY <1>2, HeldCovers
<1>7. /\ known \in [Models -> SUBSET Keys]
      /\ memory \in [Models -> [Keys -> KeyState]]
      /\ owed \in [Models -> [Keys -> Nat]]
      /\ accountHold \in [Keys -> Nat] /\ owedAccount \in [Keys -> Nat]
  BY DEF TypeOK
<1>8. ASSUME NEW n \in Models, NEW j \in Keys
      PROVE  Covered(n, j)'
  <2> HIDE DEF after
  <2>1. CASE n # m
    <3>1. known'[n] = known[n] /\ memory'[n] = memory[n] /\ owed'[n] = owed[n]
      BY <1>3, <1>7, <2>1
    <3> QED
      BY <1>5, <3>1, CoveredUnchanged
  <2>2. CASE n = m /\ j # k
    <3>1. /\ known'[m] = known[m] \cup {k} /\ memory'[m][j] = memory[m][j]
          /\ owed'[m][j] = owed[m][j]
      BY <1>3, <1>7, <2>2
    <3>2. Covered(m, j)
      BY DEF OwedIsHeld
    <3> QED
      BY <1>5, <2>2, <3>1, <3>2 DEF Covered
  <2>3. CASE n = m /\ j = k
    <3>1. k \in known'[m] /\ memory'[m][k] = after /\ owed'[m][k] = o
      BY <1>3, <1>7
    <3> HIDE DEF o
    <3> QED
      BY <1>5, <1>6, <2>3, <3>1 DEF Covered
  <2> QED
    BY <2>1, <2>2, <2>3
<1>9. ASSUME NEW j \in Keys
      PROVE  CoveredAccount(j)'
  <2> HIDE DEF after, o
  <2>1. CASE accountHold'[j] = accountHold[j] /\ owedAccount'[j] = owedAccount[j]
    BY <1>5, <2>1, AccountUnchanged
  <2>2. CASE /\ j = k
             /\ accountHold'[k] = Trimmed(Later(accountHold[k], after.sick_until))
             /\ owedAccount'[k] = Later(owedAccount[k], clock + rest)
    <3>1. clock \in Nat /\ max_hold \in Nat
      BY Times
    <3>2. after.sick_until \in Nat
      BY <1>6 DEF KeyState
    <3>3. accountHold[k] \in Nat /\ owedAccount[k] \in Nat
      BY <1>7
    <3>4. owedAccount[k] <= accountHold[k] /\ owedAccount[k] <= clock + max_hold
      <4>1. CoveredAccount(k)
        BY DEF OwedIsHeld
      <4> QED
        BY <3>1, <3>3, <4>1 DEF CoveredAccount, Earlier
    <3>5. Later(owedAccount[k], clock + rest)
            <= Earlier(Trimmed(Later(accountHold[k], after.sick_until)), clock + max_hold)
      BY <1>2, <1>6, <3>1, <3>2, <3>3, <3>4 DEF Later, Earlier, Trimmed
    <3> QED
      BY <1>5, <2>2, <3>5 DEF CoveredAccount
  <2> QED
    BY <1>4, <1>7, <2>1, <2>2
<1> QED
  BY <1>5, <1>8, <1>9, NotOffered DEF OwedIsHeld

LEMMA FirmConsult ==
    ASSUME TypeOK, OwedIsHeld, NEW m \in Models, NEW usable \in SUBSET Keys, Consult(m, usable)
    PROVE  OwedIsHeld' /\ FirmRestHonoured'
<1>1. memory \in [Models -> [Keys -> KeyState]]
  BY DEF TypeOK
<1>2. /\ clock' = clock /\ max_hold' = max_hold /\ offer' = NoOffer
      /\ known' = known /\ owed' = owed /\ owedAccount' = owedAccount
  BY DEF Consult, history
<1>3. TrimRead(m, Standing(m, usable))
  BY DEF Consult
<1>4. \A n \in Models, k \in Keys :
        \/ memory'[n][k] = memory[n][k]
        \/ memory'[n][k] = [memory[n][k] EXCEPT !.sick_until = Trimmed(memory[n][k].sick_until)]
  BY <1>1, <1>3 DEF TrimRead
<1>5. ASSUME NEW n \in Models, NEW k \in Keys
      PROVE  Covered(n, k)'
  <2>1. CASE memory'[n][k] = memory[n][k]
    BY <1>2, <2>1, CoveredUnchanged
  <2>2. CASE memory'[n][k] = [memory[n][k] EXCEPT !.sick_until = Trimmed(memory[n][k].sick_until)]
    <3>1. Covered(n, k)
      BY DEF OwedIsHeld
    <3>2. owed[n][k] <= Trimmed(memory[n][k].sick_until)
      BY <3>1, MemoryType, TrimmedCovers DEF Covered
    <3>3. /\ memory'[n][k].sick_until = Trimmed(memory[n][k].sick_until)
          /\ memory'[n][k].non_server_until = memory[n][k].non_server_until
          /\ memory'[n][k].stated_server_until = memory[n][k].stated_server_until
      BY <2>2, MemoryType DEF KeyState
    <3> QED
      BY <1>2, <3>1, <3>2, <3>3 DEF Covered
  <2> QED
    BY <1>4, <2>1, <2>2
<1>6. ASSUME NEW k \in Keys
      PROVE  CoveredAccount(k)'
  <2>1. accountHold'[k] = Trimmed(accountHold[k]) \/ accountHold'[k] = accountHold[k]
    BY <1>3 DEF TrimRead
  <2>2. CASE accountHold'[k] = accountHold[k]
    BY <1>2, <2>2, AccountUnchanged
  <2>3. CASE accountHold'[k] = Trimmed(accountHold[k])
    <3>1. owedAccount[k] <= Trimmed(accountHold[k])
      BY AccountCovers
    <3>2. accountHold[k] \in Nat /\ clock \in Nat /\ max_hold \in Nat
      BY MemoryType, Times
    <3>3. Earlier(Trimmed(accountHold[k]), clock + max_hold) = Trimmed(accountHold[k])
      BY <3>2 DEF Trimmed, Earlier
    <3> QED
      BY <1>2, <2>3, <3>1, <3>3 DEF CoveredAccount
  <2> QED
    BY <2>1, <2>2, <2>3
<1> QED
  BY <1>2, <1>5, <1>6, NotOffered DEF OwedIsHeld

\* A thaw shortens a rest, and stops at what the key owes.
LEMMA FirmThaw ==
    ASSUME TypeOK, OwedIsHeld, NEW m \in Models, NEW except,
           NEW fan \in [Keys -> 0..ThawFan], Thaw(m, except, fan)
    PROVE  OwedIsHeld' /\ FirmRestHonoured'
<1>1. memory \in [Models -> [Keys -> KeyState]]
  BY DEF TypeOK
<1>2. /\ clock' = clock /\ max_hold' = max_hold /\ offer' = NoOffer
      /\ known' = known /\ owed' = owed /\ owedAccount' = owedAccount
      /\ accountHold' = accountHold
  BY DEF Thaw, history
<1>3. \A n \in Models, k \in Keys :
        \/ memory'[n][k] = memory[n][k]
        \/ memory'[n][k] = [memory[n][k] EXCEPT !.sick_until = ThawTarget(memory[n][k], fan[k])]
  BY <1>1 DEF Thaw
<1>4. ASSUME NEW n \in Models, NEW k \in Keys
      PROVE  Covered(n, k)'
  <2>1. CASE memory'[n][k] = memory[n][k]
    BY <1>2, <2>1, CoveredUnchanged
  <2>2. CASE memory'[n][k] = [memory[n][k] EXCEPT !.sick_until = ThawTarget(memory[n][k], fan[k])]
    <3> DEFINE s == memory[n][k]
    <3>1. Covered(n, k)
      BY DEF OwedIsHeld
    <3>2. /\ s \in KeyState /\ owed[n][k] \in Nat
          /\ s.non_server_until \in Nat /\ s.stated_server_until \in Nat
      BY MemoryType
    <3>3. fan[k] \in Nat
      <4>1. fan[k] \in 0..ThawFan
        OBVIOUS
      <4>2. ThawFan \in Nat
        BY CarouselAssumption DEF CarouselAssumption
      <4> QED
        BY <4>1, <4>2
    <3>4. clock + ThawBase + fan[k] \in Nat
      <4>1. ThawBase \in Nat /\ clock \in Nat
        BY CarouselAssumption, Times DEF CarouselAssumption
      <4> QED
        BY <3>3, <4>1
    <3>5. Later(s.non_server_until, s.stated_server_until) <= ThawTarget(s, fan[k])
          /\ ThawTarget(s, fan[k]) \in Nat
          /\ Later(s.non_server_until, s.stated_server_until) \in Nat
      BY <3>2, <3>4, LaterEarlierNat DEF ThawTarget
    <3>6. owed[n][k] <= ThawTarget(s, fan[k])
      BY <3>1, <3>2, <3>5 DEF Covered
    <3>7. /\ memory'[n][k].sick_until = ThawTarget(s, fan[k])
          /\ memory'[n][k].non_server_until = s.non_server_until
          /\ memory'[n][k].stated_server_until = s.stated_server_until
      BY <2>2, <3>2 DEF KeyState
    <3> QED
      BY <1>2, <3>1, <3>6, <3>7 DEF Covered
  <2> QED
    BY <1>3, <2>1, <2>2
<1>5. \A k \in Keys : CoveredAccount(k)'
  BY <1>2, AccountUnchanged
<1> QED
  BY <1>2, <1>4, <1>5, NotOffered DEF OwedIsHeld

LEMMA FirmReset ==
    ASSUME TypeOK, TypeOK', OwedIsHeld,
           \/ \E m \in Models : ResetPoolRead(m) \/ ResetPoolForget(m) \/ ResetPoolRestore(m)
           \/ ResetAll
    PROVE  OwedIsHeld' /\ FirmRestHonoured'
<1>1. clock' = clock /\ max_hold' = max_hold /\ offer' = NoOffer
  BY DEF ResetPoolRead, ResetPoolForget, ResetPoolRestore, ResetAll
<1>2. /\ known \in [Models -> SUBSET Keys] /\ memory \in [Models -> [Keys -> KeyState]]
      /\ owed \in [Models -> [Keys -> Nat]]
  BY DEF TypeOK
<1>3. ASSUME NEW n \in Models, NEW k \in Keys
      PROVE  Covered(n, k)'
  <2>1. \/ owed'[n][k] = 0
        \/ known'[n] = known[n] /\ memory'[n] = memory[n] /\ owed'[n] = owed[n]
    <3>1. ASSUME NEW m \in Models, ResetPoolForget(m)
          PROVE  \/ owed'[n][k] = 0
                 \/ known'[n] = known[n] /\ memory'[n] = memory[n] /\ owed'[n] = owed[n]
      <4>1. Forgotten(m)
        BY <3>1 DEF ResetPoolForget
      <4>2. CASE n = m
        BY <1>2, <4>1, <4>2 DEF Forgotten
      <4>3. CASE n # m
        BY <1>2, <4>1, <4>3 DEF Forgotten
      <4> QED
        BY <4>2, <4>3
    <3>2. ASSUME NEW m \in Models, ResetPoolRestore(m)
          PROVE  \/ owed'[n][k] = 0
                 \/ known'[n] = known[n] /\ memory'[n] = memory[n] /\ owed'[n] = owed[n]
      <4>1. CASE n = m
        BY <1>2, <3>2, <4>1 DEF ResetPoolRestore
      <4>2. CASE n # m
        BY <1>2, <3>2, <4>2 DEF ResetPoolRestore
      <4> QED
        BY <4>1, <4>2
    <3>3. ASSUME ResetAll
          PROVE  owed'[n][k] = 0
      BY <3>3 DEF ResetAll
    <3>4. ASSUME NEW m \in Models, ResetPoolRead(m)
          PROVE  known' = known /\ memory' = memory /\ owed' = owed
      BY <3>4 DEF ResetPoolRead, pools, history
    <3> QED
      BY <3>1, <3>2, <3>3, <3>4
  <2> QED
    BY <1>1, <2>1, NothingOwed, CoveredUnchanged
<1>4. ASSUME NEW k \in Keys
      PROVE  CoveredAccount(k)'
  <2>1. \/ accountHold'[k] = 0 /\ owedAccount'[k] = 0
        \/ accountHold' = accountHold /\ owedAccount' = owedAccount
    BY DEF ResetPoolRead, ResetPoolForget, ResetPoolRestore, ResetAll, history
  <2>2. CASE accountHold'[k] = 0 /\ owedAccount'[k] = 0
    <3>1. clock + max_hold \in Nat
      BY Times
    <3>2. 0 <= Earlier(0, clock + max_hold)
      BY <3>1, LaterEarlierNat
    <3> QED
      BY <1>1, <2>2, <3>2 DEF CoveredAccount
  <2> QED
    BY <1>1, <2>1, <2>2, AccountUnchanged
<1> QED
  BY <1>1, <1>3, <1>4, NotOffered DEF OwedIsHeld

\* What is owed after the dial or the clock moved is still held.
LEMMA FirmOwedAtMost ==
    ASSUME TypeOK, OwedIsHeld, OwedAtMost(clock' + max_hold'),
           clock' \in Nat, max_hold' \in Nat, UNCHANGED <<known, memory, accountHold>>
    PROVE  OwedIsHeld'
<1> DEFINE limit == clock' + max_hold'
<1>1. limit \in Nat
  <2>1. \A a, b \in Nat : a + b \in Nat
    OBVIOUS
  <2> QED
    BY <2>1
<1>2. ASSUME NEW m \in Models, NEW k \in Keys
      PROVE  Covered(m, k)'
  <2>1. Covered(m, k) /\ owed[m][k] \in Nat /\ memory[m][k].sick_until \in Nat
    BY MemoryType DEF OwedIsHeld
  <2>2. owed'[m][k] = Earlier(owed[m][k], limit)
    BY DEF OwedAtMost
  <2>3. Later(memory[m][k].non_server_until, memory[m][k].stated_server_until) \in Nat
    BY MemoryType, LaterEarlierNat
  <2>4. owed'[m][k] <= owed[m][k] /\ owed'[m][k] <= limit /\ owed'[m][k] \in Nat
    BY <1>1, <2>1, <2>2, LaterEarlierNat
  <2>5. owed[m][k] = 0 => owed'[m][k] = 0
    BY <2>1, <2>4
  <2> QED
    BY <2>1, <2>3, <2>4, <2>5 DEF Covered
<1>3. ASSUME NEW k \in Keys
      PROVE  CoveredAccount(k)'
  <2>0. CoveredAccount(k)
    BY DEF OwedIsHeld
  <2>1. owedAccount[k] \in Nat /\ accountHold[k] \in Nat
    <3>1. owedAccount \in [Keys -> Nat] /\ accountHold \in [Keys -> Nat]
      BY DEF TypeOK
    <3> QED
      BY <3>1
  <2>2. owedAccount'[k] = Earlier(owedAccount[k], limit)
    BY DEF OwedAtMost
  <2>3. clock \in Nat /\ max_hold \in Nat
    BY Times
  <2>4. owedAccount[k] <= accountHold[k]
    BY <2>0, <2>1, <2>3 DEF CoveredAccount, Earlier
  <2> HIDE DEF limit
  <2>5. Earlier(owedAccount[k], limit) <= Earlier(accountHold[k], limit)
    BY <1>1, <2>1, <2>4 DEF Earlier
  <2> QED
    BY <2>2, <2>5 DEF CoveredAccount, limit
<1> QED
  BY <1>2, <1>3 DEF OwedIsHeld

LEMMA FirmEnvironment ==
    ASSUME TypeOK, TypeOK', OwedIsHeld,
           \/ \E seconds \in Dials : TurnDial(seconds)
           \/ Tick
           \/ \E to \in Start..MaxTime : StepBack(to)
    PROVE  OwedIsHeld' /\ FirmRestHonoured'
<1>1. clock' \in Nat /\ max_hold' \in Nat
  BY CarouselAssumption DEF CarouselAssumption, TypeOK
<1>2. offer' = NoOffer
  BY DEF TurnDial, Tick, StepBack
<1>3. UNCHANGED <<known, memory, accountHold>>
  BY DEF TurnDial, Tick, StepBack, pools
<1>4. CASE Tick
  <2>1. clock' = clock + 1 /\ max_hold' = max_hold /\ owed' = owed
        /\ owedAccount' = owedAccount
    BY <1>4 DEF Tick, history
  <2>2. clock \in Nat /\ max_hold \in Nat
    BY Times
  <2>3. ASSUME NEW m \in Models, NEW k \in Keys
        PROVE  Covered(m, k)'
    <3>1. Covered(m, k) /\ owed[m][k] \in Nat
      BY MemoryType DEF OwedIsHeld
    <3> QED
      BY <1>3, <2>1, <2>2, <3>1 DEF Covered
  <2>4. ASSUME NEW k \in Keys
        PROVE  CoveredAccount(k)'
    <3>1. CoveredAccount(k)
      BY DEF OwedIsHeld
    <3>2. owedAccount[k] \in Nat /\ accountHold[k] \in Nat
      <4>1. owedAccount \in [Keys -> Nat] /\ accountHold \in [Keys -> Nat]
        BY DEF TypeOK
      <4> QED
        BY <4>1
    <3> QED
      BY <1>3, <2>1, <2>2, <3>1, <3>2 DEF CoveredAccount, Earlier
  <2> QED
    BY <1>2, <2>3, <2>4, NotOffered DEF OwedIsHeld
<1>5. CASE \/ \E seconds \in Dials : TurnDial(seconds)
           \/ \E to \in Start..MaxTime : StepBack(to)
  <2>1. OwedAtMost(clock' + max_hold')
    BY <1>5 DEF TurnDial, StepBack
  <2> QED
    BY <1>1, <1>2, <1>3, <2>1, FirmOwedAtMost, NotOffered
<1> QED
  BY <1>4, <1>5

LEMMA FirmInitial == Init => OwedIsHeld /\ FirmRestHonoured
<1> SUFFICES ASSUME Init PROVE OwedIsHeld /\ FirmRestHonoured
  OBVIOUS
<1>1. TypeOK
  BY TypeInitial
<1>2. clock + max_hold \in Nat
  BY <1>1, Times
<1>3. ASSUME NEW m \in Models, NEW k \in Keys
      PROVE  Covered(m, k)
  <2>1. owed[m][k] = 0 /\ memory[m][k] = Fresh(0)
    BY DEF Init
  <2>2. Fresh(0).sick_until = 0 /\ Fresh(0).non_server_until = 0
        /\ Fresh(0).stated_server_until = 0 /\ Later(0, 0) = 0
    BY DEF Fresh, Later
  <2> QED
    BY <1>2, <2>1, <2>2 DEF Covered
<1>4. ASSUME NEW k \in Keys
      PROVE  CoveredAccount(k)
  <2>1. accountHold[k] = 0 /\ owedAccount[k] = 0
    BY DEF Init
  <2>2. 0 <= Earlier(0, clock + max_hold)
    BY <1>2, LaterEarlierNat
  <2> QED
    BY <2>1, <2>2 DEF CoveredAccount
<1>5. FirmRestHonoured
  BY DEF Init, NoOffer, FirmRestHonoured
<1> QED
  BY <1>3, <1>4, <1>5 DEF OwedIsHeld

LEMMA FirmStep ==
    TypeOK /\ TypeOK' /\ OwedIsHeld /\ FirmRestHonoured /\ [Next]_vars
        => OwedIsHeld' /\ FirmRestHonoured'
<1> SUFFICES ASSUME TypeOK, TypeOK', OwedIsHeld, FirmRestHonoured, [Next]_vars
             PROVE  OwedIsHeld' /\ FirmRestHonoured'
  OBVIOUS
<1>1. CASE \E m \in Models, usable \in SUBSET Keys, spread \in Spreads : Select(m, usable, spread)
  BY <1>1, FirmSelect
<1>2. CASE \E m \in Models, usable \in SUBSET Keys : Consult(m, usable)
  BY <1>2, FirmConsult
<1>3. CASE \E m \in Models, k \in Keys : MarkAnswered(m, k)
  BY <1>3, FirmMarkAnswered
<1>4. CASE \E m \in Models, k \in Keys, f \in Refusals : MarkRefused(m, k, f)
  BY <1>4, FirmMarkRefused
<1>5. CASE \E m \in Models, k \in Keys, fan \in [Keys -> 0..ThawFan] : Thaw(m, k, fan)
  BY <1>5, FirmThaw
<1>6. CASE \/ \E m \in Models : ResetPoolRead(m) \/ ResetPoolForget(m) \/ ResetPoolRestore(m)
           \/ ResetAll
  BY <1>6, FirmReset
<1>7. CASE \/ \E seconds \in Dials : TurnDial(seconds)
           \/ Tick
           \/ \E to \in Start..MaxTime : StepBack(to)
  BY <1>7, FirmEnvironment
<1>8. CASE UNCHANGED vars
  <2>1. OwedIsHeld'
    BY <1>8 DEF OwedIsHeld, Covered, CoveredAccount, vars, pools, history
  <2>2. FirmRestHonoured'
    BY <1>8 DEF FirmRestHonoured, vars, pools, history
  <2> QED
    BY <2>1, <2>2
<1> QED
  BY <1>1, <1>2, <1>3, <1>4, <1>5, <1>6, <1>7, <1>8 DEF Next

\* Every firm rest still owed is on record in the hold, in the floors a thaw
\* stops at and in the account's hold (core/carousel.py:2049-2066, 2472-2499).
THEOREM OwedStaysHeld == Spec => []OwedIsHeld
<1>1. Init => TypeOK /\ OwedIsHeld /\ FirmRestHonoured
  BY TypeInitial, FirmInitial
<1>2. TypeOK /\ OwedIsHeld /\ FirmRestHonoured /\ [Next]_vars
        => (TypeOK /\ OwedIsHeld /\ FirmRestHonoured)'
  BY TypeStep, FirmStep
<1> QED
  BY <1>1, <1>2, PTL DEF Spec

\* No key is handed out before its longest firm rest is over, for any number of
\* keys, models and calls, any refusals and any dial (core/carousel.py:34-42).
THEOREM FirmRestsHonoured == Spec => []FirmRestHonoured
<1>1. Init => TypeOK /\ OwedIsHeld /\ FirmRestHonoured
  BY TypeInitial, FirmInitial
<1>2. TypeOK /\ OwedIsHeld /\ FirmRestHonoured /\ [Next]_vars
        => (TypeOK /\ OwedIsHeld /\ FirmRestHonoured)'
  BY TypeStep, FirmStep
<1> QED
  BY <1>1, <1>2, PTL DEF Spec
-----------------------------------------------------------------------------
\* ---- The readers of a pool ----

\* A set of numbers that is not empty has a least one.
LEMMA LeastNumber ==
    ASSUME NEW S, S \subseteq Nat, S # {}
    PROVE  \E d \in S : \A e \in S : d <= e
<1>1. PICK n \in S : TRUE
  OBVIOUS
<1> DEFINE U == 0..n
           Low == {x \in S : x <= n}
           T == {0..x : x \in Low}
<1>2. n \in Nat /\ IsFiniteSet(U)
  BY FS_Interval
<1>3. IsWellFoundedOn(StrictSubsetOrdering(U), SUBSET U)
  BY <1>2, FS_StrictSubsetOrderingWellFounded, FS_FiniteSubsetsOfFinite
<1>4. T \subseteq SUBSET U /\ T # {}
  <2>1. \A x \in Low : 0..x \in SUBSET U
    BY <1>2
  <2>2. \A t \in T : t \in SUBSET U
    BY <2>1
  <2>3. n \in Low
    BY <1>1, <1>2
  <2> QED
    BY <2>2, <2>3
<1>5. PICK t \in T : \A u \in T : ~ (<<u, t>> \in StrictSubsetOrdering(U))
  <2> HIDE DEF T, U
  <2> QED
    BY <1>3, <1>4, WFMin
<1>6. PICK d \in Low : t = 0..d
  BY <1>5
<1>7. ASSUME NEW e \in S, ~(d <= e) PROVE FALSE
  <2>1. d \in Nat /\ e \in Nat /\ e < d /\ e \in Low
    BY <1>2, <1>6, <1>7
  <2>2. 0..e \subseteq 0..d /\ d \in 0..d /\ ~(d \in 0..e)
    BY <2>1
  <2>3. 0..e # 0..d
    BY <2>2
  <2>4. 0..e \in T /\ 0..e \in SUBSET U /\ t \in SUBSET U
    BY <1>4, <1>5, <2>1
  <2> QED
    BY <1>5, <1>6, <2>2, <2>3, <2>4 DEF StrictSubsetOrdering
<1> QED
  BY <1>6, <1>7

LEMMA DeadlineType ==
    ASSUME TypeOK, NEW m \in Models, NEW k \in Keys
    PROVE  Deadline(m, k) \in Nat /\ Deadline(m, k) <= clock + max_hold
<1>1. clock \in Nat /\ max_hold \in Nat /\ accountHold[k] \in Nat
  BY Times, MemoryType
<1>2. State(m, k).sick_until \in Nat
  BY StateType DEF KeyState
<1>3. /\ Trimmed(State(m, k).sick_until) \in Nat /\ Trimmed(accountHold[k]) \in Nat
      /\ Trimmed(State(m, k).sick_until) <= clock + max_hold
      /\ Trimmed(accountHold[k]) <= clock + max_hold
  BY <1>1, <1>2 DEF Trimmed, Earlier
<1> QED
  BY <1>3 DEF Deadline, Later

LEMMA StandingOffered ==
    ASSUME NEW m \in Models, NEW usable \in SUBSET Keys, usable # {}
    PROVE  Standing(m, usable) \subseteq usable /\ Standing(m, usable) # {}
BY DEF Standing

\* What next_recovery_seconds answers is the wait for a key that recovers first.
SoonestFound ==
    \A m \in Models, usable \in (SUBSET Keys) \ {{}} :
        \E k \in Standing(m, usable) :
            /\ Deadline(m, k) \in Nat /\ Deadline(m, k) <= clock + max_hold
            /\ \A j \in Standing(m, usable) : Deadline(m, k) <= Deadline(m, j)
            /\ NextRecovery(m, usable) =
                  IF Deadline(m, k) <= clock THEN 0 ELSE Deadline(m, k) - clock

LEMMA SoonestIsFound == TypeOK => SoonestFound
<1> SUFFICES ASSUME TypeOK, NEW m \in Models, NEW usable \in (SUBSET Keys) \ {{}}
             PROVE  \E k \in Standing(m, usable) :
                      /\ Deadline(m, k) \in Nat /\ Deadline(m, k) <= clock + max_hold
                      /\ \A j \in Standing(m, usable) : Deadline(m, k) <= Deadline(m, j)
                      /\ NextRecovery(m, usable) =
                            IF Deadline(m, k) <= clock THEN 0 ELSE Deadline(m, k) - clock
  BY DEF SoonestFound
<1> DEFINE S == Standing(m, usable)
           D == {Deadline(m, k) : k \in S}
           soonest == CHOOSE d \in D : \A k \in S : d <= Deadline(m, k)
<1>1. S \subseteq Keys /\ S # {}
  BY StandingOffered
<1>2. NextRecovery(m, usable) = IF soonest <= clock THEN 0 ELSE soonest - clock
  BY DEF NextRecovery
<1> HIDE DEF S
<1>3. \A k \in S : Deadline(m, k) \in Nat /\ Deadline(m, k) <= clock + max_hold
  BY <1>1, DeadlineType
<1>4. D \subseteq Nat /\ D # {}
  BY <1>1, <1>3
<1>5. \E d \in D : \A e \in D : d <= e
  BY <1>4, LeastNumber
<1>6. \E d \in D : \A k \in S : d <= Deadline(m, k)
  BY <1>5
<1>7. soonest \in D /\ \A k \in S : soonest <= Deadline(m, k)
  BY <1>6
<1>8. PICK k \in S : soonest = Deadline(m, k)
  BY <1>7
<1> HIDE DEF soonest
<1>9. /\ Deadline(m, k) \in Nat /\ Deadline(m, k) <= clock + max_hold
      /\ \A j \in S : Deadline(m, k) <= Deadline(m, j)
      /\ NextRecovery(m, usable) =
            IF Deadline(m, k) <= clock THEN 0 ELSE Deadline(m, k) - clock
  BY <1>2, <1>3, <1>7, <1>8
<1> QED
  BY <1>9 DEF S

-----------------------------------------------------------------------------
\* What select leaves of the keys it was offered reads as it did before.
LEMMA SelectReadsTheSame ==
    ASSUME TypeOK, NEW m \in Models, NEW usable \in SUBSET Keys, NEW spread,
           Select(m, usable, spread), NEW k \in usable
    PROVE  Deadline(m, k)' = Deadline(m, k) /\ State(m, k)'.retired = State(m, k).retired
<1> DEFINE pool == Mirrored(m, usable)
           kept == (known[m] \cup usable) \ Removed(m, usable)
           s == State(m, k)
<1>1. clock' = clock /\ max_hold' = max_hold
  BY DEF Select
<1>2. k \in known'[m]
  <2>1. known' = [known EXCEPT ![m] = kept]
    BY DEF Select
  <2>2. k \in kept
    BY DEF Removed
  <2> HIDE DEF kept
  <2> QED
    BY <2>1, <2>2 DEF TypeOK
<1>3. s \in KeyState /\ s.sick_until \in Nat
  BY StateType DEF KeyState
<1>4. /\ pool[k] \in KeyState /\ pool[k].sick_until = Trimmed(s.sick_until)
      /\ pool[k].retired = s.retired
  <2>1. pool[k] = [s EXCEPT !.last_offered = clock,
                            !.request_log = Recent(s.request_log, clock),
                            !.sick_until = Trimmed(s.sick_until)]
    BY DEF Mirrored
  <2>2. pool[k] \in KeyState
    BY MirroredType
  <2> HIDE DEF pool, s
  <2> QED
    BY <1>3, <2>1, <2>2 DEF KeyState
<1>5. memory'[m][k] = pool[k] \/ memory'[m][k] = Chosen(pool[k], clock)
  <2>1. \/ memory' = [memory EXCEPT ![m] = pool]
        \/ \E j \in Keys : memory' = [memory EXCEPT ![m] =
                              [pool EXCEPT ![j] = Chosen(pool[j], clock)]]
    BY DEF Select, Ranked, Least, Standing
  <2>2. pool \in [Keys -> KeyState] /\ memory \in [Models -> [Keys -> KeyState]]
    BY MirroredType DEF TypeOK
  <2> HIDE DEF pool
  <2>3. \/ memory'[m] = pool
        \/ \E j \in Keys : memory'[m] = [pool EXCEPT ![j] = Chosen(pool[j], clock)]
    BY <2>1, <2>2
  <2> QED
    BY <2>2, <2>3
<1> HIDE DEF pool, s
<1>6. memory'[m][k].sick_until = Trimmed(s.sick_until) /\ memory'[m][k].retired = s.retired
  <2>1. /\ Chosen(pool[k], clock).sick_until = pool[k].sick_until
        /\ Chosen(pool[k], clock).retired = pool[k].retired
    BY <1>4 DEF Chosen, KeyState
  <2> QED
    BY <1>4, <1>5, <2>1
<1>7. State(m, k)' = memory'[m][k]
  BY <1>2 DEF State
<1>8. accountHold'[k] = Trimmed(accountHold[k])
  BY DEF Select
<1>9. clock \in Nat /\ max_hold \in Nat /\ accountHold[k] \in Nat
  BY Times, MemoryType
<1>10. \A n \in Nat : Trimmed(Trimmed(n)) = Trimmed(n)
  BY <1>9 DEF Trimmed, Earlier
<1>11. Deadline(m, k)' = Later(Trimmed(memory'[m][k].sick_until), Trimmed(accountHold'[k]))
  BY <1>1, <1>7 DEF Deadline, Trimmed
<1>12. Deadline(m, k)' = Later(Trimmed(s.sick_until), Trimmed(accountHold[k]))
  BY <1>3, <1>6, <1>8, <1>9, <1>10, <1>11
<1>13. Deadline(m, k) = Later(Trimmed(s.sick_until), Trimmed(accountHold[k]))
  BY DEF Deadline, s
<1> QED
  BY <1>6, <1>7, <1>12, <1>13 DEF s

\* What the other two readers find where select has just been.
OfferAgrees ==
    /\ offer.outcome = "EXHAUSTED" =>
          /\ offer.model \in Models /\ offer.usable \in (SUBSET Keys) \ {{}}
          /\ offer.key \in Standing(offer.model, offer.usable)
          /\ ~Healthy(offer.model, offer.key)
          /\ \A j \in Standing(offer.model, offer.usable) :
                Deadline(offer.model, offer.key) <= Deadline(offer.model, j)
    /\ offer.outcome = "SUCCESS" => Healthy(offer.model, offer.key)

LEMMA SelectAgrees ==
    ASSUME TypeOK, NEW m \in Models, NEW usable \in SUBSET Keys, NEW spread,
           Select(m, usable, spread)
    PROVE  OfferAgrees'
<1> DEFINE S == Standing(m, usable)
           healthy == {k \in S : Healthy(m, k)}
<1>1. usable # {} /\ clock' = clock
  BY DEF Select
<1>2. S \subseteq usable /\ S # {}
  BY <1>1, StandingOffered
<1>3. \A k \in usable : Deadline(m, k)' = Deadline(m, k)
  BY SelectReadsTheSame
<1>4. Standing(m, usable)' = S
  <2>1. {k \in usable : ~State(m, k)'.retired} = {k \in usable : ~State(m, k).retired}
    BY SelectReadsTheSame
  <2> QED
    BY <2>1 DEF Standing
<1>5. \/ \E k \in Least(S, [j \in Keys |-> Deadline(m, j)]) :
            /\ healthy = {}
            /\ offer' = [outcome |-> "EXHAUSTED", model |-> m, key |-> k, usable |-> usable]
      \/ \E k \in healthy :
            offer' = [outcome |-> "SUCCESS", model |-> m, key |-> k, usable |-> usable]
  BY DEF Select, Ranked, Least
<1> HIDE DEF S, healthy
<1>6. ASSUME NEW k \in Least(S, [j \in Keys |-> Deadline(m, j)]), healthy = {},
             offer' = [outcome |-> "EXHAUSTED", model |-> m, key |-> k, usable |-> usable]
      PROVE  OfferAgrees'
  <2>1. k \in S /\ \A j \in S : Deadline(m, k) <= Deadline(m, j)
    BY <1>2 DEF Least
  <2>2. ~(Deadline(m, k) <= clock)
    BY <1>6, <2>1 DEF healthy, Healthy
  <2>3. /\ offer'.outcome = "EXHAUSTED" /\ offer'.model = m /\ offer'.key = k
        /\ offer'.usable = usable
    BY <1>6
  <2>4. ~Healthy(m, k)' /\ \A j \in S : Deadline(m, k)' <= Deadline(m, j)'
    BY <1>1, <1>2, <1>3, <2>1, <2>2 DEF Healthy
  <2> QED
    BY <1>1, <1>4, <2>1, <2>3, <2>4 DEF OfferAgrees
<1>7. ASSUME NEW k \in healthy,
             offer' = [outcome |-> "SUCCESS", model |-> m, key |-> k, usable |-> usable]
      PROVE  OfferAgrees'
  <2>1. k \in S /\ Deadline(m, k) <= clock
    BY DEF healthy, Healthy
  <2>2. Healthy(m, k)'
    BY <1>1, <1>2, <1>3, <2>1 DEF Healthy
  <2> QED
    BY <1>7, <2>2 DEF OfferAgrees
<1> QED
  BY <1>5, <1>6, <1>7

\* Only select offers a key.
LEMMA OnlySelectOffers ==
    ASSUME Next
    PROVE  \/ offer' = NoOffer
           \/ \E m \in Models, usable \in SUBSET Keys, spread \in Spreads :
                 Select(m, usable, spread)
<1>1. ASSUME NEW m \in Models, NEW usable \in SUBSET Keys, Consult(m, usable)
      PROVE  offer' = NoOffer
  BY <1>1 DEF Consult
<1>2. ASSUME NEW m \in Models, NEW k \in Keys, MarkAnswered(m, k)
      PROVE  offer' = NoOffer
  BY <1>2, Zenon DEF MarkAnswered
<1>3. ASSUME NEW m \in Models, NEW k \in Keys, NEW f \in Refusals, MarkRefused(m, k, f)
      PROVE  offer' = NoOffer
  BY <1>3 DEF MarkRefused
<1>4. ASSUME NEW m \in Models, NEW k \in Keys, NEW fan \in [Keys -> 0..ThawFan], Thaw(m, k, fan)
      PROVE  offer' = NoOffer
  BY <1>4 DEF Thaw
<1>5. ASSUME NEW m \in Models, ResetPoolRead(m) \/ ResetPoolForget(m) \/ ResetPoolRestore(m)
      PROVE  offer' = NoOffer
  BY <1>5 DEF ResetPoolRead, ResetPoolForget, ResetPoolRestore
<1>6. ResetAll => offer' = NoOffer
  BY Zenon DEF ResetAll
<1>7. ASSUME NEW seconds \in Dials, TurnDial(seconds)
      PROVE  offer' = NoOffer
  BY <1>7 DEF TurnDial
<1>8. Tick => offer' = NoOffer
  BY DEF Tick
<1>9. ASSUME NEW to \in Start..MaxTime, StepBack(to)
      PROVE  offer' = NoOffer
  BY <1>9 DEF StepBack
<1> QED
  BY <1>1, <1>2, <1>3, <1>4, <1>5, <1>6, <1>7, <1>8, <1>9 DEF Next

LEMMA AgreesStep == TypeOK /\ OfferAgrees /\ [Next]_vars => OfferAgrees'
<1> SUFFICES ASSUME TypeOK, OfferAgrees, [Next]_vars PROVE OfferAgrees'
  OBVIOUS
<1>1. CASE \E m \in Models, usable \in SUBSET Keys, spread \in Spreads : Select(m, usable, spread)
  BY <1>1, SelectAgrees
<1>2. CASE offer' = NoOffer
  BY <1>2 DEF OfferAgrees, NoOffer
<1>3. CASE UNCHANGED vars
  <2>1. UNCHANGED <<clock, max_hold, known, memory, accountHold, offer>>
    BY <1>3 DEF vars, pools
  <2>2. \A m, k : State(m, k)' = State(m, k)
    BY <2>1, Zenon DEF State
  <2>3. \A m, k : Deadline(m, k)' = Deadline(m, k)
    BY <2>1, <2>2, Zenon DEF Deadline, Trimmed
  <2>4. \A m, usable : Standing(m, usable)' = Standing(m, usable)
    BY <2>2 DEF Standing
  <2>5. \A m, k : Healthy(m, k)' <=> Healthy(m, k)
    BY <2>1, <2>3 DEF Healthy
  <2> QED
    BY <2>1, <2>3, <2>4, <2>5, Zenon DEF OfferAgrees
<1> QED
  BY <1>1, <1>2, <1>3, OnlySelectOffers

(* In every run, for any keys and models: a pool is exhausted exactly when *)
(* healthy_count finds none and there is something to wait for, the key    *)
(* named by a refused select is one that recovers first, and the key       *)
(* handed out is healthy (core/carousel.py:1613-1626).                     *)
THEOREM TheReadersAgree == Spec => []ReadersAgree
<1>1. Init => OfferAgrees
  <2>1. Init => offer = NoOffer
    BY Zenon DEF Init
  <2> QED
    BY <2>1 DEF NoOffer, OfferAgrees
<1>2. ASSUME TypeOK, NEW m \in Models, NEW usable \in (SUBSET Keys) \ {{}}
      PROVE  (HealthyCount(m, usable) = 0) <=> (NextRecovery(m, usable) > 0)
  <2> DEFINE S == Standing(m, usable)
             healthy == {k \in S : Healthy(m, k)}
  <2>1. HealthyCount(m, usable) = Cardinality(healthy)
    BY DEF HealthyCount
  <2>2. S \subseteq Keys
    BY StandingOffered
  <2>3. IsFiniteSet(healthy)
    BY <2>2, FS_Subset, CarouselAssumption DEF CarouselAssumption
  <2>4. Cardinality(healthy) = 0 <=> healthy = {}
    BY <2>3, FS_EmptySet
  <2>5. PICK k \in S :
           /\ Deadline(m, k) \in Nat
           /\ \A j \in S : Deadline(m, k) <= Deadline(m, j)
           /\ NextRecovery(m, usable) =
                 IF Deadline(m, k) <= clock THEN 0 ELSE Deadline(m, k) - clock
    BY <1>2, SoonestIsFound DEF SoonestFound
  <2>6. clock \in Nat /\ \A j \in S : Deadline(m, j) \in Nat
    BY <1>2, <2>2, Times, DeadlineType
  <2> HIDE DEF S
  <2>7. healthy = {} <=> ~(Deadline(m, k) <= clock)
    BY <2>5, <2>6 DEF Healthy
  <2>8. (NextRecovery(m, usable) > 0) <=> ~(Deadline(m, k) <= clock)
    BY <2>5, <2>6
  <2> QED
    BY <2>1, <2>4, <2>7, <2>8
<1>3. ASSUME TypeOK, OfferAgrees, offer.outcome = "EXHAUSTED"
      PROVE  Deadline(offer.model, offer.key) - clock = NextRecovery(offer.model, offer.usable)
  <2> DEFINE m == offer.model
             key == offer.key
             S == Standing(m, offer.usable)
  <2>1. /\ m \in Models /\ offer.usable \in (SUBSET Keys) \ {{}} /\ key \in S
        /\ ~(Deadline(m, key) <= clock) /\ \A j \in S : Deadline(m, key) <= Deadline(m, j)
    BY <1>3 DEF OfferAgrees, Healthy
  <2>2. PICK k \in S :
           /\ Deadline(m, k) \in Nat
           /\ \A j \in S : Deadline(m, k) <= Deadline(m, j)
           /\ NextRecovery(m, offer.usable) =
                 IF Deadline(m, k) <= clock THEN 0 ELSE Deadline(m, k) - clock
    BY <1>3, <2>1, SoonestIsFound DEF SoonestFound
  <2>3. S \subseteq Keys
    BY <2>1, StandingOffered
  <2>4. Deadline(m, key) \in Nat /\ clock \in Nat
    BY <1>3, <2>1, <2>3, DeadlineType, Times
  <2> HIDE DEF m, key, S
  <2>5. Deadline(m, key) = Deadline(m, k)
    BY <2>1, <2>2, <2>4
  <2>6. Deadline(m, key) - clock = NextRecovery(m, offer.usable)
    BY <2>1, <2>2, <2>4, <2>5
  <2> QED
    BY <2>6 DEF m, key
<1>4. TypeOK /\ OfferAgrees => ReadersAgree
  BY <1>2, <1>3 DEF ReadersAgree, OfferAgrees
<1> QED
  BY <1>1, <1>4, AgreesStep, TypeCorrect, PTL DEF Spec
-----------------------------------------------------------------------------
\* ---- A day's rest ----

\* While a pool's silence is being timed, no key of it has answered since it
\* began.
Silence ==
    \A m \in Models : /\ lastAnswer[m] <= clock
                      /\ noAnswerSince[m] # NoTime => lastAnswer[m] <= noAnswerSince[m]

LEMMA SilenceMarkAnswered ==
    ASSUME TypeOK, Silence, NEW m \in Models, NEW k \in Keys, MarkAnswered(m, k)
    PROVE  Silence'
<1>1. /\ lastAnswer' = [lastAnswer EXCEPT ![m] = clock]
      /\ noAnswerSince' = [noAnswerSince EXCEPT ![m] = NoTime]
      /\ clock' = clock
  BY Zenon DEF MarkAnswered
<1>2. clock \in Nat
  BY Times
<1>3. noAnswerSince \in [Models -> Nat \cup {NoTime}] /\ lastAnswer \in [Models -> Nat]
  BY DEF TypeOK
<1>4. ASSUME NEW q \in Models
      PROVE  /\ lastAnswer'[q] <= clock'
             /\ noAnswerSince'[q] # NoTime => lastAnswer'[q] <= noAnswerSince'[q]
  <2>1. CASE q = m
    BY <1>1, <1>2, <1>3, <2>1
  <2>2. CASE q # m
    BY <1>1, <1>3, <2>2 DEF Silence
  <2> QED
    BY <2>1, <2>2
<1> QED
  BY <1>4 DEF Silence

LEMMA SilenceMarkRefused ==
    ASSUME TypeOK, Silence, NEW m \in Models, NEW k \in Keys, NEW refusal \in Refusals,
           MarkRefused(m, k, refusal)
    PROVE  Silence'
<1> DEFINE f == Renamed(refusal, named[m][k])
<1>1. /\ noAnswerSince' = [noAnswerSince EXCEPT ![m] = SilentSince(m, f)]
      /\ lastAnswer' = lastAnswer /\ clock' = clock
  BY DEF MarkRefused
<1> HIDE DEF f
<1>2. SilentSince(m, f) = noAnswerSince[m] \/ SilentSince(m, f) = clock
  BY DEF SilentSince
<1>3. noAnswerSince \in [Models -> Nat \cup {NoTime}]
  BY DEF TypeOK
<1>4. ASSUME NEW q \in Models
      PROVE  /\ lastAnswer'[q] <= clock'
             /\ noAnswerSince'[q] # NoTime => lastAnswer'[q] <= noAnswerSince'[q]
  <2>1. CASE q = m
    BY <1>1, <1>2, <1>3, <2>1 DEF Silence
  <2>2. CASE q # m
    BY <1>1, <1>3, <2>2 DEF Silence
  <2> QED
    BY <2>1, <2>2
<1> QED
  BY <1>4 DEF Silence

\* Nothing else moves a pool's silence, other than to forget it, or its last
\* answer, other than to pull it back with the clock.
LEMMA SilenceOtherwise ==
    ASSUME TypeOK, Silence,
           \A m \in Models : noAnswerSince'[m] \in {noAnswerSince[m], NoTime},
           lastAnswer' = lastAnswer, clock' \in Nat, clock' >= clock
    PROVE  Silence'
<1>1. \A m \in Models : lastAnswer[m] \in Nat
  BY DEF TypeOK
<1> QED
  BY <1>1, Times DEF Silence

LEMMA SilenceStepBack ==
    ASSUME TypeOK, Silence, NEW to \in Start..MaxTime, StepBack(to)
    PROVE  Silence'
<1>1. /\ clock' = to /\ noAnswerSince' = noAnswerSince
      /\ lastAnswer' = [m \in Models |-> Earlier(lastAnswer[m], to)]
  BY DEF StepBack, pools
<1>2. to \in Nat
  BY CarouselAssumption DEF CarouselAssumption
<1>3. \A m \in Models : /\ lastAnswer[m] \in Nat
                        /\ noAnswerSince[m] # NoTime => noAnswerSince[m] \in Nat
  BY DEF TypeOK
<1> QED
  BY <1>1, <1>2, <1>3 DEF Silence, Earlier

LEMMA SilenceStep == TypeOK /\ Silence /\ [Next]_vars => Silence'
<1> SUFFICES ASSUME TypeOK, Silence, [Next]_vars PROVE Silence'
  OBVIOUS
<1>1. clock \in Nat
  BY Times
<1>2. CASE \E m \in Models, usable \in SUBSET Keys, spread \in Spreads : Select(m, usable, spread)
  <2>1. UNCHANGED <<noAnswerSince, lastAnswer, clock>>
    BY <1>2 DEF Select
  <2> QED
    BY <1>1, <2>1, SilenceOtherwise
<1>3. CASE \E m \in Models, usable \in SUBSET Keys : Consult(m, usable)
  <2>1. UNCHANGED <<noAnswerSince, lastAnswer, clock>>
    BY <1>3 DEF Consult, history
  <2> QED
    BY <1>1, <2>1, SilenceOtherwise
<1>4. CASE \E m \in Models, k \in Keys : MarkAnswered(m, k)
  BY <1>4, SilenceMarkAnswered
<1>5. CASE \E m \in Models, k \in Keys, f \in Refusals : MarkRefused(m, k, f)
  BY <1>5, SilenceMarkRefused
<1>6. CASE \E m \in Models, k \in Keys, fan \in [Keys -> 0..ThawFan] : Thaw(m, k, fan)
  <2>1. UNCHANGED <<noAnswerSince, lastAnswer, clock>>
    BY <1>6 DEF Thaw, history
  <2> QED
    BY <1>1, <2>1, SilenceOtherwise
<1>7. ASSUME NEW m \in Models, ResetPoolForget(m)
      PROVE  Silence'
  <2>1. /\ noAnswerSince' = [noAnswerSince EXCEPT ![m] = NoTime]
        /\ lastAnswer' = lastAnswer /\ clock' = clock
    BY <1>7, Zenon DEF ResetPoolForget, Forgotten
  <2>2. \A q \in Models : noAnswerSince'[q] \in {noAnswerSince[q], NoTime}
    BY <2>1 DEF TypeOK
  <2> QED
    BY <1>1, <2>1, <2>2, SilenceOtherwise
<1>8. ASSUME NEW m \in Models, ResetPoolRead(m) \/ ResetPoolRestore(m)
      PROVE  Silence'
  <2>1. UNCHANGED <<noAnswerSince, lastAnswer, clock>>
    BY <1>8 DEF ResetPoolRead, ResetPoolRestore, pools, history
  <2> QED
    BY <1>1, <2>1, SilenceOtherwise
<1>9. CASE ResetAll
  <2>1. /\ noAnswerSince' = [m \in Models |-> NoTime]
        /\ lastAnswer' = lastAnswer /\ clock' = clock
    BY <1>9, Zenon DEF ResetAll
  <2> QED
    BY <1>1, <2>1, SilenceOtherwise
<1>10. ASSUME NEW seconds \in Dials, TurnDial(seconds)
       PROVE  Silence'
  <2>1. UNCHANGED <<noAnswerSince, lastAnswer, clock>>
    BY <1>10 DEF TurnDial, pools
  <2> QED
    BY <1>1, <2>1, SilenceOtherwise
<1>11. CASE Tick
  <2>1. UNCHANGED <<noAnswerSince, lastAnswer>> /\ clock' = clock + 1
    BY <1>11 DEF Tick, pools, history
  <2> QED
    BY <1>1, <2>1, SilenceOtherwise
<1>12. CASE \E to \in Start..MaxTime : StepBack(to)
  BY <1>12, SilenceStepBack
<1>13. CASE UNCHANGED vars
  <2>1. UNCHANGED <<noAnswerSince, lastAnswer, clock>>
    BY <1>13 DEF vars, pools, history
  <2> QED
    BY <1>1, <2>1, SilenceOtherwise
<1> QED
  BY <1>2, <1>3, <1>4, <1>5, <1>6, <1>7, <1>8, <1>9, <1>10, <1>11, <1>12, <1>13 DEF Next

\* Only mark rules on a key.
LEMMA OnlyMarkRules ==
    ASSUME Next
    PROVE  \/ ruling' = NoRuling
           \/ \E m \in Models, k \in Keys, f \in Refusals : MarkRefused(m, k, f)
<1>1. ASSUME NEW m \in Models, NEW usable \in SUBSET Keys, NEW spread \in Spreads,
             Select(m, usable, spread)
      PROVE  ruling' = NoRuling
  BY <1>1 DEF Select
<1>2. ASSUME NEW m \in Models, NEW usable \in SUBSET Keys, Consult(m, usable)
      PROVE  ruling' = NoRuling
  BY <1>2 DEF Consult
<1>3. ASSUME NEW m \in Models, NEW k \in Keys, MarkAnswered(m, k)
      PROVE  ruling' = NoRuling
  BY <1>3, Zenon DEF MarkAnswered
<1>4. ASSUME NEW m \in Models, NEW k \in Keys, NEW fan \in [Keys -> 0..ThawFan], Thaw(m, k, fan)
      PROVE  ruling' = NoRuling
  BY <1>4 DEF Thaw
<1>5. ASSUME NEW m \in Models, ResetPoolRead(m) \/ ResetPoolForget(m) \/ ResetPoolRestore(m)
      PROVE  ruling' = NoRuling
  BY <1>5 DEF ResetPoolRead, ResetPoolForget, ResetPoolRestore
<1>6. ResetAll => ruling' = NoRuling
  BY Zenon DEF ResetAll
<1>7. ASSUME NEW seconds \in Dials, TurnDial(seconds)
      PROVE  ruling' = NoRuling
  BY <1>7 DEF TurnDial
<1>8. Tick => ruling' = NoRuling
  BY DEF Tick
<1>9. ASSUME NEW to \in Start..MaxTime, StepBack(to)
      PROVE  ruling' = NoRuling
  BY <1>9 DEF StepBack
<1> QED
  BY <1>1, <1>2, <1>3, <1>4, <1>5, <1>6, <1>7, <1>8, <1>9 DEF Next

\* While the pool answers, an unsized daily refusal is a recheck.
LEMMA RecheckIsShort ==
    ASSUME NEW s \in KeyState, NEW f \in Refusal, NEW c \in Nat, NEW maxHold \in Nat,
           f.kind = "daily", ~f.stated, ~f.calendar
    PROVE  Rest(s, f, c, TRUE, maxHold) <= RateCap
<1> USE KeyMemoryAssumption DEF KeyMemoryAssumption
<1>1. DailyRest(f, TRUE) = Earlier(RateCap, DailyCooldown)
  BY DEF DailyRest
<1>2. Earlier(RateCap, DailyCooldown) \in Nat /\ Earlier(RateCap, DailyCooldown) <= RateCap
  BY DEF Earlier
<1> DEFINE sized == CASE f.kind = "insufficient_quota" -> Later(f.delay, DailyCooldown)
                      [] f.kind = "daily"              -> DailyRest(f, TRUE)
                      [] f.kind \in RejectedKinds      -> RejectedRest(s, f)
                      [] f.kind \in Throttles          -> ThrottleRest(s, f, c, maxHold)
                      [] f.kind = "server"             -> ServerRest(f)
                      [] OTHER                         -> f.delay
<1>3. sized = DailyRest(f, TRUE)
  BY DEF RejectedKinds, Throttles
<1>4. Rest(s, f, c, TRUE, maxHold) = Earlier(sized, Earlier(HardCap, maxHold))
  BY DEF Rest
<1> DEFINE ceilings == Earlier(HardCap, maxHold)
<1>5. ceilings \in Nat
  BY DEF Earlier
<1>6. sized \in Nat /\ sized <= RateCap
  BY <1>1, <1>2, <1>3
<1> HIDE DEF sized, ceilings
<1>7. Earlier(sized, ceilings) <= sized
  BY <1>5, <1>6 DEF Earlier
<1>8. Earlier(sized, ceilings) \in Nat /\ RateCap \in Nat
  BY <1>5, <1>6 DEF Earlier
<1>9. Earlier(sized, ceilings) <= RateCap
  BY <1>6, <1>7, <1>8
<1> QED
  BY <1>4, <1>9, Zenon DEF ceilings

LEMMA RulingNeedsSilence ==
    ASSUME TypeOK, Silence, NEW m \in Models, NEW k \in Keys, NEW refusal \in Refusals,
           MarkRefused(m, k, refusal)
    PROVE  DayRestNeedsSilence'
<1> DEFINE learned   == Taught(ceiling[m][k], refusal)
           f         == Renamed(refusal, named[m][k])
           since     == SilentSince(m, f)
           poolAlive == f.kind = "daily" => clock - since < PoolSilence
           counted   == Counted(Blamed(State(m, k), refusal), f, learned)
           rest      == Rest(counted, f, learned, poolAlive, max_hold)
<1>1. /\ ruling' = [outcome |-> "held", model |-> m, refusal |-> f, rest |-> rest]
      /\ lastAnswer' = lastAnswer /\ clock' = clock
  BY DEF MarkRefused
<1>2. refusal \in Refusal /\ clock \in Nat /\ max_hold \in Nat
  BY Times, CarouselAssumption DEF CarouselAssumption
<1>3. learned \in Nat /\ f \in Refusal /\ counted \in KeyState
  <2> HIDE DEF poolAlive
  <2>1. poolAlive \in BOOLEAN
    BY DEF poolAlive
  <2> QED
    BY <1>2, <2>1, RefusedType
<1>4. since = clock \/ (since = noAnswerSince[m] /\ (f.kind = "daily" => since # NoTime))
  <2> HIDE DEF f
  <2> QED
    BY DEF SilentSince
<1>5. f.kind = "daily" => since \in Nat /\ lastAnswer[m] <= since
  <2>1. noAnswerSince[m] \in Nat \cup {NoTime}
    BY DEF TypeOK
  <2> HIDE DEF f, since
  <2> QED
    BY <1>2, <1>4, <2>1 DEF Silence
<1>6. ASSUME f.kind = "daily", ~f.stated, ~f.calendar, rest > RateCap
      PROVE  lastAnswer[m] + PoolSilence <= clock
  <2>1. ~poolAlive
    <3>1. SUFFICES ASSUME poolAlive PROVE FALSE
      OBVIOUS
    <3> DEFINE alive == poolAlive
    <3>2. alive = TRUE
      BY <3>1
    <3>3. rest = Rest(counted, f, learned, alive, max_hold)
      OBVIOUS
    <3> HIDE DEF learned, f, counted, alive, poolAlive
    <3>4. Rest(counted, f, learned, TRUE, max_hold) <= RateCap
      BY <1>2, <1>3, <1>6, RecheckIsShort
    <3>5. rest <= RateCap
      BY <3>2, <3>3, <3>4
    <3>6. rest \in Nat /\ RateCap \in Nat
      <4>1. alive \in BOOLEAN
        BY <3>2
      <4> QED
        BY <1>2, <1>3, <3>3, <4>1, RestBounded, KeyMemoryAssumption DEF KeyMemoryAssumption
    <3> HIDE DEF rest
    <3> QED
      BY <1>6, <3>5, <3>6
  <2>2. ~(clock - since < PoolSilence)
    BY <2>1
  <2>3. PoolSilence \in Nat /\ lastAnswer[m] \in Nat
    BY CarouselAssumption DEF CarouselAssumption, TypeOK
  <2> HIDE DEF f, since
  <2> QED
    BY <1>2, <1>5, <1>6, <2>2, <2>3
<1> HIDE DEF f, rest
<1>7. ruling'.model = m /\ ruling'.refusal = f /\ ruling'.rest = rest
  BY <1>1
<1> QED
  BY <1>1, <1>6, <1>7 DEF DayRestNeedsSilence

(* For every set of refusals and every history of them: only a pool that   *)
(* has answered nothing for POOL_SILENCE_BEFORE_THE_DAY_S has a key put to *)
(* rest for the day on an unsized refusal (core/carousel.py:2205-2235).    *)
THEOREM ADayNeedsSilence == Spec => []DayRestNeedsSilence
<1>1. Init => Silence /\ DayRestNeedsSilence
  <2>1. Init => /\ ruling = NoRuling /\ clock = Start
                /\ noAnswerSince = [m \in Models |-> NoTime]
                /\ lastAnswer = [m \in Models |-> Start]
    BY Zenon DEF Init
  <2>2. Start \in Nat
    BY CarouselAssumption DEF CarouselAssumption
  <2> QED
    BY <2>1, <2>2 DEF Silence, DayRestNeedsSilence, NoRuling
<1>2. TypeOK /\ Silence /\ DayRestNeedsSilence /\ [Next]_vars => DayRestNeedsSilence'
  <2> SUFFICES ASSUME TypeOK, Silence, DayRestNeedsSilence, [Next]_vars
               PROVE  DayRestNeedsSilence'
    OBVIOUS
  <2>1. CASE \E m \in Models, k \in Keys, f \in Refusals : MarkRefused(m, k, f)
    BY <2>1, RulingNeedsSilence
  <2>2. CASE ruling' = NoRuling
    BY <2>2 DEF DayRestNeedsSilence, NoRuling
  <2>3. CASE UNCHANGED vars
    BY <2>3 DEF vars, history, DayRestNeedsSilence
  <2> QED
    BY <2>1, <2>2, <2>3, OnlyMarkRules
<1> QED
  BY <1>1, <1>2, SilenceStep, TypeCorrect, PTL DEF Spec
-----------------------------------------------------------------------------
\* ---- What a failure is read as ----

\* The judgement mark() would be handed, before and after the corrections.
FirstReading(f) == IF Classified(f) = Declined THEN Tabled(f) ELSE FromVerdict(f, Classified(f))

Quirk(f)        == Outranked(f, Reinterpreted(f, FirstReading(f).kind))

LastReading(f)  == Corrected(f, FirstReading(f), Quirk(f))

\* A failure that ends no turn is handed to mark with its last reading.
LEMMA ReadMarks ==
    ASSUME NEW f, ~Read(f).ends
    PROVE  Read(f).refusal = Handed(f, Classified(f), LastReading(f)) /\ Quirk(f) # "request_fault"
BY DEF Read, FirstReading, Quirk, LastReading, Ends, Marks

LEMMA ReadGoesOn ==
    ASSUME NEW f, f.code \notin {"content", "fault", "relayed"}, ~NamesMaintenance(f),
           ~NotReady(f, Classified(f)), Quirk(f) # "request_fault", LastReading(f).kind # "host_breaker", ~IsTerminal(f)
    PROVE  ~Read(f).ends
BY DEF Read, FirstReading, Quirk, LastReading, Ends, Marks

\* Who writes a rule's verdict: no rule for a 429 refuses the request, and the
\* two that condemn a key name the key.
LEMMA RuleTable ==
    /\ DOMAIN QuirkRules = 1..21
    /\ \A i \in 1..21 :
          LET rule == QuirkRules[i] IN
          /\ rule.as \in {"auth", "per_minute", "denied", "server", "billing", "request_fault"}
          /\ rule.as = "request_fault" => 429 \notin rule.on
          /\ rule.as = "auth" => rule.says # {} /\ rule.says \subseteq KeyWords
<1>1. DOMAIN QuirkRules = 1..21
  BY DEF QuirkRules
<1>2. ASSUME NEW i \in 1..21
      PROVE  QuirkRules[i].as \in {"auth", "per_minute", "denied", "server", "billing",
                                   "request_fault"}
  BY DEF QuirkRules, Rule
<1>3. ASSUME NEW i \in 1..21, QuirkRules[i].as = "request_fault"
      PROVE  429 \notin QuirkRules[i].on
  <2>1. i \in {6, 7, 11, 16}
    BY <1>3 DEF QuirkRules, Rule
  <2>2. /\ QuirkRules[6].on = {400, 401, 403} /\ QuirkRules[11].on = {400, 403}
        /\ QuirkRules[7].on = {NoStatus, 400, 413, 422, 500} /\ QuirkRules[16].on = {500, 503}
    BY DEF QuirkRules, Rule, Server5
  <2> QED
    BY <2>1, <2>2 DEF NoStatus
<1>4. ASSUME NEW i \in 1..21, QuirkRules[i].as = "auth"
      PROVE  QuirkRules[i].says # {} /\ QuirkRules[i].says \subseteq KeyWords
  <2>1. i \in {1, 13}
    BY <1>4 DEF QuirkRules, Rule
  <2>2. QuirkRules[1].says = {"aws_key"} /\ QuirkRules[13].says = {"missing_auth"}
    BY DEF QuirkRules, Rule
  <2> QED
    BY <2>1, <2>2 DEF KeyWords
<1> QED
  BY <1>1, <1>2, <1>3, <1>4

NoRule(f, kind) == Reinterpreted(f, kind) = ""

LEMMA RuleApplied ==
    ASSUME NEW f, NEW kind, ~NoRule(f, kind)
    PROVE  \E i \in 1..21 : /\ Applies(QuirkRules[i], f, kind)
                            /\ Reinterpreted(f, kind) = QuirkRules[i].as
<1> DEFINE apply == {i \in DOMAIN QuirkRules : Applies(QuirkRules[i], f, kind)}
           first == CHOOSE i \in apply : \A j \in apply : i <= j
<1>1. apply # {} /\ Reinterpreted(f, kind) = QuirkRules[first].as
  <2>1. apply # {} /\ kind # "revoked"
    BY DEF Reinterpreted, NoRule
  <2> QED
    BY <2>1 DEF Reinterpreted
<1>2. apply \subseteq 1..21 /\ apply \subseteq Nat
  <2>1. DOMAIN QuirkRules = 1..21
    BY RuleTable
  <2>2. apply \subseteq DOMAIN QuirkRules
    OBVIOUS
  <2> HIDE DEF apply
  <2> QED
    BY <2>1, <2>2
<1>3. \E i \in apply : \A j \in apply : i <= j
  <2> HIDE DEF apply
  <2> QED
    BY <1>1, <1>2, LeastNumber
<1>4. first \in apply
  <2> HIDE DEF apply
  <2> QED
    BY <1>3
<1> QED
  BY <1>1, <1>2, <1>4

\* Where some rule applies, one decides.
LEMMA SomeRuleDecides ==
    ASSUME NEW f, NEW kind, kind # "revoked", NEW i \in 1..21, Applies(QuirkRules[i], f, kind)
    PROVE  ~NoRule(f, kind)
<1> DEFINE apply == {j \in DOMAIN QuirkRules : Applies(QuirkRules[j], f, kind)}
           first == CHOOSE j \in apply : \A k \in apply : j <= k
<1>1. i \in apply /\ apply \subseteq 1..21
  BY RuleTable
<1>2. \E j \in apply : \A k \in apply : j <= k
  <2> HIDE DEF apply
  <2> QED
    BY <1>1, LeastNumber
<1>3. first \in 1..21
  <2>1. first \in apply
    <3> HIDE DEF apply
    <3> QED
      BY <1>2
  <2> QED
    BY <1>1, <2>1
<1>4. Reinterpreted(f, kind) = QuirkRules[first].as
  BY <1>1 DEF Reinterpreted
<1>5. QuirkRules[first].as # ""
  <2> HIDE DEF first
  <2>1. QuirkRules[first].as \in {"auth", "per_minute", "denied", "server", "billing",
                                     "request_fault"}
    BY <1>3, RuleTable
  <2> QED
    BY <2>1
<1> QED
  BY <1>4, <1>5 DEF NoRule

LEMMA ThrottlesAreNoFault ==
    ASSUME NEW f, f.status = 429, NEW kind
    PROVE  Reinterpreted(f, kind) # "request_fault"
<1> SUFFICES ASSUME Reinterpreted(f, kind) = "request_fault" PROVE FALSE
  OBVIOUS
<1>0. ~NoRule(f, kind)
  BY DEF NoRule
<1>1. PICK i \in 1..21 : /\ Applies(QuirkRules[i], f, kind)
                         /\ Reinterpreted(f, kind) = QuirkRules[i].as
  BY <1>0, RuleApplied
<1> QED
  BY <1>1, RuleTable DEF Applies

\* A throttle ends the turn only when it says that the model is not ready and the
\* first reader can size no rest from it, whatever else it says: the phrases of a
\* content policy, of a dead key, of a fault elsewhere.
THEOREM ThrottlesEndNoTurn ==
    ASSUME NEW f, f.status = 429, f.code \in Codes \ OtherCodes,
           f.words \subseteq Phrases \ OtherWords
    PROVE  Read(f).ends => f.code = "unready" /\ Classified(f) = Declined
<1> SUFFICES ASSUME ~NotReady(f, Classified(f)) PROVE ~Read(f).ends
  BY DEF NotReady
<1>1. f.code \notin {"content", "fault", "relayed", "breaker", "filtered"}
  BY DEF Codes, Family, OtherCodes
<1>2. ~Names(f, HostBreaker) /\ ~Names(f, HostBreaker \cup RequestContentBlock)
  <2>1. {"filtered", "content", "breaker"} \cap f.words = {}
    BY DEF Phrases, OtherWords
  <2> QED
    BY <1>1, <2>1 DEF Names, Says, HostBreaker, RequestContentBlock
<1>3. ~NamesMaintenance(f)
  BY DEF NamesMaintenance, NoStatus
<1>4. ~IsTerminal(f)
  BY <1>2 DEF IsTerminal
<1>5. Quirk(f) # "request_fault"
  BY ThrottlesAreNoFault DEF Quirk, Outranked
<1>6. LastReading(f).kind # "host_breaker"
  <2>1. Tabled(f).kind # "host_breaker"
    BY <1>2 DEF Tabled, Judged
  <2>2. ASSUME NEW v PROVE FromVerdict(f, v).kind # "host_breaker"
    BY DEF FromVerdict, Judged
  <2>3. FirstReading(f).kind # "host_breaker"
    BY <2>1, <2>2 DEF FirstReading
  <2> QED
    BY <2>3 DEF LastReading, Corrected, Judged
<1> QED
  BY <1>1, <1>3, <1>4, <1>5, <1>6, ReadGoesOn

LEMMA TheTablesNumber ==
    ASSUME NEW f, f.status = 429, Extracted(f) > 0,
           Tabled(f).kind \in Throttles \cup {"server"}
    PROVE  Tabled(f).delay = Extracted(f)
<1>1. StatedOr(f, ServerBase) = Extracted(f) /\ StatedOr(f, OtherFor) = Extracted(f)
  BY DEF StatedOr
<1>2. Tabled(f) \in {Judged("server", StatedOr(f, ServerBase)),
                     Judged("per_minute", StatedOr(f, OtherFor))}
         \/ Tabled(f).kind \in {"host_breaker", "timeout", "revoked", "denied", "auth",
                                "insufficient_quota", "other", "daily"}
  BY DEF Tabled, Judged
<1> QED
  BY <1>1, <1>2 DEF Judged, Throttles

LEMMA Verdicts ==
    ASSUME NEW f
    PROVE  \/ Classified(f) \in {Declined, DeadKey, Unpaid, Denied}
           \/ \E c : Classified(f) = Sized(f, c)
<1> DEFINE certain == Catalogued(f) \in {"throttle", "family"}
<1>1. \/ Classified(f) = Declined \/ Classified(f) = DeadKey \/ Classified(f) = Unpaid
      \/ Classified(f) = Denied \/ Classified(f) = Sized(f, certain)
  BY DEF Classified
<1> QED
  BY <1>1

LEMMA TheVerdictsNumber ==
    ASSUME NEW f, f.status = 429, f.seconds \in Nat, Extracted(f) > 0,
           Classified(f) # Declined,
           FromVerdict(f, Classified(f)).kind \in Throttles \cup {"server"}
    PROVE  FromVerdict(f, Classified(f)).delay = Extracted(f)
<1> DEFINE v == Classified(f)
           w == Window(f)
<1>1. f.wait = "retry" /\ Extracted(f) = f.seconds /\ f.seconds > 0
  BY DEF Extracted
<1>2. v \in {DeadKey, Unpaid, Denied} \/ \E c : v = Sized(f, c)
  BY Verdicts
<1>3. v.reason \notin {"dead", "billing", "denied"} /\ v # DeadKey /\ v # Unpaid /\ v # Denied
  BY DEF FromVerdict, Judged, Throttles, DeadKey, Unpaid, Denied, Verdict
<1> DEFINE d == Decision(f)
<1>4. \/ d.theirs /\ d.size = f.seconds
      \/ ~d.theirs /\ w \in LongWindows /\ f.seconds < DayFor /\ d.size = DayFor
  BY <1>1, FailureReadingAssumption DEF Decision, FailureReadingAssumption
<1>5. d.size > 0
  BY <1>1, <1>4, FailureReadingAssumption DEF FailureReadingAssumption
<1> DEFINE wide == w = "account" \/ (w = "per_month" /\ ~d.theirs)
<1>6. /\ wide => \E a, b : v = Verdict("billing", d.size, d.theirs, b, w, a)
      /\ ~wide => v = Verdict("throttle", d.size, d.theirs, d.calendar, w, FALSE)
  <2>1. PICK c : v = Sized(f, c)
    BY <1>2, <1>3
  <2>2. v = IF wide THEN Verdict("billing", d.size, d.theirs, FALSE, w, w = "account")
                    ELSE Verdict("throttle", d.size, d.theirs, d.calendar, w, FALSE)
    <3>1. d.size # 0
      BY <1>5
    <3> QED
      BY <2>1, <3>1, Zenon DEF Sized
  <2> HIDE DEF wide
  <2> QED
    BY <2>2, Zenon
<1>7. v.reason = "throttle" /\ v.size = d.size /\ v.window = w /\ w # "account"
      /\ ~(w = "per_month" /\ ~d.theirs)
  BY <1>3, <1>6 DEF Verdict
<1>8. w # "per_day"
  BY <1>7 DEF FromVerdict, Judged, Throttles
<1>9. d.theirs
  BY <1>4, <1>7, <1>8 DEF LongWindows
<1> QED
  BY <1>1, <1>4, <1>7, <1>8, <1>9 DEF FromVerdict, Judged

\* The number a throttle asks for is what its key is rested for: no window the
\* text names, no default and no correction takes its place.
LEMMA StatedNumberKept ==
    ASSUME NEW f, f.status = 429, f.seconds \in Nat, Extracted(f) > 0, ~Read(f).ends,
           Read(f).refusal.kind \in Throttles \cup {"server"}
    PROVE  Read(f).refusal.delay = Extracted(f) /\ Read(f).refusal.stated
<1> DEFINE v == Classified(f)
           last == LastReading(f)
           stated == Extracted(f) > 0 \/ (v.size > 0 /\ v.theirs)
           calendar == v.calendar /\ last.delay > 0
<1>1. Read(f).refusal = Handed(f, v, last)
  BY ReadMarks
<1>2. stated = TRUE /\ (stated \/ calendar) = TRUE
  OBVIOUS
<1>3. Read(f).refusal.kind = last.kind /\ Read(f).refusal.delay = last.delay
      /\ Read(f).refusal.stated = (stated \/ calendar)
  BY <1>1, <1>2 DEF Handed
<1>4. Quirk(f) \notin {"billing", "per_minute", "server"}
  BY DEF Quirk, Outranked
<1>5. last = FirstReading(f)
  BY <1>3, <1>4 DEF LastReading, Corrected, Judged, Throttles
<1>6. last.delay = Extracted(f)
  <2>1. CASE v = Declined
    <3>1. last = Tabled(f)
      BY <1>5, <2>1 DEF FirstReading
    <3> QED
      BY <1>3, <3>1, TheTablesNumber
  <2>2. CASE v # Declined
    <3>1. last = FromVerdict(f, v)
      BY <1>5, <2>2 DEF FirstReading
    <3> QED
      BY <1>3, <2>2, <3>1, TheVerdictsNumber
  <2> QED
    BY <2>1, <2>2
<1> HIDE DEF stated, calendar
<1> QED
  BY <1>2, <1>3, <1>6

LEMMA StatedRest ==
    ASSUME NEW s, NEW f, f.kind \in Throttles \cup {"server"}, f.stated,
           f.delay \in Nat, f.delay > 0, NEW learned, NEW alive, NEW maxHold \in Nat
    PROVE  Rest(s, f, learned, alive, maxHold) >= Earlier(f.delay, Earlier(HardCap, maxHold))
<1>1. HardCap \in Nat /\ RateBase \in Nat
  BY KeyMemoryAssumption DEF KeyMemoryAssumption
<1>2. CASE f.kind \in Throttles
  <2>1. ThrottleRest(s, f, learned, maxHold) = Later(f.delay, RateBase)
    BY DEF ThrottleRest
  <2>2. Rest(s, f, learned, alive, maxHold)
          = Earlier(Later(f.delay, RateBase), Earlier(HardCap, maxHold))
    BY <1>2, <2>1 DEF Rest, Throttles, RejectedKinds
  <2> QED
    BY <1>1, <2>2 DEF Later, Earlier
<1>3. CASE f.kind = "server"
  <2>1. ServerRest(f) = Earlier(f.delay, HardCap)
    BY DEF ServerRest
  <2>2. Rest(s, f, learned, alive, maxHold)
          = Earlier(Earlier(f.delay, HardCap), Earlier(HardCap, maxHold))
    BY <1>3, <2>1 DEF Rest, Throttles, RejectedKinds
  <2> QED
    BY <1>1, <2>2 DEF Earlier
<1> QED
  BY <1>2, <1>3

\* A throttle that says when it ends rests its key until then, as far as the
\* dial and the module's own cap allow, whatever the key has been through.
THEOREM ThrottlesRestAsAsked ==
    ASSUME TypeOK, NEW m \in Models, NEW k \in Keys,
           NEW f, f.status = 429, f.seconds \in Nat, Extracted(f) > 0, ~Read(f).ends,
           Read(f).refusal.kind \in Throttles \cup {"server"}
    PROVE  RestNow(m, k, Read(f).refusal)
             >= Earlier(Extracted(f), Earlier(HardCap, max_hold))
<1>0. PICK r : r = Read(f).refusal
  OBVIOUS
<1>1. r.delay = Extracted(f) /\ r.stated /\ r.kind \in Throttles \cup {"server"}
  BY <1>0, StatedNumberKept
<1>2. Extracted(f) \in Nat
  BY DEF Extracted
<1>3. Renamed(r, named[m][k]) = r
  BY <1>1 DEF Renamed
<1>4. max_hold \in Nat
  BY CarouselAssumption DEF CarouselAssumption, TypeOK
<1>5. PICK s, learned, alive : RestNow(m, k, r) = Rest(s, r, learned, alive, max_hold)
  BY <1>3 DEF RestNow
<1>6. Rest(s, r, learned, alive, max_hold) >= Earlier(r.delay, Earlier(HardCap, max_hold))
  BY <1>1, <1>2, <1>4, StatedRest
<1> QED
  BY <1>0, <1>1, <1>5, <1>6

LEMMA PayloadsOfThrottles ==
    ASSUME NEW f \in ThrottlePayloads
    PROVE  /\ f.status = 429 /\ f.seconds \in Nat /\ f.code \in Codes \ OtherCodes
           /\ f.words \subseteq Phrases \ OtherWords
<1>1. PICK c \in Codes \ OtherCodes, t \in {u \in Texts : u \cap OtherWords = {}},
           n \in NoNumber \cup Numbers : f = Payload(429, c, t, n[1], n[2])
  BY DEF ThrottlePayloads, Payloads
<1>2. n[2] \in Nat
  <2>1. CASE n \in NoNumber
    <3>1. PICK w : n = <<w, 0>>
      BY <2>1 DEF NoNumber
    <3> QED
      BY <3>1
  <2>2. CASE n \in Numbers
    <3>1. PICK W : W = Waits \ {""}
      OBVIOUS
    <3>2. n \in W \X {2, 5}
      BY <2>2, <3>1 DEF Numbers
    <3>3. n[2] \in {2, 5}
      BY <3>2
    <3> QED
      BY <3>3
  <2> QED
    BY <2>1, <2>2
<1>3. t \subseteq Phrases
  BY DEF Texts
<1> QED
  BY <1>1, <1>2, <1>3 DEF Payload

\* ThrottleHonoured: both for the payloads of the instance.
THEOREM ThrottlesAreHonoured == Spec => []ThrottleHonoured
<1>1. ThrottlesThatEnd = {}
  BY PayloadsOfThrottles, ThrottlesEndNoTurn DEF ThrottlesThatEnd, UnsizedNotReady
<1>2. TypeOK => ThrottleHonoured
  <2> SUFFICES ASSUME TypeOK, NEW a \in AskedFor, NEW m \in Models, NEW k \in Keys
               PROVE  RestNow(m, k, a.refusal) >= Earlier(a.seconds, Earlier(HardCap, max_hold))
    BY <1>1 DEF ThrottleHonoured
  <2>1. PICK f \in {g \in ThrottlePayloads : Extracted(g) > 0 /\ ~Read(g).ends} :
           a = [seconds |-> Extracted(f), refusal |-> Read(f).refusal]
    BY DEF AskedFor
  <2>2. a.refusal.kind \in Throttles \cup {"server"}
    BY DEF AskedFor
  <2>3. a.seconds = Extracted(f) /\ a.refusal = Read(f).refusal
    BY <2>1
  <2>4. f.status = 429 /\ f.seconds \in Nat /\ Extracted(f) > 0 /\ ~Read(f).ends
    BY <2>1, PayloadsOfThrottles
  <2> QED
    BY <2>2, <2>3, <2>4, ThrottlesRestAsAsked
<1> QED
  BY <1>2, TypeCorrect, PTL
-----------------------------------------------------------------------------
\* What a payload names is in its words or is its code.
LEMMA NamesNothingOf ==
    ASSUME NEW f, NEW table, f.words \cap table = {}, f.code \notin table
    PROVE  ~Names(f, table)
BY DEF Names, Says

\* Rules 8 and 17 are the ones that speak of the pairing.
LEMMA PairingRules ==
    /\ QuirkRules[8] = [says |-> {"entitlement"}, on |-> {400, 401, 403, 404},
                        from |-> Every, as |-> "denied"]
    /\ QuirkRules[17] = [says |-> {"upgrade"}, on |-> {401, 403},
                         from |-> {"auth", "server", "other"}, as |-> "denied"]
BY DEF QuirkRules, Rule

\* No rule condemns the key of a payload that has nothing against it.
LEMMA RulesSpareTheKey ==
    ASSUME NEW f, NEW kind, f.words \cap KeyWords = {}, f.code \in Codes \ {"dead"}
    PROVE  Reinterpreted(f, kind) \notin {"auth", "revoked"}
<1>1. f.code \notin KeyWords
  BY DEF Codes, Family, KeyWords, DenialExcluded
<1>2. CASE NoRule(f, kind)
  BY <1>2 DEF NoRule
<1>3. CASE ~NoRule(f, kind)
  <2>1. PICK i \in 1..21 : /\ Applies(QuirkRules[i], f, kind)
                           /\ Reinterpreted(f, kind) = QuirkRules[i].as
    BY <1>3, RuleApplied
  <2>2. QuirkRules[i].as # "revoked"
    BY <2>1, RuleTable
  <2>3. ASSUME QuirkRules[i].as = "auth" PROVE FALSE
    <3>1. QuirkRules[i].says # {} /\ QuirkRules[i].says \subseteq KeyWords
      BY <2>1, <2>3, RuleTable
    <3>2. Names(f, QuirkRules[i].says)
      BY <2>1, <3>1 DEF Applies
    <3>3. f.words \cap QuirkRules[i].says = {} /\ f.code \notin QuirkRules[i].says
      BY <1>1, <3>1
    <3> QED
      BY <3>2, <3>3, NamesNothingOf
  <2> QED
    BY <2>1, <2>2, <2>3
<1> QED
  BY <1>2, <1>3

\* The first reader condemns no such key, and the table only by the status.
LEMMA ReadersSpareTheKey ==
    ASSUME NEW f, f.words \subseteq Phrases, f.words \cap KeyWords = {}, f.code \in Codes \ {"dead"}
    PROVE  /\ Classified(f).reason # "dead"
           /\ Tabled(f).kind # "revoked"
           /\ Tabled(f).kind = "auth" => /\ f.status \in {401, 403}
                                         /\ ~Names(f, PermanentDenial)
<1>1. f.words \cap {"invalid_key", "account_suspended", "bad_token", "dead"} = {}
  BY DEF KeyWords, Phrases
<1>2. f.code \notin {"invalid_key", "account_suspended", "bad_token", "dead"}
  BY DEF Codes, Family
<1>3. /\ ~Names(f, PermanentAuth) /\ ~Names(f, InvalidKey)
      /\ ~Names(f, InvalidKey \cup CredentialProblem)
  BY <1>1, <1>2, NamesNothingOf DEF PermanentAuth, InvalidKey, CredentialProblem
<1>4. Classified(f).reason # "dead"
  <2>1. Catalogued(f) # "dead"
    <3>1. Catalogued(f) \in {Family[f.code], "billing", "throttle", ""}
      BY DEF Catalogued
    <3>2. Family[f.code] # "dead"
      <4>1. f.code \in {"throttle", "exhausted", "billing", "denial", "server", "timeout",
                        "success", "fault", "family", "content", "relayed", "unready", "none"}
        BY DEF Codes, Family
      <4>2. /\ Family["throttle"] = "throttle" /\ Family["exhausted"] = "throttle"
            /\ Family["billing"] = "billing" /\ Family["denial"] = "denial"
            /\ Family["server"] = "aside" /\ Family["timeout"] = "aside"
            /\ Family["success"] = "aside" /\ Family["fault"] = "fault"
            /\ Family["family"] = "family" /\ Family["content"] = ""
            /\ Family["relayed"] = "" /\ Family["unready"] = "" /\ Family["none"] = ""
        BY DEF Family
      <4> QED
        BY <4>1, <4>2
    <3> QED
      BY <3>1, <3>2
  <2>2. \/ Classified(f) \in {Declined, Unpaid, Denied} \/ \E c : Classified(f) = Sized(f, c)
    BY <1>3, <2>1 DEF Classified
  <2>3. \A c : Sized(f, c).reason \in {"none", "throttle", "billing"}
    BY DEF Sized, Unsized, Declined, Verdict
  <2>4. Declined.reason = "none" /\ Unpaid.reason = "billing" /\ Denied.reason = "denied"
    BY DEF Declined, Unpaid, Denied, Verdict
  <2> QED
    BY <2>2, <2>3, <2>4
<1>5. Tabled(f).kind # "revoked"
  BY <1>3 DEF Tabled, Judged
<1>6. Tabled(f).kind = "auth" => IsAuthFailure(f) /\ ~Names(f, PermanentDenial)
  <2>1. f.words \cap DenialExcluded = {} /\ f.code \notin DenialExcluded
    BY DEF Codes, Family, KeyWords, DenialExcluded
  <2>2. ~Names(f, DenialExcluded)
    BY <2>1, NamesNothingOf
  <2> QED
    BY <2>2 DEF Tabled, Judged, RefusesThePairing
<1>7. IsAuthFailure(f) => f.status \in {401, 403}
  BY <1>3 DEF IsAuthFailure
<1> QED
  BY <1>4, <1>5, <1>6, <1>7

\* A failure that speaks of this key and this model together, and says nothing
\* against the key, is never read as one that retires it, whatever else it says.
THEOREM PairingCondemnsNoKey ==
    ASSUME NEW f, f.words \subseteq Phrases, f.code \in Codes \ {"dead"},
           f.words \cap KeyWords = {}, f.words \cap PairingWords # {}, ~Read(f).ends
    PROVE  Read(f).refusal.kind \notin RetiringKinds
<1> DEFINE first == FirstReading(f)
<1>1. Read(f).refusal.kind = LastReading(f).kind
  <2>1. \A v, r : Handed(f, v, r).kind = r.kind
    BY DEF Handed
  <2> QED
    BY <2>1, ReadMarks
<1>2. Quirk(f) \notin {"auth", "revoked"}
  BY RulesSpareTheKey DEF Quirk, Outranked
<1>3. first.kind # "revoked"
  BY ReadersSpareTheKey DEF FirstReading, FromVerdict, Judged
<1>4. CASE first.kind # "auth"
  BY <1>1, <1>2, <1>3, <1>4 DEF LastReading, Corrected, Judged, RetiringKinds
<1>5. CASE first.kind = "auth"
  <2>1. first = Tabled(f)
    BY <1>5 DEF FirstReading, FromVerdict, Judged
  <2>2. f.status \in {401, 403} /\ ~Names(f, PermanentDenial)
    BY <1>5, <2>1, ReadersSpareTheKey
  <2>3. "denied" \notin f.words
    BY <2>2 DEF Names, Says, PermanentDenial
  <2>4. "upgrade" \in f.words \/ "entitlement" \in f.words
    BY <2>3 DEF PairingWords
  <2>5. Names(f, {"upgrade"}) \/ Names(f, {"entitlement"})
    BY <2>4 DEF Names, Says
  <2>6. "auth" \in Every
    BY DEF Every, Kinds, RejectedKinds
  <2>7. Applies(QuirkRules[8], f, "auth") \/ Applies(QuirkRules[17], f, "auth")
    BY <2>2, <2>5, <2>6, PairingRules DEF Applies
  <2>8. ~NoRule(f, "auth")
    BY <2>7, SomeRuleDecides
  <2>9. Quirk(f) = Reinterpreted(f, "auth")
    <3>1. f.status # 429
      BY <2>2
    <3> QED
      BY <1>5, <3>1 DEF Quirk, Outranked
  <2>10. Reinterpreted(f, "auth") \in {"per_minute", "denied", "server", "billing", "request_fault"}
    BY <1>2, <2>8, <2>9, RuleApplied, RuleTable
  <2>11. Quirk(f) \in {"per_minute", "denied", "server", "billing"}
    BY <2>9, <2>10, ReadMarks
  <2> QED
    BY <1>1, <2>11 DEF LastReading, Corrected, Judged, RetiringKinds
<1> QED
  BY <1>4, <1>5

\* PairingSparesTheKey: such a failure leaves the key's strikes where they were
\* or takes them back.
THEOREM PairingSparesEveryKey == Spec => []PairingSparesTheKey
<1>1. ASSUME NEW kind \in PairingKinds PROVE kind \notin RetiringKinds
  <2>1. PICK f \in Payloads(Statuses, Codes \ {"dead"},
                            {t \in Texts : t \cap PairingWords # {} /\ t \cap KeyWords = {}},
                            NoNumber \cup Numbers) : ~Read(f).ends /\ kind = Read(f).refusal.kind
    BY <1>1 DEF PairingKinds
  <2>2. PICK s \in Statuses, c \in Codes \ {"dead"},
             t \in {u \in Texts : u \cap PairingWords # {} /\ u \cap KeyWords = {}},
             n \in NoNumber \cup Numbers : f = Payload(s, c, t, n[1], n[2])
    BY <2>1 DEF Payloads
  <2>3. f.code = c /\ f.words = t
    BY <2>2 DEF Payload
  <2>4. t \subseteq Phrases
    BY DEF Texts
  <2> QED
    BY <2>1, <2>3, <2>4, PairingCondemnsNoKey
<1>2. TypeOK => PairingSparesTheKey
  <2> SUFFICES ASSUME TypeOK, NEW kind \in PairingKinds, NEW m \in Models, NEW k \in Keys
               PROVE  LET s == Blamed(State(m, k), [kind |-> kind])
                      IN  /\ s.retired = State(m, k).retired
                          /\ s.consecutive_refusals <= State(m, k).consecutive_refusals
    BY DEF PairingSparesTheKey
  <2>1. PICK q \in KeyState : q = State(m, k)
    BY StateType
  <2>2. q.retired \in BOOLEAN /\ q.consecutive_refusals \in Nat
    <3>1. q.retired \in BOOLEAN /\ q.consecutive_refusals \in 0..RefusalsBeforeRetiring
      BY DEF KeyState
    <3> QED
      BY <3>1, KeyMemoryAssumption DEF KeyMemoryAssumption
  <2>3. Blamed(q, [kind |-> kind]) = [q EXCEPT !.consecutive_refusals = 0, !.retired = @]
    BY <1>1, <2>2 DEF Blamed
  <2>4. PICK b : b = Blamed(q, [kind |-> kind])
    OBVIOUS
  <2>5. b.retired = q.retired /\ b.consecutive_refusals = 0
    BY <2>3, <2>4 DEF KeyState
  <2> QED
    BY <2>1, <2>2, <2>4, <2>5
<1> QED
  BY <1>2, TypeCorrect, PTL
-----------------------------------------------------------------------------
\* A size and what is said about it.
Sizes == [size : Nat, theirs : BOOLEAN, calendar : BOOLEAN]

LEMMA DecisionType == ASSUME NEW f, f.seconds \in Nat PROVE Decision(f) \in Sizes
<1>1. DayFor \in Nat /\ MinuteFor \in Nat
  BY FailureReadingAssumption DEF FailureReadingAssumption
<1>2. PICK n \in Nat, c \in BOOLEAN, b \in BOOLEAN :
         Decision(f) = [size |-> n, theirs |-> b, calendar |-> c]
  <2>1. PICK c \in BOOLEAN : c = (f.wait = "moment")
    OBVIOUS
  <2>2. \/ Decision(f) = [size |-> f.seconds, theirs |-> TRUE, calendar |-> c]
        \/ \E n \in {DayFor, MinuteFor, 0} :
              Decision(f) = [size |-> n, theirs |-> FALSE, calendar |-> FALSE]
    BY <2>1 DEF Decision
  <2> QED
    BY <1>1, <2>2
<1> QED
  BY <1>2 DEF Sizes

LEMMA VerdictType ==
    ASSUME NEW f, f.seconds \in Nat
    PROVE  LET v == Classified(f)
           IN  /\ v.size \in Nat /\ v.theirs \in BOOLEAN /\ v.calendar \in BOOLEAN
               /\ v.account \in BOOLEAN
<1> DEFINE Good(v) == /\ v.size \in Nat /\ v.theirs \in BOOLEAN /\ v.calendar \in BOOLEAN
                      /\ v.account \in BOOLEAN
<1>1. DayFor \in Nat /\ DeniedFor \in Nat
  BY FailureReadingAssumption DEF FailureReadingAssumption
<1>2. Good(Declined) /\ Good(DeadKey) /\ Good(Unpaid) /\ Good(Denied) /\ Good(Unsized)
  <2>1. \A r, w : \A n \in Nat : \A t, c, a \in BOOLEAN : Good(Verdict(r, n, t, c, w, a))
    BY DEF Verdict
  <2> HIDE DEF Good
  <2> QED
    BY <1>1, <2>1 DEF Declined, DeadKey, Unpaid, Denied, Unsized
<1>3. ASSUME NEW c PROVE Good(Sized(f, c))
  <2>1. PICK d \in Sizes : d = Decision(f)
    BY DecisionType
  <2>2. PICK a \in BOOLEAN : a = (Window(f) = "account")
    OBVIOUS
  <2>3. \/ Sized(f, c) \in {Declined, Unsized}
        \/ Sized(f, c) = Verdict("billing", d.size, d.theirs, FALSE, Window(f), a)
        \/ Sized(f, c) = Verdict("throttle", d.size, d.theirs, d.calendar, Window(f), FALSE)
    BY <2>1, <2>2 DEF Sized
  <2>4. \A r, w : \A t, l, b \in BOOLEAN : \A n \in Nat : Good(Verdict(r, n, t, l, w, b))
    BY DEF Verdict
  <2>5. d.size \in Nat /\ d.theirs \in BOOLEAN /\ d.calendar \in BOOLEAN
    BY DEF Sizes
  <2> HIDE DEF Good
  <2> QED
    BY <1>2, <2>3, <2>4, <2>5
<1>4. Good(Classified(f))
  <2> HIDE DEF Good
  <2> QED
    BY <1>2, <1>3, Verdicts
<1> QED
  BY <1>4

\* A judgement of a kind mark() knows, or the breaker's.
Judgement == [kind : Kinds \cup {"host_breaker"}, delay : Nat]

LEMMA ReadingType ==
    ASSUME NEW f, f.seconds \in Nat
    PROVE  LastReading(f) \in Judgement
<1>1. Extracted(f) \in Nat
  BY DEF Extracted
<1>2. /\ {ServerBase, DailyCooldown, UnsizedRest} \subseteq Nat
      /\ {RejectedFor, DeniedFor, OtherFor} \subseteq Nat
  BY KeyMemoryAssumption, FailureReadingAssumption
     DEF KeyMemoryAssumption, FailureReadingAssumption
<1>3. ASSUME NEW n \in Nat PROVE StatedOr(f, n) \in Nat
  BY <1>1 DEF StatedOr
<1> DEFINE Spoken == {"host_breaker", "timeout", "server", "revoked", "denied", "auth",
                     "insufficient_quota", "other", "daily", "per_minute", "rate_limit"}
<1>4. Spoken \subseteq Kinds \cup {"host_breaker"}
  BY DEF Kinds, Throttles, NamedWindow, RejectedKinds
<1>5. ASSUME NEW k \in Spoken, NEW n \in Nat PROVE Judged(k, n) \in Judgement
  BY <1>4 DEF Judged, Judgement
<1>6. Tabled(f) \in Judgement
  <2>1. \/ Tabled(f) \in {Judged("host_breaker", 0), Judged("timeout", 0),
                          Judged("server", StatedOr(f, ServerBase)),
                          Judged("revoked", RejectedFor)}
        \/ Tabled(f) \in {Judged("denied", StatedOr(f, DeniedFor)),
                          Judged("auth", StatedOr(f, RejectedFor)),
                          Judged("insufficient_quota", DailyCooldown),
                          Judged("other", OtherFor)}
        \/ Tabled(f) \in {Judged("daily", DailyCooldown),
                          Judged("per_minute", StatedOr(f, OtherFor))}
    BY DEF Tabled
  <2> QED
    BY <1>2, <1>3, <1>5, <2>1
<1>7. FromVerdict(f, Classified(f)) \in Judgement
  <2>1. PICK v : v = Classified(f)
    OBVIOUS
  <2>2. v.size \in Nat
    BY <2>1, VerdictType
  <2>3. FromVerdict(f, v) \in {Judged("insufficient_quota", DailyCooldown),
                               Judged("revoked", RejectedFor), Judged("denied", DeniedFor),
                               Judged("daily", v.size), Judged("daily", Extracted(f)),
                               Judged("rate_limit", v.size)}
    BY DEF FromVerdict
  <2> QED
    BY <1>1, <1>2, <1>5, <2>1, <2>2, <2>3
<1>8. FirstReading(f) \in Judgement
  BY <1>6, <1>7 DEF FirstReading
<1>9. LastReading(f) \in {Judged("denied", DeniedFor), Judged("auth", RejectedFor),
                          Judged("insufficient_quota", DailyCooldown),
                          Judged("per_minute", UnsizedRest),
                          Judged("server", StatedOr(f, ServerBase)), FirstReading(f)}
  BY DEF LastReading, Corrected
<1> QED
  BY <1>2, <1>3, <1>5, <1>8, <1>9

\* Whatever a provider answers, what mark is handed is a refusal: the theorems
\* about the pool hold for every pool refused in the ways it is read.
THEOREM ReadingIsARefusal ==
    ASSUME NEW f, f.seconds \in Nat, ~Read(f).ends
    PROVE  Read(f).refusal \in Refusal
<1> DEFINE v == Classified(f)
           r == LastReading(f)
<1>1. Read(f).refusal = Handed(f, v, r)
  BY ReadMarks
<1>2. r.kind \in Kinds /\ r.delay \in Nat
  <2>1. r.kind # "host_breaker"
    BY DEF Read, FirstReading, Quirk, LastReading, Ends, Marks
  <2> QED
    BY <2>1, ReadingType DEF Judgement
<1>3. PICK c \in BOOLEAN : c = (v.calendar /\ r.delay > 0)
  BY VerdictType
<1>4. PICK s \in BOOLEAN : s = (Extracted(f) > 0 \/ (v.size > 0 /\ v.theirs))
  BY VerdictType
<1>5. PICK b \in BOOLEAN : b = BareExhausted(f, s)
  BY DEF BareExhausted
<1>6. \E d \in {0, r.delay} :
         Handed(f, v, r) = [kind |-> r.kind, delay |-> d, stated |-> s \/ c, calendar |-> c,
                            account |-> v.account, bare |-> ~c /\ b]
  BY <1>3, <1>4, <1>5 DEF Handed
<1>7. v.account \in BOOLEAN
  BY VerdictType
<1> HIDE DEF v, r
<1> QED
  BY <1>1, <1>2, <1>6, <1>7 DEF Refusal
=============================================================================

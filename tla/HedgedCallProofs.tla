-------------------------- MODULE HedgedCallProofs --------------------------
(***************************************************************************)
(* Theorems about HedgedCall, for any number of conversations, of legs and *)
(* of tokens, and every share: its type invariant, that every leg has one  *)
(* judge, that no answer is passed over for a failure, and that backups    *)
(* never outrun the budget.                                                *)
(***************************************************************************)
EXTENDS HedgedCall, FiniteSetTheorems, WellFoundedInduction, TLAPS

States0 == {"running"} \cup Outcomes
LegRecords == [state : States0, backup : BOOLEAN, queued : BOOLEAN]
Calls == [pc : Places, mine : SUBSET Ids, pending : SUBSET Ids, primary : {0} \cup Ids,
          late : BOOLEAN, passedOver : SUBSET States0]
Buckets == [tokens : -Burst..Burst, part : 0..(Whole - 1)]
-----------------------------------------------------------------------------
(* The library's operators.                                                 *)

\* A set of numbers that is not empty has a smallest one, which is what
\* CHOOSE gives.
LEMMA SmallestIsThere ==
    ASSUME NEW S, S \subseteq Ids, S # {}
    PROVE  Smallest(S) \in S /\ \A y \in S : Smallest(S) <= y
<1> DEFINE U == 0..MaxLegs
           T == {0..x : x \in S}
<1>1. IsWellFoundedOn(StrictSubsetOrdering(U), FiniteSubsetsOf(U))
  BY FS_StrictSubsetOrderingWellFounded
<1>2. IsFiniteSet(U)
  BY HedgedCallAssumption, FS_Interval DEF HedgedCallAssumption
<1>3. FiniteSubsetsOf(U) = SUBSET U
  BY <1>2, FS_FiniteSubsetsOfFinite
<1>4. T \subseteq SUBSET U /\ T # {}
  <2>1. \A x \in S : 0..x \in SUBSET U
    BY HedgedCallAssumption DEF HedgedCallAssumption, Ids
  <2>2. \A t \in T : t \in SUBSET U
    BY <2>1
  <2> QED
    BY <2>2
<1>5. PICK t \in T : \A u \in T : ~ (<<u, t>> \in StrictSubsetOrdering(U))
  <2>1. IsWellFoundedOn(StrictSubsetOrdering(U), SUBSET U)
    BY <1>1, <1>3
  <2> HIDE DEF T, U
  <2> QED
    BY <1>4, <2>1, WFMin
<1>6. PICK x \in S : t = 0..x
  BY <1>5
<1>7. ASSUME NEW y \in S, ~(x <= y) PROVE FALSE
  <2>1. x \in Nat /\ y \in Nat /\ y < x
    BY <1>7, HedgedCallAssumption DEF HedgedCallAssumption, Ids
  <2>2. 0..y \subseteq 0..x /\ 0..y # 0..x /\ x \in 0..x /\ ~(x \in 0..y)
    BY <2>1
  <2>3. 0..y \in T /\ 0..y \in SUBSET U /\ t \in SUBSET U
    BY <1>4, <1>5
  <2> QED
    BY <1>5, <1>6, <2>2, <2>3 DEF StrictSubsetOrdering
<1> QED
  BY <1>7 DEF Smallest

LEMMA SmallestOfOne == ASSUME NEW l \in Ids PROVE Smallest({l}) = l
BY SmallestIsThere

\* SetToSeq lists a finite set, each element once.
LEMMA Listed ==
    ASSUME NEW S, S \subseteq Ids
    PROVE  LET s == SetToSeq(S)
           IN  /\ s \in Seq(S)
               /\ \A i, j \in 1..Len(s) : s[i] = s[j] => i = j
               /\ \A x \in S : \E i \in 1..Len(s) : s[i] = x
<1> DEFINE n == Cardinality(S)
           s == SetToSeq(S)
<1>1. IsFiniteSet(S)
  <2>1. IsFiniteSet(Ids)
    BY HedgedCallAssumption, FS_Interval DEF HedgedCallAssumption, Ids
  <2> QED
    BY <2>1, FS_Subset
<1>2. n \in Nat /\ ExistsBijection(1..n, S)
  BY <1>1, FS_CardinalityType
<1>3. PICK f \in Bijection(1..n, S) : TRUE
  BY <1>2 DEF ExistsBijection
<1>4. f \in [1..n -> S] /\ IsInjective(f)
  BY <1>3 DEF Bijection, Injection
<1>5. s \in [1..n -> S] /\ IsInjective(s)
  BY <1>4 DEF SetToSeq
<1>6. s \in Seq(S) /\ Len(s) = n /\ DOMAIN s = 1..n
  BY <1>2, <1>5
<1>7. \A i, j \in 1..Len(s) : s[i] = s[j] => i = j
  BY <1>5, <1>6 DEF IsInjective
<1>8. s \in Injection(1..n, S)
  BY <1>5, <1>6 DEF Injection, IsInjective
<1>9. s \in Surjection(1..n, S)
  <2>1. IsFiniteSet(1..n) /\ Cardinality(1..n) = n
    BY <1>2, FS_Interval
  <2> QED
    BY <1>1, <1>8, <2>1, FS_Injection
<1>10. \A x \in S : \E i \in 1..Len(s) : s[i] = x
  BY <1>6, <1>9 DEF Surjection
<1> QED
  BY <1>6, <1>7, <1>10
-----------------------------------------------------------------------------
(* The invariant. A leg that was not let go is held by one conversation, in *)
(* the shape its place calls for; the queue holds what was let go and has   *)
(* ended; and what a race has passed over was worth passing over.           *)

Worthless == {"empty"} \cup Refusals

Typed ==
    /\ calls \in [Conversations -> Calls]
    /\ Alive \subseteq Ids /\ \A l \in Alive : legs[l] \in LegRecords
    /\ losers \in Seq(Ids)
    /\ bucket \in {<<>>} \cup {<<b>> : b \in Buckets}
    /\ cooling \in BOOLEAN /\ debt \in Nat

ShapeOf(call) ==
    /\ call.pending \subseteq call.mine
    /\ call.pc \in {"idle", "entering"} => call.mine = {}
    /\ call.pc \in {"first", "primary"} => call.mine = {call.primary}
    /\ call.pc = "first" => call.pending = call.mine
    /\ call.pc \in {"racing", "burst"} => call.primary \in call.mine
    /\ call.pc = "leaving" => \E l \in Ids : call.mine = {l}

Shape == \A c \in Conversations : ShapeOf(calls[c])

Mine ==
    /\ \A c, d \in Conversations : c # d => calls[c].mine \cap calls[d].mine = {}
    /\ \A c \in Conversations : calls[c].mine \subseteq Alive
    /\ \A c \in Conversations : \A l \in calls[c].mine : ~legs[l].queued
    /\ \A l \in Alive : ~legs[l].queued => \E c \in Conversations : l \in calls[c].mine

InQueue ==
    /\ \A i \in 1..Len(losers) :
          losers[i] \in Alive /\ legs[losers[i]].queued /\ Ended(losers[i])
    /\ \A l \in Alive : legs[l].queued /\ Ended(l) => \E i \in 1..Len(losers) : losers[i] = l
    /\ \A i, j \in 1..Len(losers) : losers[i] = losers[j] => i = j

BestOf(call) ==
    /\ call.pc \in {"first", "racing", "burst"} => call.passedOver = {}
    /\ call.pc \in {"racing", "burst"} =>
          \A l \in call.mine \ call.pending : legs[l].state \in Worthless
    /\ call.pc = "primary" => call.late \/ call.passedOver \subseteq Worthless
    /\ call.pc = "leaving" => \A l \in call.mine :
          /\ Ended(l) /\ (Failed(l) => l = call.primary)
          /\ legs[l].state = "useful" \/ call.late \/ call.passedOver \subseteq Worthless

Best == \A c \in Conversations : BestOf(calls[c])

IInv == Typed /\ Shape /\ Mine /\ InQueue /\ Best

LEMMA TypedIsTypeOK == Typed <=> TypeOK
BY DEF Typed, TypeOK, Calls, LegRecords, Buckets, States0

\* What the properties say follows.
LEMMA JudgeFollows == IInv => OneJudge
<1> SUFFICES ASSUME IInv PROVE OneJudge
  OBVIOUS
<1>1. Held \cup ToSet(losers) \subseteq Alive
  BY DEF IInv, Typed, Mine, InQueue, Held, ToSet
<1>2. ASSUME NEW l \in Alive PROVE l \in Held <=> ~legs[l].queued
  BY <1>2 DEF IInv, Mine, Held
<1>3. ASSUME NEW l \in Alive
      PROVE  Cardinality({i \in DOMAIN losers : losers[i] = l}) =
                IF legs[l].queued /\ Ended(l) THEN 1 ELSE 0
  <2> DEFINE places == {i \in DOMAIN losers : losers[i] = l}
  <2>0. DOMAIN losers = 1..Len(losers)
    BY DEF IInv, Typed
  <2>1. CASE legs[l].queued /\ Ended(l)
    <3>1. PICK i \in 1..Len(losers) : losers[i] = l
      BY <1>3, <2>1 DEF IInv, InQueue
    <3>2. places = {i}
      BY <2>0, <3>1 DEF IInv, InQueue
    <3> QED
      BY <2>1, <3>2, FS_Singleton
  <2>2. CASE ~(legs[l].queued /\ Ended(l))
    <3>1. places = {}
      BY <2>0, <2>2 DEF IInv, InQueue
    <3> QED
      BY <2>2, <3>1, FS_EmptySet
  <2> QED
    BY <2>1, <2>2
<1> QED
  BY <1>1, <1>2, <1>3 DEF OneJudge, IInv, Mine

LEMMA BestFollows == IInv => BestAnswerWins
<1> SUFFICES ASSUME IInv, NEW c \in Conversations, At(c, "leaving")
             PROVE  LET l == Smallest(calls[c].mine)
                    IN  /\ Failed(l) => l = calls[c].primary
                        /\ legs[l].state = "useful" \/ calls[c].late
                              \/ calls[c].passedOver \subseteq {"empty"} \cup Refusals
  BY DEF BestAnswerWins
<1>1. PICK l \in Ids : calls[c].mine = {l}
  BY DEF IInv, Shape, ShapeOf, At
<1>2. Smallest(calls[c].mine) = l
  BY <1>1, SmallestOfOne
<1> QED
  BY <1>1, <1>2 DEF IInv, Best, BestOf, At, Worthless

LEMMA Initial == Init => IInv
<1> SUFFICES ASSUME Init PROVE IInv
  OBVIOUS
<1>1. Quiet = [pc |-> "idle", mine |-> {}, pending |-> {}, primary |-> 0, late |-> FALSE,
               passedOver |-> {}]
  BY DEF Quiet, Asked
<1>2. Quiet \in Calls /\ ShapeOf(Quiet) /\ BestOf(Quiet) /\ Quiet.mine = {}
  BY <1>1 DEF Calls, ShapeOf, BestOf, Places
<1>3. Alive = {} /\ losers = <<>>
  BY DEF Init, Alive
<1>4. \A c \in Conversations : calls[c] = Quiet
  BY DEF Init
<1>5. Typed
  <2>1. losers \in Seq(Ids)
    BY <1>3
  <2>2. calls \in [Conversations -> Calls]
    BY <1>2 DEF Init
  <2> QED
    BY <1>3, <2>1, <2>2 DEF Init, Typed
<1>6. Shape /\ Best
  BY <1>2, <1>4 DEF Shape, Best
<1>7. Mine
  BY <1>2, <1>3, <1>4 DEF Mine
<1>8. InQueue
  BY <1>3 DEF InQueue
<1> QED
  BY <1>5, <1>6, <1>7, <1>8 DEF IInv
-----------------------------------------------------------------------------
(* A leg ends.                                                              *)

LEMMA EndsKeeps ==
    ASSUME IInv, NEW l \in Alive, NEW outcome \in Outcomes, Ends(l, outcome)
    PROVE  IInv'
<1>1. /\ DOMAIN legs' = Alive
      /\ legs'[l] \in LegRecords /\ legs'[l].state = outcome
      /\ legs'[l].queued = legs[l].queued
      /\ \A x \in Alive : x # l => legs'[x] = legs[x]
  BY DEF IInv, Typed, Ends, Alive, LegRecords, States0
<1>2. /\ UNCHANGED <<calls, bucket, cooling, debt>> /\ ~Ended(l)
      /\ Alive' = Alive /\ legs[l].state \notin Outcomes
  BY <1>1, HedgedCallAssumption DEF Ends, Alive, Ended, HedgedCallAssumption, Outcomes
<1>3. ASSUME NEW x \in Alive PROVE Ended(x)' <=> (Ended(x) \/ x = l)
  BY <1>1, <1>3, HedgedCallAssumption DEF Ended, HedgedCallAssumption, Outcomes
<1>4. \A i \in 1..Len(losers) : losers[i] # l
  BY <1>2 DEF IInv, InQueue
<1>5. Typed'
  <2>1. losers' \in Seq(Ids)
    BY DEF IInv, Typed, Ends
  <2> QED
    BY <1>1, <1>2, <2>1 DEF IInv, Typed
<1>6. Shape' /\ Mine'
  BY <1>1, <1>2 DEF IInv, Shape, ShapeOf, Mine
<1>7. InQueue'
  <2>1. CASE legs[l].queued
    <3>1. losers' = Append(losers, l)
      BY <2>1 DEF Ends
    <3>2. /\ Len(losers') = Len(losers) + 1 /\ Len(losers) \in Nat
          /\ \A i \in 1..Len(losers) : losers'[i] = losers[i]
          /\ losers'[Len(losers) + 1] = l
      BY <3>1 DEF IInv, Typed
    <3>3. legs'[l].queued /\ Ended(l)'
      BY <1>1, <1>3, <2>1
    <3>4. ASSUME NEW i \in 1..Len(losers')
          PROVE  (losers[i] \in Alive /\ legs[losers[i]].queued /\ Ended(losers[i]))'
      <4>1. CASE i = Len(losers) + 1
        BY <1>2, <3>2, <3>3, <4>1 DEF Ended
      <4>2. CASE i \in 1..Len(losers)
        <5>1. losers'[i] = losers[i] /\ losers[i] \in Alive /\ losers[i] # l
          BY <1>4, <3>2, <4>2 DEF IInv, InQueue
        <5>2. legs'[losers[i]] = legs[losers[i]]
          BY <1>1, <5>1
        <5> QED
          BY <1>2, <4>2, <5>1, <5>2 DEF IInv, InQueue, Ended
      <4> QED
        BY <3>2, <4>1, <4>2
    <3>5. ASSUME NEW x \in Alive, legs'[x].queued, Ended(x)'
          PROVE  \E i \in 1..Len(losers') : losers'[i] = x
      <4>1. CASE x = l
        BY <3>2, <4>1
      <4>2. CASE x # l
        <5>1. legs[x].queued /\ Ended(x)
          BY <1>1, <1>3, <3>5, <4>2
        <5>2. PICK i \in 1..Len(losers) : losers[i] = x
          BY <5>1 DEF IInv, InQueue
        <5> QED
          BY <3>2, <5>2
      <4> QED
        BY <4>1, <4>2
    <3>6. \A i, j \in 1..Len(losers') : losers'[i] = losers'[j] => i = j
      BY <1>4, <3>2 DEF IInv, InQueue
    <3> QED
      BY <1>2, <3>4, <3>5, <3>6 DEF InQueue, Ended
  <2>2. CASE ~legs[l].queued
    <3>1. losers' = losers
      BY <2>2 DEF Ends
    <3> QED
      BY <1>1, <1>2, <1>3, <2>2, <3>1 DEF IInv, InQueue
  <2> QED
    BY <2>1, <2>2
<1>8. Best'
  <2>1. ASSUME NEW c \in Conversations PROVE BestOf(calls[c])'
    <3>1. \A x \in calls[c].mine : x \in Alive
      BY DEF IInv, Mine
    <3>2. \A x \in Alive : legs[x].state \in Worthless => x # l
      BY <1>2 DEF Worthless, Outcomes
    <3>3. BestOf(calls[c])
      BY DEF IInv, Best
    <3>4. \A x \in Alive : Ended(x) => x # l /\ Ended(x)'
      BY <1>2, <1>3
    <3> QED
      BY <1>1, <1>2, <3>1, <3>2, <3>3, <3>4 DEF BestOf, Failed
  <2> QED
    BY <2>1 DEF Best
<1> QED
  BY <1>5, <1>6, <1>7, <1>8 DEF IInv
-----------------------------------------------------------------------------
(* Steps of a thread that change nothing but where it is.                   *)

LEMMA Moves ==
    ASSUME IInv, NEW c \in Conversations, NEW new \in Calls,
           calls' = [calls EXCEPT ![c] = new], UNCHANGED <<legs, losers>>,
           new.mine = calls[c].mine, ShapeOf(new), BestOf(new)
    PROVE  Shape' /\ Mine' /\ InQueue' /\ Best' /\ calls' \in [Conversations -> Calls]
<1>1. calls'[c] = new /\ \A d \in Conversations : d # c => calls'[d] = calls[d]
  BY DEF IInv, Typed
<1>2. \A d \in Conversations : calls'[d].mine = calls[d].mine
  BY <1>1
<1>3. Alive' = Alive /\ \A l \in Alive : Ended(l)' <=> Ended(l)
  BY DEF Alive, Ended
<1>4. Shape'
  BY <1>1 DEF IInv, Shape
<1>5. Mine'
  BY <1>2, <1>3 DEF IInv, Mine
<1>6. InQueue'
  BY <1>3 DEF IInv, InQueue, Ended
<1>7. Best'
  <2>1. ASSUME NEW d \in Conversations PROVE BestOf(calls[d])'
    <3>1. calls'[d] = new \/ calls'[d] = calls[d]
      BY <1>1
    <3>2. BestOf(calls'[d])
      BY <3>1 DEF IInv, Best
    <3> QED
      BY <3>2 DEF BestOf, Ended, Failed
  <2> QED
    BY <2>1 DEF Best
<1> QED
  BY <1>4, <1>5, <1>6, <1>7 DEF IInv, Typed

LEMMA BudgetType ==
    /\ Full \in {<<b>> : b \in Buckets}
    /\ Typed => \E b \in Buckets : TheBucket = <<b>>
    /\ \A b \in Buckets : Refilled(b) \in Buckets
    /\ \A b \in Buckets : b.tokens >= 1 => [b EXCEPT !.tokens = @ - 1] \in Buckets
<1> USE HedgedCallAssumption DEF HedgedCallAssumption
<1>1. Full \in {<<b>> : b \in Buckets}
  <2>1. [tokens |-> Burst, part |-> 0] \in Buckets
    BY DEF Buckets
  <2> QED
    BY <2>1 DEF Full
<1>2. Typed => \E b \in Buckets : TheBucket = <<b>>
  BY <1>1 DEF Typed, TheBucket
<1>3. ASSUME NEW b \in Buckets PROVE Refilled(b) \in Buckets
  <2>1. b.part \in 0..(Whole - 1) /\ b.tokens \in -Burst..Burst
    BY DEF Buckets
  <2>2. (b.part + Share) % Whole \in 0..(Whole - 1)
    BY <2>1
  <2>3. (b.part + Share) \div Whole \in Nat
    BY <2>1
  <2> DEFINE more == b.tokens + (b.part + Share) \div Whole
  <2>4. (IF more > Burst THEN Burst ELSE more) \in -Burst..Burst
    BY <2>1, <2>3
  <2> QED
    BY <2>2, <2>4 DEF Refilled, Buckets
<1>4. ASSUME NEW b \in Buckets, b.tokens >= 1 PROVE [b EXCEPT !.tokens = @ - 1] \in Buckets
  BY <1>4 DEF Buckets
<1> QED
  BY <1>1, <1>2, <1>3, <1>4

LEMMA CallType ==
    ASSUME IInv, NEW c \in Conversations
    PROVE  calls[c] \in Calls /\ ShapeOf(calls[c]) /\ BestOf(calls[c])
BY DEF IInv, Typed, Shape, Best

LEMMA StartKeeps == ASSUME IInv, NEW c \in Conversations, Start(c) \/ GiveUp(c) PROVE IInv'
<1>1. PICK pc \in {"idle", "entering"} : calls' = [calls EXCEPT ![c] = [calls[c] EXCEPT !.pc = pc]]
  BY DEF Start, GiveUp, Goes
<1> DEFINE new == [calls[c] EXCEPT !.pc = pc]
<1>2. new \in Calls /\ new.mine = calls[c].mine /\ ShapeOf(new) /\ BestOf(new)
  BY CallType DEF Calls, Places, ShapeOf, BestOf, Start, GiveUp, At
<1>3. UNCHANGED <<legs, losers, bucket, cooling, debt>>
  BY DEF Start, GiveUp
<1>4. Shape' /\ Mine' /\ InQueue' /\ Best' /\ calls' \in [Conversations -> Calls]
  <2> HIDE DEF new
  <2> QED
    BY <1>1, <1>2, <1>3, Moves DEF new
<1> QED
  BY <1>3, <1>4 DEF IInv, Typed, Alive

LEMMA DeadlineKeeps == ASSUME IInv, NEW c \in Conversations, Deadline(c) PROVE IInv'
<1> DEFINE new == [calls[c] EXCEPT !.late = TRUE]
<1>1. calls' = [calls EXCEPT ![c] = new] /\ UNCHANGED <<legs, losers, bucket, cooling, debt>>
  BY DEF Deadline
<1>2. new \in Calls /\ new.mine = calls[c].mine /\ ShapeOf(new) /\ BestOf(new)
  BY CallType DEF Calls, ShapeOf, BestOf, Deadline, At
<1>3. Shape' /\ Mine' /\ InQueue' /\ Best' /\ calls' \in [Conversations -> Calls]
  <2> HIDE DEF new
  <2> QED
    BY <1>1, <1>2, Moves
<1> QED
  BY <1>1, <1>3 DEF IInv, Typed, Alive

\* What has ended without a useful answer is of no use.
LEMMA EndedIsWorthless ==
    ASSUME Typed, NEW l \in Alive, Ended(l), legs[l].state # "useful"
    PROVE  legs[l].state \in Worthless
BY DEF Typed, LegRecords, States0, Outcomes, Worthless, Ended

LEMMA PassedKeeps ==
    ASSUME IInv, NEW c \in Conversations, Racing(c),
           Winners({l \in calls[c].pending : Ended(l)}) = {},
           calls' = [calls EXCEPT ![c].pending = @ \ {l \in calls[c].pending : Ended(l)}],
           UNCHANGED <<legs, losers, bucket, cooling, debt>>
    PROVE  IInv'
<1> DEFINE done == {l \in calls[c].pending : Ended(l)}
           new  == [calls[c] EXCEPT !.pending = @ \ done]
<1>1. calls' = [calls EXCEPT ![c] = new]
  OBVIOUS
<1>2. new \in Calls /\ new.mine = calls[c].mine /\ ShapeOf(new)
  BY CallType DEF Calls, ShapeOf, Racing
<1>3. \A l \in done : legs[l].state \in Worthless
  <2>1. \A l \in done : l \in Alive /\ Ended(l) /\ legs[l].state # "useful"
    BY CallType DEF ShapeOf, IInv, Mine, Winners
  <2> QED
    BY <2>1, EndedIsWorthless DEF IInv
<1>4. BestOf(new)
  BY <1>3, CallType DEF Calls, BestOf, Racing
<1>5. Shape' /\ Mine' /\ InQueue' /\ Best' /\ calls' \in [Conversations -> Calls]
  <2> HIDE DEF new
  <2> QED
    BY <1>1, <1>2, <1>4, Moves
<1> QED
  BY <1>5 DEF IInv, Typed, Alive
-----------------------------------------------------------------------------
(* Requests are sent.                                                       *)

LEMMA FreeIdIsFree == ASSUME Typed, Ids \ Alive # {} PROVE FreeId \in Ids \ Alive
BY SmallestIsThere DEF FreeId

LEMMA SentLegs ==
    ASSUME Typed, NEW ids, NEW backups, ids \subseteq Ids \ Alive, legs' = Sent(ids, backups)
    PROVE  /\ DOMAIN legs' = Alive \cup ids /\ \A l \in Alive : legs'[l] = legs[l]
           /\ \A l \in ids : legs'[l] \in LegRecords /\ ~legs'[l].queued
BY DEF Sent, NewLeg, LegRecords, States0

\* A call that waits for all it has sent.
Fresh(call) ==
    /\ call.pc \in {"first", "racing", "burst"} /\ ShapeOf(call)
    /\ call.pending = call.mine /\ call.passedOver = {}

\* New legs, all held by the conversation that sent them.
LEMMA SendKeeps ==
    ASSUME IInv, NEW c \in Conversations, NEW new \in Calls, NEW ids, ids \subseteq Ids \ Alive,
           DOMAIN legs' = Alive \cup ids, \A l \in Alive : legs'[l] = legs[l],
           \A l \in ids : legs'[l] \in LegRecords /\ ~legs'[l].queued,
           calls' = [calls EXCEPT ![c] = new], new.mine = calls[c].mine \cup ids,
           Fresh(new), losers' = losers
    PROVE  /\ Shape' /\ Mine' /\ InQueue' /\ Best' /\ calls' \in [Conversations -> Calls]
           /\ Alive' \subseteq Ids /\ \A l \in Alive' : legs'[l] \in LegRecords
<1>1. calls'[c] = new /\ \A d \in Conversations : d # c => calls'[d] = calls[d]
  BY DEF IInv, Typed
<1>2. Alive' = Alive \cup ids /\ \A l \in Alive : Ended(l)' <=> Ended(l)
  BY DEF Alive, Ended
<1>3. Shape'
  BY <1>1 DEF IInv, Shape, Fresh
<1>4. Mine'
  <2>1. \A d \in Conversations : calls[d].mine \cap ids = {}
    BY DEF IInv, Mine
  <2>2. \A d, e \in Conversations : d # e => calls'[d].mine \cap calls'[e].mine = {}
    BY <1>1, <2>1 DEF IInv, Mine
  <2>3. \A d \in Conversations : calls'[d].mine \subseteq Alive'
    BY <1>1, <1>2 DEF IInv, Mine
  <2>4. ASSUME NEW d \in Conversations, NEW l \in calls'[d].mine PROVE ~legs'[l].queued
    <3>1. l \in calls[d].mine \/ l \in ids
      BY <1>1, <2>4
    <3> QED
      BY <3>1 DEF IInv, Mine
  <2>5. ASSUME NEW l \in Alive', ~legs'[l].queued
        PROVE  \E d \in Conversations : l \in calls'[d].mine
    <3>1. CASE l \in ids
      BY <1>1, <3>1
    <3>2. CASE l \in Alive
      <4>1. PICK d \in Conversations : l \in calls[d].mine
        BY <2>5, <3>2 DEF IInv, Mine
      <4> QED
        BY <1>1, <4>1
    <3> QED
      BY <1>2, <3>1, <3>2
  <2> QED
    BY <2>2, <2>3, <2>4, <2>5 DEF Mine
<1>5. InQueue'
  <2>1. \A i \in 1..Len(losers) : losers[i] \in Alive
    BY DEF IInv, InQueue
  <2>2. \A l \in ids : ~legs'[l].queued
    OBVIOUS
  <2> QED
    BY <1>2, <2>1, <2>2 DEF IInv, InQueue, Ended
<1>6. Best'
  <2>1. ASSUME NEW d \in Conversations, d # c PROVE BestOf(calls[d])'
    <3>1. calls'[d] = calls[d] /\ calls[d].mine \subseteq Alive /\ BestOf(calls[d])
      BY <1>1, <2>1 DEF IInv, Mine, Best
    <3> QED
      BY <3>1 DEF BestOf, Ended, Failed
  <2>2. BestOf(calls[c])'
    BY <1>1 DEF Fresh, BestOf
  <2> QED
    BY <2>1, <2>2 DEF Best
<1> QED
  BY <1>1, <1>2, <1>3, <1>4, <1>5, <1>6 DEF IInv, Typed

LEMMA NewCallType ==
    ASSUME NEW pc \in Places, NEW ids \in SUBSET Ids, NEW first \in ids
    PROVE  [pc |-> pc, mine |-> ids, pending |-> ids, primary |-> first,
            late |-> FALSE, passedOver |-> {}] \in Calls
<1>1. first \in {0} \cup Ids /\ {} \in SUBSET States0 /\ FALSE \in BOOLEAN
  OBVIOUS
<1> QED
  BY <1>1 DEF Calls

LEMMA DispatchKeeps == ASSUME IInv, NEW c \in Conversations, Dispatch(c) PROVE IInv'
<1> DEFINE new == Asked("first", {FreeId})
<1>1. FreeId \in Ids /\ FreeId \notin Alive
  BY FreeIdIsFree DEF IInv, Dispatch
<1>2. Smallest({FreeId}) = FreeId
  BY <1>1, SmallestOfOne
<1>3. /\ calls' = [calls EXCEPT ![c] = new] /\ legs' = Sent({FreeId}, {})
      /\ calls[c].mine = {} /\ UNCHANGED <<losers, bucket, cooling, debt>>
  BY CallType DEF Dispatch, At, ShapeOf
<1>4. new = [pc |-> "first", mine |-> {FreeId}, pending |-> {FreeId}, primary |-> FreeId,
             late |-> FALSE, passedOver |-> {}]
  BY <1>2 DEF Asked
<1>5. new \in Calls /\ new.mine = calls[c].mine \cup {FreeId} /\ Fresh(new)
  <2>1. new \in Calls
    <3>1. "first" \in Places /\ {FreeId} \in SUBSET Ids /\ FreeId \in {FreeId}
      BY <1>1 DEF Places
    <3> QED
      BY <1>4, <3>1, NewCallType
  <2>2. Fresh(new)
    BY <1>4 DEF ShapeOf, Fresh
  <2> QED
    BY <1>3, <1>4, <2>1, <2>2
<1>6. /\ DOMAIN legs' = Alive \cup {FreeId} /\ \A l \in Alive : legs'[l] = legs[l]
      /\ \A l \in {FreeId} : legs'[l] \in LegRecords /\ ~legs'[l].queued
  BY <1>1, <1>3, SentLegs DEF IInv
<1>7. Shape' /\ Mine' /\ InQueue' /\ Best' /\ calls' \in [Conversations -> Calls]
      /\ Alive' \subseteq Ids /\ \A l \in Alive' : legs'[l] \in LegRecords
  <2> HIDE DEF new
  <2>1. {FreeId} \subseteq Ids \ Alive
    BY <1>1
  <2> QED
    BY <1>3, <1>5, <1>6, <2>1, SendKeeps
<1> QED
  BY <1>3, <1>7 DEF IInv, Typed

LEMMA BurstKeeps == ASSUME IInv, NEW c \in Conversations, DispatchBurst(c) PROVE IInv'
<1>1. PICK ids \in SUBSET (Ids \ Alive) :
        /\ Cardinality(ids) \in 2..BurstLegs
        /\ calls' = [calls EXCEPT ![c] = Asked("burst", ids)]
        /\ legs' = Sent(ids, ids \ {Smallest(ids)})
  BY DEF DispatchBurst
<1> DEFINE new == Asked("burst", ids)
<1>2. ids # {}
  BY <1>1, FS_EmptySet
<1>3. Smallest(ids) \in ids
  BY <1>2, SmallestIsThere
<1>4. new = [pc |-> "burst", mine |-> ids, pending |-> ids, primary |-> Smallest(ids),
             late |-> FALSE, passedOver |-> {}]
  BY <1>2 DEF Asked
<1>5. new \in Calls /\ new.mine = ids /\ Fresh(new)
  <2>1. new \in Calls
    <3>1. "burst" \in Places /\ ids \in SUBSET Ids
      BY DEF Places
    <3> QED
      BY <1>3, <1>4, <3>1, NewCallType
  <2>2. Fresh(new)
    BY <1>3, <1>4 DEF ShapeOf, Fresh
  <2> QED
    BY <1>4, <2>1, <2>2
<1>6. /\ DOMAIN legs' = Alive \cup ids /\ \A l \in Alive : legs'[l] = legs[l]
      /\ \A l \in ids : legs'[l] \in LegRecords /\ ~legs'[l].queued
  BY <1>1, SentLegs DEF IInv
<1>8. calls[c].mine = {} /\ UNCHANGED <<losers, bucket, cooling, debt>>
  BY CallType DEF DispatchBurst, At, ShapeOf
<1>9. Shape' /\ Mine' /\ InQueue' /\ Best' /\ calls' \in [Conversations -> Calls]
      /\ Alive' \subseteq Ids /\ \A l \in Alive' : legs'[l] \in LegRecords
  <2> HIDE DEF new
  <2>1. calls' = [calls EXCEPT ![c] = new]
    BY <1>1 DEF new
  <2>2. new.mine = calls[c].mine \cup ids /\ losers' = losers
    BY <1>5, <1>8
  <2> QED
    BY <1>5, <1>6, <2>1, <2>2, SendKeeps
<1> QED
  BY <1>8, <1>9 DEF IInv, Typed

LEMMA PaidType ==
    ASSUME Typed, TheBucket[1].tokens >= 1, bucket' = Spent
    PROVE  bucket' \in {<<b>> : b \in Buckets}
<1>1. PICK b \in Buckets : TheBucket = <<b>>
  BY BudgetType
<1>2. [b EXCEPT !.tokens = @ - 1] \in Buckets /\ Spent = <<[b EXCEPT !.tokens = @ - 1]>>
  BY <1>1, BudgetType DEF Spent
<1> QED
  BY <1>2

LEMMA ThresholdKeeps == ASSUME IInv, NEW c \in Conversations, Threshold(c) PROVE IInv'
<1>0. bucket' \in {<<>>} \cup {<<b>> : b \in Buckets} /\ losers' = losers
      /\ cooling' = cooling
  BY PaidType DEF Threshold, IInv, Typed
<1>1. CASE Unhedged(c)
  <2> DEFINE new == [calls[c] EXCEPT !.pc = "primary"]
  <2>1. calls' = [calls EXCEPT ![c] = new] /\ UNCHANGED <<legs, debt>>
    BY <1>1 DEF Unhedged, Goes
  <2>2. new \in Calls /\ new.mine = calls[c].mine /\ ShapeOf(new) /\ BestOf(new)
    BY CallType DEF Calls, Places, ShapeOf, BestOf, Threshold, At
  <2>3. Shape' /\ Mine' /\ InQueue' /\ Best' /\ calls' \in [Conversations -> Calls]
    <3> HIDE DEF new
    <3> QED
      BY <1>0, <2>1, <2>2, Moves
  <2> QED
    BY <1>0, <2>1, <2>3 DEF IInv, Typed, Alive
<1>2. CASE /\ Ids \ Alive # {}
           /\ legs' = Sent({FreeId}, {FreeId})
           /\ calls' = [calls EXCEPT ![c].pc = "racing", ![c].mine = @ \cup {FreeId},
                                     ![c].pending = @ \cup {FreeId}]
           /\ debt' = debt + Whole
  <2> DEFINE new == [calls[c] EXCEPT !.pc = "racing", !.mine = @ \cup {FreeId},
                                     !.pending = @ \cup {FreeId}]
  <2>1. FreeId \in Ids /\ FreeId \notin Alive
    BY <1>2, FreeIdIsFree DEF IInv
  <2>2. calls' = [calls EXCEPT ![c] = new]
    BY <1>2 DEF IInv, Typed
  <2>3. new \in Calls /\ new.mine = calls[c].mine \cup {FreeId} /\ Fresh(new)
    <3>1. /\ new.pc = "racing" /\ new.mine = calls[c].mine \cup {FreeId}
          /\ new.pending = calls[c].pending \cup {FreeId}
          /\ new.primary = calls[c].primary /\ new.passedOver = calls[c].passedOver
      BY CallType DEF Calls
    <3>2. new \in Calls
      BY <2>1, CallType DEF Calls, Places
    <3>3. Fresh(new)
      BY <3>1, CallType DEF ShapeOf, BestOf, Fresh, Threshold, At
    <3> QED
      BY <3>1, <3>2, <3>3
  <2>4. /\ DOMAIN legs' = Alive \cup {FreeId} /\ \A l \in Alive : legs'[l] = legs[l]
        /\ \A l \in {FreeId} : legs'[l] \in LegRecords /\ ~legs'[l].queued
    BY <1>2, <2>1, SentLegs DEF IInv
  <2>5. Shape' /\ Mine' /\ InQueue' /\ Best' /\ calls' \in [Conversations -> Calls]
        /\ Alive' \subseteq Ids /\ \A l \in Alive' : legs'[l] \in LegRecords
    <3>1. PICK n \in Calls : n = new
      BY <2>3
    <3>2. PICK ids \in SUBSET (Ids \ Alive) : ids = {FreeId}
      BY <2>1
    <3>3. /\ calls' = [calls EXCEPT ![c] = n] /\ n.mine = calls[c].mine \cup ids /\ Fresh(n)
          /\ losers' = losers
      BY <1>0, <2>2, <2>3, <3>1, <3>2
    <3>4. /\ DOMAIN legs' = Alive \cup ids /\ \A l \in Alive : legs'[l] = legs[l]
          /\ \A l \in ids : legs'[l] \in LegRecords /\ ~legs'[l].queued
      BY <2>4, <3>2
    <3> HIDE DEF new
    <3> QED
      BY <3>2, <3>3, <3>4, SendKeeps
  <2>6. debt' \in Nat
    BY <1>2, HedgedCallAssumption DEF HedgedCallAssumption, IInv, Typed
  <2> QED
    BY <1>0, <2>5, <2>6 DEF IInv, Typed
<1> QED
  BY <1>1, <1>2 DEF Threshold
-----------------------------------------------------------------------------
(* Legs are let go.                                                         *)

LEMMA LetKeeps ==
    ASSUME IInv, NEW which, NEW left, which \subseteq Alive, which \cap left = {},
           \A l \in which \cup (left \cap Alive) : ~legs[l].queued, Let(which, left)
    PROVE  /\ Alive' = Alive \ left
           /\ \A l \in Alive \ left :
                 /\ legs'[l] \in LegRecords /\ legs'[l].state = legs[l].state
                 /\ legs'[l].queued <=> (l \in which \/ legs[l].queued)
           /\ losers' \in Seq(Ids) /\ InQueue'
<1>1. /\ Alive' = Alive \ left
      /\ \A l \in Alive \ left :
            legs'[l] = IF l \in which THEN [legs[l] EXCEPT !.queued = TRUE] ELSE legs[l]
  BY DEF Let, Alive
<1>2. ASSUME NEW l \in Alive \ left
      PROVE  /\ legs'[l] \in LegRecords /\ legs'[l].state = legs[l].state
             /\ legs'[l].queued <=> (l \in which \/ legs[l].queued)
  <2>1. legs[l] \in LegRecords
    BY DEF IInv, Typed
  <2>2. CASE l \in which
    BY <1>1, <2>1, <2>2 DEF LegRecords
  <2>3. CASE l \notin which
    BY <1>1, <2>1, <2>3
  <2> QED
    BY <2>2, <2>3
<1> DEFINE gone == {l \in which : Ended(l)}
           tail == SetToSeq(gone)
           n    == Len(losers)
<1>3. gone \subseteq Ids
  BY DEF IInv, Typed
<1>4. /\ tail \in Seq(gone) /\ \A x \in gone : \E i \in 1..Len(tail) : tail[i] = x
      /\ \A i, j \in 1..Len(tail) : tail[i] = tail[j] => i = j
  <2> HIDE DEF gone
  <2> QED
    BY <1>3, Listed
<1>5. losers' = losers \o tail /\ losers \in Seq(Ids)
  BY DEF Let, IInv, Typed
<1> HIDE DEF tail
<1>6. \A i \in 1..Len(tail) : tail[i] \in gone
  BY <1>4
<1>7. /\ losers' \in Seq(Ids) /\ Len(losers') = n + Len(tail) /\ n \in Nat /\ Len(tail) \in Nat
      /\ \A i \in 1..n : losers'[i] = losers[i]
      /\ \A i \in 1..Len(tail) : losers'[n + i] = tail[i]
  BY <1>3, <1>4, <1>5
<1>8. \A i \in 1..n : losers[i] \in Alive \ left /\ losers[i] \notin which
  BY DEF IInv, InQueue
<1>9. \A i \in 1..Len(losers') : i \in 1..n \/ \E k \in 1..Len(tail) : i = n + k
  <2> SUFFICES ASSUME NEW i \in 1..Len(losers'), i \notin 1..n
               PROVE  \E k \in 1..Len(tail) : i = n + k
    OBVIOUS
  <2>1. i - n \in 1..Len(tail) /\ i = n + (i - n)
    BY <1>7
  <2> QED
    BY <2>1
<1>10. ASSUME NEW i \in 1..Len(losers')
       PROVE  (losers[i] \in Alive /\ legs[losers[i]].queued /\ Ended(losers[i]))'
  <2>1. CASE i \in 1..n
    <3>1. losers'[i] = losers[i] /\ losers[i] \in Alive \ left
      BY <1>7, <1>8, <2>1
    <3> QED
      BY <1>1, <1>2, <2>1, <3>1 DEF IInv, InQueue, Ended
  <2>2. ASSUME NEW k \in 1..Len(tail), i = n + k
        PROVE  (losers[i] \in Alive /\ legs[losers[i]].queued /\ Ended(losers[i]))'
    <3>1. losers'[i] = tail[k] /\ tail[k] \in gone
      BY <1>6, <1>7, <2>2
    <3> QED
      BY <1>1, <1>2, <3>1 DEF Ended
  <2> QED
    BY <1>9, <2>1, <2>2
<1>11. ASSUME NEW l \in Alive', legs'[l].queued, Ended(l)'
       PROVE  \E i \in 1..Len(losers') : losers'[i] = l
  <2>1. l \in Alive \ left /\ Ended(l) /\ (l \in which \/ legs[l].queued)
    BY <1>1, <1>2, <1>11 DEF Ended
  <2>2. CASE l \in which
    <3>1. PICK k \in 1..Len(tail) : tail[k] = l
      BY <1>4, <2>1, <2>2
    <3>2. n + k \in 1..Len(losers') /\ losers'[n + k] = l
      BY <1>7, <3>1
    <3> QED
      BY <3>2
  <2>3. CASE legs[l].queued
    <3>1. PICK i \in 1..n : losers[i] = l
      BY <2>1, <2>3 DEF IInv, InQueue
    <3>2. i \in 1..Len(losers') /\ losers'[i] = l
      BY <1>7, <3>1
    <3> QED
      BY <3>2
  <2> QED
    BY <2>1, <2>2, <2>3
<1>12. ASSUME NEW i \in 1..Len(losers'), NEW j \in 1..Len(losers'), losers'[i] = losers'[j]
       PROVE  i = j
  <2>1. CASE i \in 1..n /\ j \in 1..n
    BY <1>7, <1>12, <2>1 DEF IInv, InQueue
  <2>2. ASSUME NEW k \in 1..Len(tail), i = n + k, j \in 1..n PROVE FALSE
    BY <1>6, <1>7, <1>8, <1>12, <2>2
  <2>3. ASSUME NEW k \in 1..Len(tail), j = n + k, i \in 1..n PROVE FALSE
    BY <1>6, <1>7, <1>8, <1>12, <2>3
  <2>4. ASSUME NEW k \in 1..Len(tail), NEW m \in 1..Len(tail), i = n + k, j = n + m PROVE i = j
    BY <1>4, <1>7, <1>12, <2>4
  <2> QED
    BY <1>9, <2>1, <2>2, <2>3, <2>4
<1>13. InQueue'
  BY <1>10, <1>11, <1>12 DEF InQueue
<1> QED
  BY <1>1, <1>2, <1>7, <1>13

\* The legs a conversation holds are let go, but for one.
LEMMA KeepOne ==
    ASSUME IInv, NEW c \in Conversations, NEW new \in Calls, NEW one \in calls[c].mine,
           NEW which, which \subseteq calls[c].mine \ {one},
           Let(which, calls[c].mine \ ({one} \cup which)),
           calls' = [calls EXCEPT ![c] = new], new.mine = {one}, ShapeOf(new), BestOf(new),
           new.pc \in {"primary", "leaving"}
    PROVE  /\ Shape' /\ Mine' /\ InQueue' /\ Best' /\ calls' \in [Conversations -> Calls]
           /\ Alive' \subseteq Ids /\ \A l \in Alive' : legs'[l] \in LegRecords
           /\ losers' \in Seq(Ids)
<1> DEFINE left == calls[c].mine \ ({one} \cup which)
<1>1. calls'[c] = new /\ \A d \in Conversations : d # c => calls'[d] = calls[d]
  BY DEF IInv, Typed
<1>2. /\ calls[c].mine \subseteq Alive /\ \A l \in calls[c].mine : ~legs[l].queued
      /\ \A d \in Conversations : d # c => calls[d].mine \cap calls[c].mine = {}
  BY DEF IInv, Mine
<1>3. /\ Alive' = Alive \ left
      /\ \A l \in Alive \ left :
            /\ legs'[l] \in LegRecords /\ legs'[l].state = legs[l].state
            /\ legs'[l].queued <=> (l \in which \/ legs[l].queued)
      /\ losers' \in Seq(Ids) /\ InQueue'
  <2>1. /\ which \subseteq Alive /\ which \cap left = {}
        /\ \A l \in which \cup (left \cap Alive) : ~legs[l].queued
    BY <1>2
  <2> HIDE DEF left
  <2>2. Let(which, left)
    BY DEF left
  <2> QED
    BY <2>1, <2>2, LetKeeps
<1>4. Shape'
  BY <1>1 DEF IInv, Shape
<1>5. Mine'
  <2>1. \A d, e \in Conversations : d # e => calls'[d].mine \cap calls'[e].mine = {}
    BY <1>1, <1>2 DEF IInv, Mine
  <2>2. \A d \in Conversations : calls'[d].mine \subseteq Alive'
    BY <1>1, <1>2, <1>3 DEF IInv, Mine
  <2>3. ASSUME NEW d \in Conversations, NEW l \in calls'[d].mine PROVE ~legs'[l].queued
    <3>1. l \in calls[d].mine /\ l \notin which /\ l \in Alive \ left
      BY <1>1, <1>2, <1>3, <2>2, <2>3
    <3> QED
      BY <1>3, <3>1 DEF IInv, Mine
  <2>4. ASSUME NEW l \in Alive', ~legs'[l].queued
        PROVE  \E d \in Conversations : l \in calls'[d].mine
    <3>1. l \in Alive \ left /\ l \notin which /\ ~legs[l].queued
      BY <1>3, <2>4
    <3>2. PICK d \in Conversations : l \in calls[d].mine
      BY <3>1 DEF IInv, Mine
    <3>3. CASE d = c
      BY <1>1, <3>1, <3>2, <3>3
    <3>4. CASE d # c
      BY <1>1, <3>2, <3>4
    <3> QED
      BY <3>3, <3>4
  <2> QED
    BY <2>1, <2>2, <2>3, <2>4 DEF Mine
<1>6. Best'
  <2>1. ASSUME NEW d \in Conversations, d # c PROVE BestOf(calls[d])'
    <3>1. calls'[d] = calls[d] /\ BestOf(calls[d])
      BY <1>1, <2>1 DEF IInv, Best
    <3>2. \A l \in calls[d].mine : legs'[l].state = legs[l].state
      BY <1>2, <1>3, <2>1 DEF IInv, Mine
    <3> QED
      BY <3>1, <3>2 DEF BestOf, Ended, Failed
  <2>2. BestOf(calls[c])'
    <3>1. legs'[one].state = legs[one].state
      BY <1>2, <1>3
    <3> QED
      BY <1>1, <3>1 DEF BestOf, Ended, Failed
  <2> QED
    BY <2>1, <2>2 DEF Best
<1> QED
  BY <1>1, <1>3, <1>4, <1>5, <1>6 DEF IInv, Typed

LEMMA StatesType ==
    ASSUME IInv, NEW c \in Conversations, NEW which, which \subseteq calls[c].mine
    PROVE  States(which) \subseteq States0
BY DEF IInv, Mine, Typed, LegRecords, States

\* answer is worth keeping: what was passed over was no better, and a
\* failure that is raised is the primary's.
LEMMA LeaveKeeps ==
    ASSUME IInv, NEW c \in Conversations, NEW answer \in calls[c].mine,
           NEW let, let \subseteq calls[c].mine \ {answer}, Leave(c, answer, let),
           Ended(answer), Failed(answer) => answer = calls[c].primary,
           \/ legs[answer].state = "useful" \/ calls[c].late
           \/ calls[c].passedOver \cup States(calls[c].mine \ {answer}) \subseteq Worthless
    PROVE  IInv'
<1> DEFINE call == calls[c]
           left == [call EXCEPT !.pc = "leaving", !.mine = {answer}, !.pending = {},
                                !.passedOver = @ \cup States(call.mine \ {answer})]
           new  == IF legs[answer].state = "useful"
                   THEN [left EXCEPT !.late = FALSE, !.passedOver = {}, !.primary = 0] ELSE left
<1>1. /\ Let(let, call.mine \ ({answer} \cup let)) /\ calls' = [calls EXCEPT ![c] = new]
      /\ UNCHANGED <<bucket, cooling, debt>>
  BY DEF Leave
<1>2. call \in Calls /\ answer \in Ids /\ States(call.mine \ {answer}) \subseteq States0
  BY CallType, StatesType DEF Calls
<1>3. left \in Calls /\ left.pc = "leaving" /\ left.mine = {answer} /\ left.pending = {}
      /\ left.late = call.late /\ left.primary = call.primary
      /\ left.passedOver = call.passedOver \cup States(call.mine \ {answer})
  BY <1>2 DEF Calls, Places
<1>4. new \in Calls /\ new.pc = "leaving" /\ new.mine = {answer} /\ new.pending = {}
      /\ (legs[answer].state # "useful" => new = left)
  <2> HIDE DEF left
  <2> QED
    BY <1>3 DEF Calls, Places
<1>5. ShapeOf(new)
  <2> HIDE DEF new, left
  <2> QED
    BY <1>2, <1>4 DEF ShapeOf
<1>6. BestOf(new)
  <2>1. CASE legs[answer].state = "useful"
    <3>1. ~Failed(answer)
      BY <2>1, HedgedCallAssumption DEF HedgedCallAssumption, Failed
    <3> HIDE DEF new, left
    <3> QED
      BY <1>4, <2>1, <3>1 DEF BestOf
  <2>2. CASE legs[answer].state # "useful"
    <3>1. new = left
      BY <1>4, <2>2
    <3> HIDE DEF new, left
    <3> QED
      BY <1>3, <2>2, <3>1 DEF BestOf
  <2> QED
    BY <2>1, <2>2
<1> HIDE DEF new, left
<1>7. Shape' /\ Mine' /\ InQueue' /\ Best' /\ calls' \in [Conversations -> Calls]
      /\ Alive' \subseteq Ids /\ (\A l \in Alive' : legs'[l] \in LegRecords)
      /\ losers' \in Seq(Ids)
  <2>1. PICK n \in Calls : n = new
    BY <1>4
  <2>2. /\ calls' = [calls EXCEPT ![c] = n] /\ n.mine = {answer} /\ n.pc = "leaving"
        /\ ShapeOf(n) /\ BestOf(n)
    BY <1>1, <1>4, <1>5, <1>6, <2>1
  <2>3. Let(let, calls[c].mine \ ({answer} \cup let))
    BY <1>1
  <2> QED
    BY <2>2, <2>3, KeepOne
<1> QED
  BY <1>1, <1>7 DEF IInv, Typed

LEMMA PrimaryEndsKeeps == ASSUME IInv, NEW c \in Conversations, PrimaryEnds(c) PROVE IInv'
<1> DEFINE p == calls[c].primary
<1>1. calls[c].pc \in {"first", "primary"} /\ Ended(p) /\ Leave(c, p, {})
  BY DEF PrimaryEnds
<1>2. calls[c].mine = {p}
  BY <1>1, CallType DEF ShapeOf
<1>3. States(calls[c].mine \ {p}) = {}
  BY <1>2 DEF States
<1>4. calls[c].late \/ calls[c].passedOver \cup States(calls[c].mine \ {p}) \subseteq Worthless
  BY <1>1, <1>3, CallType DEF BestOf
<1> QED
  BY <1>1, <1>2, <1>4, LeaveKeeps

LEMMA LookKeeps == ASSUME IInv, NEW c \in Conversations, Look(c) PROVE IInv'
<1> DEFINE done == {l \in calls[c].pending : Ended(l)}
<1>1. ASSUME NEW w \in Winners(done), Leave(c, w, calls[c].mine \ {w}) PROVE IInv'
  <2>1. w \in calls[c].mine /\ Ended(w) /\ legs[w].state = "useful"
    BY <1>1, CallType DEF Winners, ShapeOf
  <2>2. ~Failed(w)
    BY <2>1, HedgedCallAssumption DEF HedgedCallAssumption, Failed
  <2> QED
    BY <1>1, <2>1, <2>2, LeaveKeeps
<1>2. CASE /\ Winners(done) = {}
           /\ calls' = [calls EXCEPT ![c].pending = @ \ done]
           /\ UNCHANGED <<legs, losers, bucket, cooling, debt>>
  BY <1>2, PassedKeeps DEF Look
<1> QED
  BY <1>1, <1>2 DEF Look

LEMMA NoWinnerKeeps == ASSUME IInv, NEW c \in Conversations, NoWinner(c) PROVE IInv'
<1> DEFINE call   == calls[c]
           seen   == call.mine \ call.pending
           failed == {l \in seen : Failed(l)}
           empty  == {l \in seen : legs[l].state = "empty"}
           others == seen \ {call.primary}
<1>1. /\ call.pc \in {"racing", "burst"} /\ (call.pending = {} \/ call.late)
      /\ call.primary \in call.mine /\ call.pending \subseteq call.mine /\ call.passedOver = {}
      /\ \A l \in seen : legs[l].state \in Worthless
  BY CallType DEF NoWinner, Racing, ShapeOf, BestOf
<1>2. \A l \in seen : Ended(l)
  BY <1>1, HedgedCallAssumption DEF HedgedCallAssumption, Worthless, Ended
<1>3. \A l \in empty : ~Failed(l)
  BY HedgedCallAssumption DEF HedgedCallAssumption, Failed
<1>4. ASSUME NEW one \in call.mine
      PROVE  call.late \/ call.passedOver \cup States(call.mine \ {one}) \subseteq Worthless
  BY <1>1 DEF States
<1>5. ASSUME NEW chosen \in empty, Leave(c, chosen, seen \ {chosen}) PROVE IInv'
  <2>1. chosen \in call.mine /\ Ended(chosen) /\ ~Failed(chosen)
    BY <1>2, <1>3
  <2>2. seen \ {chosen} \subseteq call.mine \ {chosen}
    OBVIOUS
  <2>3. call.late \/ call.passedOver \cup States(call.mine \ {chosen}) \subseteq Worthless
    BY <1>4, <2>1
  <2> HIDE DEF seen, empty, failed, others
  <2> QED
    BY <1>5, <2>1, <2>2, <2>3, LeaveKeeps
<1>6. ASSUME call.primary \in failed, Leave(c, call.primary, seen \ {call.primary}) PROVE IInv'
  <2>1. call.primary \in call.mine /\ Ended(call.primary)
    BY <1>2, <1>6
  <2>2. seen \ {call.primary} \subseteq call.mine \ {call.primary}
    OBVIOUS
  <2>3. \/ call.late
        \/ call.passedOver \cup States(call.mine \ {call.primary}) \subseteq Worthless
    BY <1>4, <2>1
  <2> HIDE DEF seen, empty, failed, others
  <2> QED
    BY <1>6, <2>1, <2>2, <2>3, LeaveKeeps
<1>7. ASSUME Let(others, call.pending \ {call.primary}),
             calls' = [calls EXCEPT ![c].pc = "primary", ![c].mine = {call.primary},
                                    ![c].pending = {}, ![c].passedOver = States(others)],
             UNCHANGED <<bucket, cooling, debt>>
      PROVE  IInv'
  <2> DEFINE new == [call EXCEPT !.pc = "primary", !.mine = {call.primary},
                                 !.pending = {}, !.passedOver = States(others)]
  <2>1. calls' = [calls EXCEPT ![c] = new]
    BY <1>7 DEF IInv, Typed
  <2>2. others \subseteq call.mine \ {call.primary}
        /\ call.pending \ {call.primary} = call.mine \ ({call.primary} \cup others)
    BY <1>1
  <2>3. States(others) \subseteq States0 /\ States(others) \subseteq Worthless
    BY <1>1, <2>2, StatesType DEF States
  <2>4. call.primary \in Ids /\ call \in Calls
    BY <1>1, CallType DEF Calls
  <2>5. /\ new \in Calls /\ new.pc = "primary" /\ new.mine = {call.primary}
        /\ new.pending = {} /\ new.passedOver = States(others) /\ new.primary = call.primary
    <3> HIDE DEF others
    <3> QED
      BY <2>3, <2>4 DEF Calls, Places
  <2>6. ShapeOf(new) /\ BestOf(new)
    <3> HIDE DEF new, others
    <3> QED
      BY <2>3, <2>5 DEF ShapeOf, BestOf
  <2>7. PICK n \in Calls : n = new
    BY <2>5
  <2>8. /\ calls' = [calls EXCEPT ![c] = n] /\ n.mine = {call.primary} /\ n.pc = "primary"
        /\ ShapeOf(n) /\ BestOf(n)
    <3> HIDE DEF new
    <3> QED
      BY <2>1, <2>5, <2>6, <2>7
  <2>9. PICK which \in SUBSET calls[c].mine : which = others
    BY <2>2
  <2>10. which \subseteq calls[c].mine \ {call.primary}
         /\ Let(which, calls[c].mine \ ({call.primary} \cup which))
    BY <1>7, <2>2, <2>9
  <2>11. Shape' /\ Mine' /\ InQueue' /\ Best' /\ calls' \in [Conversations -> Calls]
         /\ Alive' \subseteq Ids /\ (\A l \in Alive' : legs'[l] \in LegRecords)
         /\ losers' \in Seq(Ids)
    <3> HIDE DEF new, others, seen
    <3> QED
      BY <1>1, <2>8, <2>10, KeepOne
  <2> QED
    BY <1>7, <2>11 DEF IInv, Typed
<1>8. \A l \in empty : l \in Ids
  BY DEF IInv, Mine, Typed
<1>9. \/ \E chosen \in empty : Leave(c, chosen, seen \ {chosen})
      \/ call.primary \in failed /\ Leave(c, call.primary, seen \ {call.primary})
      \/ /\ Let(others, call.pending \ {call.primary})
         /\ calls' = [calls EXCEPT ![c].pc = "primary", ![c].mine = {call.primary},
                                   ![c].pending = {}, ![c].passedOver = States(others)]
         /\ UNCHANGED <<bucket, cooling, debt>>
  <2>1. CASE /\ empty # {}
             /\ LET chosen == IF call.primary \in empty THEN call.primary ELSE Smallest(empty)
                IN  Leave(c, chosen, seen \ {chosen})
    <3>1. empty \subseteq Ids
      BY <1>8
    <3>2. Smallest(empty) \in empty
      <4> HIDE DEF empty
      <4> QED
        BY <2>1, <3>1, SmallestIsThere
    <3> HIDE DEF empty, seen
    <3> QED
      BY <2>1, <3>2
  <2>2. CASE Blamed(c, failed) # 0 /\ Leave(c, Blamed(c, failed), seen \ {Blamed(c, failed)})
    <3>1. call.primary \in failed /\ Blamed(c, failed) = call.primary
      BY <2>2 DEF Blamed
    <3> HIDE DEF seen, failed
    <3> QED
      BY <2>2, <3>1
  <2> QED
    BY <2>1, <2>2 DEF NoWinner
<1> QED
  BY <1>5, <1>6, <1>7, <1>9
-----------------------------------------------------------------------------
(* A leg is accounted for.                                                  *)

LEMMA DropLeg ==
    ASSUME Typed, NEW l \in Alive, legs' = Without(legs, {l})
    PROVE  /\ Alive' = Alive \ {l} /\ \A x \in Alive \ {l} : legs'[x] = legs[x]
           /\ Alive' \subseteq Ids /\ \A x \in Alive' : legs'[x] \in LegRecords
BY DEF Without, Alive, Typed

LEMMA LearnType ==
    ASSUME Typed, Learn
    PROVE  bucket' \in {<<b>> : b \in Buckets} /\ debt' \in Nat
<1>1. PICK b \in Buckets : TheBucket = <<b>>
  BY BudgetType
<1>2. bucket' = <<Refilled(b)>>
  BY <1>1 DEF Learn
<1> QED
  BY <1>2, BudgetType, HedgedCallAssumption DEF HedgedCallAssumption, Learn, Typed

LEMMA PenaltyType ==
    ASSUME Typed
    PROVE  Penalized \in {<<>>} \cup {<<b>> : b \in Buckets}
<1>1. CASE bucket = <<>>
  BY <1>1 DEF Penalized
<1>2. CASE bucket # <<>>
  <2>1. PICK b \in Buckets : bucket = <<b>>
    BY <1>2 DEF Typed
  <2> DEFINE less == [b EXCEPT !.tokens = IF @ - 1 < -Burst THEN -Burst ELSE @ - 1]
  <2>2. less \in Buckets
    BY HedgedCallAssumption DEF HedgedCallAssumption, Buckets
  <2>3. Penalized = <<less>>
    BY <1>2, <2>1 DEF Penalized
  <2> HIDE DEF less
  <2> QED
    BY <2>2, <2>3
<1> QED
  BY <1>1, <1>2

LEMMA DrainKeeps == ASSUME IInv, NEW c \in Conversations, Drain(c) PROVE IInv'
<1> DEFINE l == Head(losers)
<1> DEFINE wasted == legs[l].backup /\ legs[l].state = "per_minute"
<1>1. /\ losers # <<>> /\ losers' = Tail(losers) /\ legs' = Without(legs, {l}) /\ calls' = calls
      /\ \/ UNCHANGED debt /\ cooling' = (cooling \/ wasted)
            /\ bucket' = IF wasted THEN Penalized ELSE bucket
         \/ Learn /\ UNCHANGED cooling
  BY DEF Drain
<1>2. /\ Len(losers) \in Nat /\ Len(losers) >= 1 /\ l = losers[1] /\ losers' \in Seq(Ids)
      /\ Len(losers') = Len(losers) - 1
      /\ \A i \in 1..Len(losers') : losers'[i] = losers[i + 1]
  BY <1>1 DEF IInv, Typed
<1>3. l \in Alive /\ legs[l].queued /\ Ended(l)
  BY <1>2 DEF IInv, InQueue
<1>4. /\ Alive' = Alive \ {l} /\ \A x \in Alive \ {l} : legs'[x] = legs[x]
      /\ Alive' \subseteq Ids /\ \A x \in Alive' : legs'[x] \in LegRecords
  <2> HIDE DEF l
  <2> QED
    BY <1>1, <1>3, DropLeg DEF IInv
<1>5. \A d \in Conversations : l \notin calls[d].mine
  BY <1>3 DEF IInv, Mine
<1> HIDE DEF l, wasted
<1>6. Typed'
  <2>1. bucket' \in {<<>>} \cup {<<b>> : b \in Buckets} /\ cooling' \in BOOLEAN /\ debt' \in Nat
    <3>1. CASE /\ UNCHANGED debt /\ cooling' = (cooling \/ wasted)
               /\ bucket' = IF wasted THEN Penalized ELSE bucket
      <4>1. bucket' = bucket \/ bucket' = Penalized
        BY <3>1
      <4>2. cooling' \in BOOLEAN
        BY <3>1
      <4> QED
        BY <3>1, <4>1, <4>2, PenaltyType DEF IInv, Typed
    <3>2. CASE Learn /\ UNCHANGED cooling
      BY <3>2, LearnType DEF IInv, Typed
    <3> QED
      BY <1>1, <3>1, <3>2
  <2> QED
    BY <1>1, <1>2, <1>4, <2>1 DEF IInv, Typed
<1>0. calls' = calls
  BY <1>1
<1>7. Shape'
  BY <1>0 DEF IInv, Shape
<1>8. Mine'
  BY <1>0, <1>4, <1>5 DEF IInv, Mine
<1>9. InQueue'
  <2>1. ASSUME NEW i \in 1..Len(losers')
        PROVE  (losers[i] \in Alive /\ legs[losers[i]].queued /\ Ended(losers[i]))'
    <3>1. i + 1 \in 1..Len(losers) /\ i + 1 # 1 /\ losers'[i] = losers[i + 1]
      BY <1>2
    <3>2. losers[i + 1] # l /\ losers[i + 1] \in Alive
      BY <1>2, <3>1 DEF IInv, InQueue
    <3> QED
      BY <1>4, <3>1, <3>2 DEF IInv, InQueue, Ended
  <2>2. ASSUME NEW x \in Alive', legs'[x].queued, Ended(x)'
        PROVE  \E i \in 1..Len(losers') : losers'[i] = x
    <3>1. x \in Alive /\ x # l /\ legs[x].queued /\ Ended(x)
      BY <1>4, <2>2 DEF Ended
    <3>2. PICK i \in 1..Len(losers) : losers[i] = x
      BY <3>1 DEF IInv, InQueue
    <3>3. i - 1 \in 1..Len(losers') /\ (i - 1) + 1 = i
      BY <1>2, <3>1, <3>2
    <3>4. losers'[i - 1] = x
      BY <1>2, <3>2, <3>3
    <3> QED
      BY <3>3, <3>4
  <2>3. ASSUME NEW i \in 1..Len(losers'), NEW j \in 1..Len(losers'), losers'[i] = losers'[j]
        PROVE  i = j
    <3>1. i + 1 \in 1..Len(losers) /\ j + 1 \in 1..Len(losers) /\ losers[i + 1] = losers[j + 1]
      BY <1>2, <2>3
    <3>2. i + 1 = j + 1
      BY <3>1 DEF IInv, InQueue
    <3> QED
      BY <3>2
  <2> QED
    BY <2>1, <2>2, <2>3 DEF InQueue
<1>10. Best'
  <2>1. ASSUME NEW d \in Conversations PROVE BestOf(calls[d])'
    <3>1. BestOf(calls[d]) /\ \A x \in calls[d].mine : legs'[x] = legs[x]
      BY <1>4, <1>5 DEF IInv, Best, Mine
    <3> QED
      BY <1>1, <3>1 DEF BestOf, Ended, Failed
  <2> QED
    BY <2>1 DEF Best
<1> QED
  BY <1>6, <1>7, <1>8, <1>9, <1>10 DEF IInv

LEMMA ReturnKeeps == ASSUME IInv, NEW c \in Conversations, Return(c) PROVE IInv'
<1>1. PICK l \in Ids : calls[c].mine = {l}
  BY CallType DEF Return, At, ShapeOf
<1>2. Smallest(calls[c].mine) = l
  BY <1>1, SmallestOfOne
<1>3. /\ legs' = Without(legs, {l}) /\ calls' = [calls EXCEPT ![c] = Quiet]
      /\ UNCHANGED <<losers, cooling>> /\ (Learn \/ UNCHANGED <<bucket, debt>>)
  BY <1>2 DEF Return
<1>4. /\ l \in Alive /\ ~legs[l].queued
      /\ \A d \in Conversations : d # c => l \notin calls[d].mine
  BY <1>1 DEF IInv, Mine
<1>5. /\ Alive' = Alive \ {l} /\ \A x \in Alive \ {l} : legs'[x] = legs[x]
      /\ Alive' \subseteq Ids /\ \A x \in Alive' : legs'[x] \in LegRecords
  BY <1>3, <1>4, DropLeg DEF IInv
<1>6. Quiet = [pc |-> "idle", mine |-> {}, pending |-> {}, primary |-> 0, late |-> FALSE,
               passedOver |-> {}]
  BY DEF Quiet, Asked
<1>7. Quiet \in Calls /\ ShapeOf(Quiet) /\ Quiet.mine = {} /\ Quiet.pc = "idle"
  BY <1>6 DEF Calls, ShapeOf, Places
<1>8. calls'[c] = Quiet /\ \A d \in Conversations : d # c => calls'[d] = calls[d]
  BY <1>3 DEF IInv, Typed
<1>9. Typed'
  <2>1. bucket' \in {<<>>} \cup {<<b>> : b \in Buckets} /\ debt' \in Nat
    BY <1>3, LearnType DEF IInv, Typed
  <2> QED
    BY <1>3, <1>5, <1>7, <2>1 DEF IInv, Typed
<1>10. Shape'
  BY <1>7, <1>8 DEF IInv, Shape
<1>11. Mine'
  <2>1. \A d, e \in Conversations : d # e => calls'[d].mine \cap calls'[e].mine = {}
    BY <1>7, <1>8 DEF IInv, Mine
  <2>2. \A d \in Conversations : calls'[d].mine \subseteq Alive'
    BY <1>4, <1>5, <1>7, <1>8 DEF IInv, Mine
  <2>3. \A d \in Conversations : \A x \in calls'[d].mine : ~legs'[x].queued
    BY <1>4, <1>5, <1>7, <1>8 DEF IInv, Mine
  <2>4. ASSUME NEW x \in Alive', ~legs'[x].queued
        PROVE  \E d \in Conversations : x \in calls'[d].mine
    <3>1. x \in Alive /\ x # l /\ ~legs[x].queued
      BY <1>5, <2>4
    <3>2. PICK d \in Conversations : x \in calls[d].mine
      BY <3>1 DEF IInv, Mine
    <3>3. d # c
      BY <1>1, <3>1, <3>2
    <3> QED
      BY <1>8, <3>2, <3>3
  <2> QED
    BY <2>1, <2>2, <2>3, <2>4 DEF Mine
<1>12. InQueue'
  <2>1. losers' = losers /\ \A i \in 1..Len(losers) : losers[i] # l /\ losers[i] \in Alive
    BY <1>3, <1>4 DEF IInv, InQueue
  <2>2. ASSUME NEW x \in Alive', legs'[x].queued, Ended(x)'
        PROVE  \E i \in 1..Len(losers) : losers[i] = x
    BY <1>5, <2>2 DEF IInv, InQueue, Ended
  <2>3. ASSUME NEW i \in 1..Len(losers)
        PROVE  (losers[i] \in Alive /\ legs[losers[i]].queued /\ Ended(losers[i]))'
    BY <1>5, <2>1 DEF IInv, InQueue, Ended
  <2> QED
    BY <2>1, <2>2, <2>3 DEF IInv, InQueue
<1>13. Best'
  <2>1. ASSUME NEW d \in Conversations, d # c PROVE BestOf(calls[d])'
    <3>1. /\ calls'[d] = calls[d] /\ BestOf(calls[d])
          /\ \A x \in calls[d].mine : legs'[x] = legs[x]
      BY <1>4, <1>5, <1>8, <2>1 DEF IInv, Best, Mine
    <3> QED
      BY <3>1 DEF BestOf, Ended, Failed
  <2>2. BestOf(calls[c])'
    BY <1>7, <1>8 DEF BestOf
  <2> QED
    BY <2>1, <2>2 DEF Best
<1> QED
  BY <1>9, <1>10, <1>11, <1>12, <1>13 DEF IInv

LEMMA Step == ASSUME IInv, [Next]_vars PROVE IInv'
<1>1. ASSUME NEW c \in Conversations, Start(c) \/ GiveUp(c) \/ Races(c) PROVE IInv'
  <2>1. CASE Start(c) \/ GiveUp(c)
    BY <2>1, StartKeeps
  <2>2. CASE Dispatch(c)
    BY <2>2, DispatchKeeps
  <2>3. CASE DispatchBurst(c)
    BY <2>3, BurstKeeps
  <2>4. CASE Threshold(c)
    BY <2>4, ThresholdKeeps
  <2>5. CASE PrimaryEnds(c)
    BY <2>5, PrimaryEndsKeeps
  <2>6. CASE Look(c)
    BY <2>6, LookKeeps
  <2>7. CASE Deadline(c)
    BY <2>7, DeadlineKeeps
  <2>8. CASE NoWinner(c)
    BY <2>8, NoWinnerKeeps
  <2>9. CASE Drain(c)
    BY <2>9, DrainKeeps
  <2>10. CASE Return(c)
    BY <2>10, ReturnKeeps
  <2> QED
    BY <1>1, <2>1, <2>2, <2>3, <2>4, <2>5, <2>6, <2>7, <2>8, <2>9, <2>10 DEF Races
<1>2. ASSUME NEW l \in Alive, NEW outcome \in Outcomes, Ends(l, outcome) PROVE IInv'
  BY <1>2, EndsKeeps
<1>3. CASE CoolEnds \/ UNCHANGED vars
  <2>1. UNCHANGED <<calls, legs, losers, bucket, debt>> /\ cooling' \in BOOLEAN
    BY <1>3 DEF CoolEnds, vars, IInv, Typed
  <2>2. Typed'
    BY <2>1 DEF IInv, Typed, Alive
  <2>3. Shape' /\ Mine'
    BY <2>1 DEF IInv, Shape, Mine, Alive
  <2>4. InQueue'
    BY <2>1 DEF IInv, InQueue, Alive, Ended
  <2>5. Best'
    <3>1. ASSUME NEW c \in Conversations PROVE BestOf(calls[c])'
      BY <2>1 DEF IInv, Best, BestOf, Ended, Failed
    <3> QED
      BY <3>1 DEF Best
  <2> QED
    BY <2>2, <2>3, <2>4, <2>5 DEF IInv
<1> QED
  BY <1>1, <1>2, <1>3 DEF Next

\* Every variable of HedgedCall keeps its type.
THEOREM HedgeTypeCorrect == Spec => []TypeOK
<1>1. IInv => TypeOK
  BY TypedIsTypeOK DEF IInv
<1> QED
  BY <1>1, Initial, Step, PTL DEF Spec

\* Every leg alive has one judge: its race, or one place in the queue.
THEOREM EveryLegIsJudgedOnce == Spec => []OneJudge
<1> QED
  BY JudgeFollows, Initial, Step, PTL DEF Spec

\* No answer is passed over for a failure, and the failure raised is the
\* primary's.
THEOREM AnswersAreTaken == Spec => []BestAnswerWins
<1> QED
  BY BestFollows, Initial, Step, PTL DEF Spec
-----------------------------------------------------------------------------
(* The budget. What is owed and what is in the bucket never come to more    *)
(* than a full bucket and the parts of one token: a backup moves a token    *)
(* from one to the other, an answer earns at most what it pays back.        *)

Worth(b) == b.tokens * Whole + b.part
Top      == (Burst + 1) * Whole

Balanced == debt < Top /\ debt + Worth(TheBucket[1]) < Top

LEMMA Quotient ==
    ASSUME NEW w \in Nat \ {0}, NEW e \in 0..(2 * w - 1)
    PROVE  e \div w = (IF e < w THEN 0 ELSE 1) /\ e % w = (IF e < w THEN e ELSE e - w)
OBVIOUS

LEMMA Times ==
    ASSUME NEW w \in Nat, NEW a \in Int, NEW b \in Int, a <= b
    PROVE  a * w <= b * w /\ a * w \in Int /\ b * w \in Int
OBVIOUS

LEMMA Parts ==
    ASSUME NEW w \in Int, NEW a \in Int, NEW b \in Int
    PROVE  (a + b) * w = a * w + b * w /\ a * w \in Int
OBVIOUS

LEMMA RefilledWorth ==
    ASSUME NEW b \in Buckets
    PROVE  /\ Worth(b) \in Int /\ Worth(Refilled(b)) \in Int
           /\ Worth(Refilled(b)) <= Worth(b) + Share /\ Worth(Refilled(b)) < Top
<1> USE HedgedCallAssumption DEF HedgedCallAssumption
<1> DEFINE e == b.part + Share
           q == e \div Whole
           r == e % Whole
           t == IF b.tokens + q > Burst THEN Burst ELSE b.tokens + q
<1>1. b.part \in 0..(Whole - 1) /\ b.tokens \in -Burst..Burst
  BY DEF Buckets
<1>2. e \in 0..(2 * Whole - 1) /\ Whole \in Nat \ {0}
  BY <1>1
<1>3. q = (IF e < Whole THEN 0 ELSE 1) /\ r = (IF e < Whole THEN e ELSE e - Whole)
  <2> HIDE DEF e
  <2> QED
    BY <1>2, Quotient
<1>4. Refilled(b) = [tokens |-> t, part |-> r]
  BY Zenon DEF Refilled
<1>5. Worth(Refilled(b)) = t * Whole + r /\ Worth(b) = b.tokens * Whole + b.part
  BY <1>4 DEF Worth
<1>6. t \in Int /\ t <= Burst /\ t <= b.tokens + q /\ q \in {0, 1} /\ r \in 0..(Whole - 1)
  BY <1>1, <1>2, <1>3
<1> HIDE DEF t, q, r
<1>7. /\ t * Whole <= Burst * Whole /\ t * Whole <= (b.tokens + q) * Whole
      /\ t * Whole \in Int /\ Burst * Whole \in Int /\ (b.tokens + q) * Whole \in Int
  <2>1. Whole \in Nat /\ Burst \in Int /\ b.tokens + q \in Int
    BY <1>1, <1>6
  <2>2. t * Whole <= Burst * Whole /\ t * Whole \in Int /\ Burst * Whole \in Int
    BY <1>6, <2>1, Times, Zenon
  <2>3. t * Whole <= (b.tokens + q) * Whole /\ (b.tokens + q) * Whole \in Int
    BY <1>6, <2>1, Times, Zenon
  <2> QED
    BY <2>2, <2>3
<1>8. (b.tokens + q) * Whole = b.tokens * Whole + q * Whole /\ b.tokens * Whole \in Int
  <2>1. b.tokens \in Int /\ q \in Int /\ Whole \in Int
    BY <1>1, <1>2, <1>6
  <2> QED
    BY <2>1, Parts, Zenon
<1>9. Top = Burst * Whole + Whole
  BY DEF Top
<1>10. q * Whole + r = e
  BY <1>2, <1>3, <1>6
<1> QED
  BY <1>1, <1>5, <1>6, <1>7, <1>8, <1>9, <1>10

LEMMA BalancedInitial == Init => Balanced
<1> SUFFICES ASSUME Init PROVE Balanced
  OBVIOUS
<1>1. debt = 0 /\ TheBucket[1] = [tokens |-> Burst, part |-> 0]
  BY DEF Init, TheBucket, Full
<1>2. Worth(TheBucket[1]) = Burst * Whole
  BY <1>1, HedgedCallAssumption DEF HedgedCallAssumption, Worth
<1>3. Burst * Whole \in Nat /\ Top = Burst * Whole + Whole
  BY HedgedCallAssumption DEF HedgedCallAssumption, Top
<1> QED
  BY <1>1, <1>2, <1>3, HedgedCallAssumption DEF HedgedCallAssumption, Balanced

LEMMA LearnBalanced == ASSUME Typed, Balanced, Learn PROVE Balanced'
<1>1. PICK b \in Buckets : TheBucket = <<b>>
  BY BudgetType
<1>2. bucket' = <<Refilled(b)>> /\ debt' = IF debt > Share THEN debt - Share ELSE 0
  BY <1>1 DEF Learn
<1>3. TheBucket'[1] = Refilled(b) /\ TheBucket[1] = b
  BY <1>1, <1>2 DEF TheBucket
<1>4. Worth(TheBucket[1])' = Worth(Refilled(b))
  BY <1>3 DEF Worth
<1>5. Share \in Nat /\ debt \in Nat /\ Top \in Nat /\ Top > 0
  BY HedgedCallAssumption DEF HedgedCallAssumption, Typed, Top
<1>6. Top' = Top
  BY DEF Top
<1> QED
  BY <1>2, <1>3, <1>4, <1>5, <1>6, RefilledWorth DEF Balanced

LEMMA ThresholdBalanced ==
    ASSUME Typed, Balanced, NEW c \in Conversations, Threshold(c) PROVE Balanced'
<1> USE HedgedCallAssumption DEF HedgedCallAssumption
<1>0. Top' = Top /\ Top \in Nat /\ debt \in Nat
  BY DEF Top, Typed
<1>1. CASE UNCHANGED <<bucket, debt>>
  BY <1>1 DEF Balanced, TheBucket, Full, Worth, Top
<1>2. CASE TheBucket[1].tokens >= 1 /\ bucket' = Spent /\ debt' \in {debt, debt + Whole}
  <2>1. PICK b \in Buckets : TheBucket = <<b>>
    BY BudgetType
  <2> DEFINE less == [b EXCEPT !.tokens = @ - 1]
  <2>2. b.tokens \in -Burst..Burst /\ b.part \in 0..(Whole - 1) /\ b.tokens >= 1
    BY <1>2, <2>1 DEF Buckets
  <2>3. less.tokens = b.tokens - 1 /\ less.part = b.part
    BY DEF Buckets
  <2>4. TheBucket' = <<less>> /\ TheBucket[1] = b
    BY <1>2, <2>1 DEF Spent, TheBucket
  <2>5. Worth(TheBucket[1])' = (b.tokens - 1) * Whole + b.part
    BY <2>3, <2>4 DEF Worth
  <2>6. (b.tokens - 1) * Whole = b.tokens * Whole - Whole /\ b.tokens * Whole \in Int
        /\ (b.tokens - 1) * Whole \in Nat
    BY <2>2
  <2>7. Worth(TheBucket[1]) = b.tokens * Whole + b.part
    BY <2>4 DEF Worth
  <2>8. debt' + Worth(TheBucket[1])' < Top
    BY <1>0, <1>2, <2>2, <2>5, <2>6, <2>7 DEF Balanced
  <2>9. Worth(TheBucket[1])' >= 0
    BY <2>2, <2>5, <2>6
  <2>10. debt' < Top /\ Top' = Top
    BY <1>0, <1>2, <2>2, <2>5, <2>6, <2>8, <2>9 DEF Balanced
  <2> QED
    BY <2>8, <2>10 DEF Balanced
<1> QED
  BY <1>1, <1>2 DEF Threshold, Unhedged

LEMMA PenaltyBalanced ==
    ASSUME Typed, Balanced, bucket' = Penalized, debt' = debt
    PROVE  Balanced'
<1> USE HedgedCallAssumption DEF HedgedCallAssumption
<1>1. CASE bucket = <<>>
  BY <1>1 DEF Penalized, Balanced, TheBucket, Full, Worth, Top
<1>2. CASE bucket # <<>>
  <2>1. PICK b \in Buckets : bucket = <<b>>
    BY <1>2 DEF Typed
  <2> DEFINE t == IF b.tokens - 1 < -Burst THEN -Burst ELSE b.tokens - 1
  <2>2. b.tokens \in -Burst..Burst /\ b.part \in 0..(Whole - 1)
    BY DEF Buckets
  <2>3. t <= b.tokens /\ t \in Int
    BY <2>2
  <2>4. bucket' = <<[b EXCEPT !.tokens = t]>>
    BY <1>2, <2>1 DEF Penalized
  <2> HIDE DEF t
  <2>5. [b EXCEPT !.tokens = t].tokens = t /\ [b EXCEPT !.tokens = t].part = b.part
    BY DEF Buckets
  <2>6. TheBucket'[1] = [b EXCEPT !.tokens = t] /\ TheBucket[1] = b
    BY <1>2, <2>1, <2>4 DEF TheBucket
  <2>7. Worth(TheBucket[1])' = t * Whole + b.part /\ Worth(TheBucket[1]) = b.tokens * Whole + b.part
    BY <2>5, <2>6 DEF Worth
  <2>8. t * Whole <= b.tokens * Whole /\ t * Whole \in Int /\ b.tokens * Whole \in Int
    BY <2>2, <2>3, Times
  <2>9. Top' = Top /\ Top \in Nat /\ debt \in Nat
    BY DEF Top, Typed
  <2> QED
    BY <2>2, <2>7, <2>8, <2>9 DEF Balanced
<1> QED
  BY <1>1, <1>2

LEMMA BalancedStep == ASSUME Typed, Balanced, [Next]_vars PROVE Balanced'
<1>1. CASE UNCHANGED <<bucket, debt>>
  BY <1>1 DEF Balanced, TheBucket, Full, Worth, Top
<1>2. CASE Learn
  BY <1>2, LearnBalanced
<1>3. ASSUME NEW c \in Conversations, Threshold(c) PROVE Balanced'
  BY <1>3, ThresholdBalanced
<1>4. CASE bucket' = Penalized /\ debt' = debt
  BY <1>4, PenaltyBalanced
<1>5. ASSUME NEW c \in Conversations, Races(c)
      PROVE  \/ UNCHANGED <<bucket, debt>> \/ Learn \/ Threshold(c)
             \/ bucket' = Penalized /\ debt' = debt
  <2>1. CASE Dispatch(c) \/ DispatchBurst(c) \/ PrimaryEnds(c) \/ Look(c) \/ Deadline(c)
                \/ NoWinner(c)
    BY <2>1 DEF Dispatch, DispatchBurst, PrimaryEnds, Look, Deadline, NoWinner, Leave
  <2>2. CASE Drain(c)
    BY <2>2 DEF Drain
  <2>3. CASE Return(c)
    BY <2>3 DEF Return
  <2> QED
    BY <1>5, <2>1, <2>2, <2>3 DEF Races
<1>6. ASSUME NEW c \in Conversations, Start(c) \/ GiveUp(c) PROVE UNCHANGED <<bucket, debt>>
  BY <1>6 DEF Start, GiveUp
<1>7. ASSUME NEW l \in Alive, NEW outcome \in Outcomes, Ends(l, outcome)
      PROVE  UNCHANGED <<bucket, debt>>
  BY <1>7 DEF Ends
<1>8. CASE CoolEnds \/ UNCHANGED vars
  BY <1>1, <1>8 DEF CoolEnds, vars
<1> QED
  BY <1>1, <1>2, <1>3, <1>4, <1>5, <1>6, <1>7, <1>8 DEF Next

\* Over every stretch of requests the backups sent stay within a full bucket
\* and what the answers of that stretch earned.
THEOREM BudgetHolds == Spec => []BackupsBounded
<1>1. Init => IInv /\ Balanced
  BY Initial, BalancedInitial
<1>2. IInv /\ Balanced /\ [Next]_vars => (IInv /\ Balanced)'
  BY Step, BalancedStep DEF IInv
<1>3. Balanced => BackupsBounded
  BY DEF Balanced, BackupsBounded, Top
<1> QED
  BY <1>1, <1>2, <1>3, PTL DEF Spec
=============================================================================

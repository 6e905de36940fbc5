-------------------------- MODULE StreamRaceProofs --------------------------
(***************************************************************************)
(* Theorems about StreamRace, for every number of backups and raced        *)
(* models, every probe, any queue and any reply: its type invariant; that  *)
(* the reader hears one leg, every chunk of it once and in order; that     *)
(* every failure is judged once; that the caller is told of a failure only *)
(* when every leg failed; that no busy window is opened twice; and that no *)
(* leg reads on once its race is gone.                                     *)
(***************************************************************************)
EXTENDS StreamRace, TLAPS, SequenceTheorems, FiniteSetTheorems, WellFoundedInduction

Errors  == Failures \cup {"none"}
Spoken  == {"quiet", "word"}
Kinds   == Spoken \cup {"end"} \cup Failures
Items   == [leg : Nat, kind : Kinds, n : Nat]
LegType == [model : Models, thread : {"reading", "over"}, stop : BOOLEAN, done : BOOLEAN,
            error : Errors, buffer : Seq(Items), sent : Nat]

Places  == {"racing", "answering", "finished", "failed", "stopped", "handed over"}

LegsTyped == legs \in Seq(LegType) /\ Len(legs) >= 1

QueueTyped == queue \in Seq(Items) /\ \A k \in 1..Len(queue) : queue[k].leg \in 1..Len(legs)

RaceTyped ==
    /\ LegsTyped /\ QueueTyped
    /\ triggers \in Int /\ widened \in Nat /\ armed \in BOOLEAN
    /\ cross \in Seq(Models) /\ notedSlow \subseteq Models
    /\ pc \in Places /\ winner \in 0..Len(legs) /\ out \in Seq(Items)
    /\ judged \in Seq(Nat) /\ Len(judged) = Len(legs)
    /\ raised \in 0..Len(legs) /\ noted \in [Models -> Nat]
-----------------------------------------------------------------------------
\* The trail of leg i: the first a of its chunks are out, the next ones are
\* held, the rest, from after + 1 to sent, is in the queue; an end or a
\* failure is its last item.
Is(c, i, n) == c.leg = i /\ c.n = n

GivenUpTo(i, a, o) == \A n \in Nat : (\E k \in 1..Len(o) : Is(o[k], i, n)) <=> n \in 1..a

HeldNext(i, a, buffer) == \A k \in 1..Len(buffer) : Is(buffer[k], i, a + k)

QueueTrail(i, after, sent, q) ==
    /\ \A k \in 1..Len(q) : q[k].leg = i /\ q[k].kind \in Spoken => q[k].n > after /\ q[k].n <= sent
    /\ \A j, k \in 1..Len(q) : j < k /\ q[j].leg = i /\ q[k].leg = i =>
          q[j].kind \in Spoken /\ (q[k].kind \in Spoken => q[j].n < q[k].n)
    /\ \A n \in after + 1..sent :
          \E k \in 1..Len(q) : q[k].leg = i /\ q[k].kind \in Spoken /\ q[k].n = n

NoneQueued(i, q) == \A k \in 1..Len(q) : q[k].leg # i

TrailOf(i, a, o, leg, q) ==
    /\ a + Len(leg.buffer) <= leg.sent
    /\ GivenUpTo(i, a, o) /\ HeldNext(i, a, leg.buffer)
    /\ QueueTrail(i, a + Len(leg.buffer), leg.sent, q)
    /\ leg.done => NoneQueued(i, q)

Heeded(i) == pc = "racing" \/ (pc = "answering" /\ i = winner)

Trails == \A i \in Legs : Heeded(i) => \E a \in Nat : TrailOf(i, a, out, legs[i], queue)

InOrder(o, w) ==
    /\ \A k \in 1..Len(o) : o[k].leg # 0
    /\ \A k \in 1..Len(o) : o[k].leg # w =>
          o[k].leg = 1 /\ o[k].kind = "quiet" /\ \A j \in 1..k : o[j].leg # w
    /\ \A j, k \in 1..Len(o) : j < k /\ o[j].leg = o[k].leg => o[j].n < o[k].n
    /\ \A k \in 1..Len(o) : \A n \in 1..o[k].n : \E m \in 1..Len(o) : Is(o[m], o[k].leg, n)

OutInOrder == InOrder(out, winner)

Whole == pc = "finished" => \A n \in 1..legs[winner].sent : Given(winner, n)

\* A leg that runs alone holds nothing back.
AloneUnheld == pc = "racing" /\ 2 \notin Legs => legs[1].buffer = <<>>

WinnerStands == IF pc = "racing" THEN winner = 0 ELSE pc \in {"answering", "finished"} => winner # 0

Voice == Trails /\ OutInOrder /\ Whole /\ AloneUnheld

\* A leg that ended, as the queue or the race knows, has no thread left, and
\* no thread is left reading for a race that is gone.
EndingsQueued ==
    \A k \in 1..Len(queue) : queue[k].kind \notin Spoken => legs[queue[k].leg].thread = "over"

DoneIsOver == \A i \in Legs : legs[i].done => legs[i].thread = "over"

FinishedIsOver == pc = "finished" => legs[winner].thread = "over"

NoneReadsOn == \A i \in Legs : ~Heeded(i) => legs[i].stop \/ legs[i].thread = "over"

Quiet == EndingsQueued /\ DoneIsOver /\ FinishedIsOver /\ NoneReadsOn

Unjudged == pc = "racing" => raised = 0 /\ \A i \in Legs : judged[i] = 0

Verdicts == Unjudged /\ JudgedOnce /\ FailsOnlyTogether /\ (pc = "answering" => raised = 0)

OneEach ==
    /\ \A i, j \in Legs : legs[i].model = legs[j].model /\ legs[i].model # Home => i = j
    /\ \A k \in 1..Len(cross) : cross[k] # Home /\ \A i \in Legs : legs[i].model # cross[k]
    /\ \A j, k \in 1..Len(cross) : cross[j] = cross[k] => j = k

NotedAsSlow ==
    pc = "racing" =>
        /\ \A m \in Models : noted[m] = IF m \in notedSlow THEN 1 ELSE 0
        /\ armed => notedSlow = {}

Notes == OneEach /\ NotedAsSlow /\ NotedOnce
-----------------------------------------------------------------------------
(* Sequences                                                               *)

LEMMA FunctionIsSeq ==
    ASSUME NEW S, NEW n \in Nat, NEW f \in [1..n -> S]
    PROVE  f \in Seq(S) /\ Len(f) = n
<1>1. f \in Seq(S)
  BY SeqDef
<1>2. Len(f) \in Nat /\ 1..Len(f) = 1..n
  BY <1>1, LenProperties
<1> QED
  BY <1>1, <1>2

LEMMA Appended ==
    ASSUME NEW S, NEW s \in Seq(S), NEW x \in S
    PROVE  /\ Append(s, x) \in Seq(S)
           /\ Len(Append(s, x)) = Len(s) + 1
           /\ \A k \in 1..Len(s) : Append(s, x)[k] = s[k]
           /\ Append(s, x)[Len(s) + 1] = x
           /\ \A k \in 1..Len(Append(s, x)) : k \in 1..Len(s) \/ k = Len(s) + 1
<1>1. Len(s) \in Nat /\ Len(Append(s, x)) = Len(s) + 1
  BY AppendProperties, LenProperties
<1> QED
  BY <1>1, AppendProperties

LEMMA Rest ==
    ASSUME NEW S, NEW s \in Seq(S), s # <<>>
    PROVE  /\ Head(s) = s[1] /\ Head(s) \in S
           /\ Tail(s) \in Seq(S)
           /\ Len(s) \in Nat /\ Len(s) >= 1 /\ Len(Tail(s)) = Len(s) - 1
           /\ \A k \in 1..Len(Tail(s)) : k + 1 \in 1..Len(s) /\ Tail(s)[k] = s[k + 1]
           /\ \A k \in 1..Len(s) : k = 1 \/ (k - 1 \in 1..Len(Tail(s)) /\ Tail(s)[k - 1] = s[k])
<1>1. Len(s) \in Nat /\ Len(s) # 0
  BY EmptySeq, LenProperties
<1>2. /\ Head(s) \in S /\ Tail(s) \in Seq(S) /\ Len(Tail(s)) = Len(s) - 1
      /\ \A k \in 1..Len(Tail(s)) : Tail(s)[k] = s[k + 1]
  BY HeadTailProperties
<1>3. Head(s) = s[1]
  OBVIOUS
<1> QED
  BY <1>1, <1>2, <1>3

LEMMA EmptyLen ==
    ASSUME NEW S, NEW s \in Seq(S)
    PROVE  Len(s) \in Nat /\ (Len(s) = 0 <=> s = <<>>) /\ DOMAIN s = 1..Len(s)
BY EmptySeq, LenProperties
-----------------------------------------------------------------------------
(* Types                                                                   *)

LEMMA LegIsLeg == ASSUME NEW m \in Models PROVE Leg(m) \in LegType
BY EmptySeq DEF Leg, LegType, Errors

LEMMA LegFields ==
    ASSUME LegsTyped, NEW i \in Legs
    PROVE  /\ Legs = 1..Len(legs) /\ legs[i] \in LegType
           /\ Len(legs) \in Nat \ {0}
BY EmptyLen DEF LegsTyped, Legs

\* The same leg, whether it was told to stop or not.
SameLeg(a, b) ==
    /\ a.model = b.model /\ a.thread = b.thread /\ a.done = b.done
    /\ a.error = b.error /\ a.buffer = b.buffer /\ a.sent = b.sent

\* Cutting legs changes nothing but their stop flag.
LEMMA AbortedLegs ==
    ASSUME NEW ls \in Seq(LegType), NEW which
    PROVE  /\ Aborted(ls, which) \in Seq(LegType)
           /\ Len(Aborted(ls, which)) = Len(ls)
           /\ DOMAIN Aborted(ls, which) = DOMAIN ls
           /\ \A i \in DOMAIN ls : SameLeg(Aborted(ls, which)[i], ls[i])
           /\ \A i \in DOMAIN ls : i \in which => Aborted(ls, which)[i].stop
           /\ \A i \in DOMAIN ls : i \notin which => Aborted(ls, which)[i] = ls[i]
<1> DEFINE after == Aborted(ls, which)
<1>1. DOMAIN ls = 1..Len(ls) /\ Len(ls) \in Nat
  BY EmptyLen
<1>2. after = [i \in 1..Len(ls) |-> IF i \in which THEN [ls[i] EXCEPT !.stop = TRUE] ELSE ls[i]]
  BY <1>1 DEF Aborted
<1>3. ASSUME NEW i \in 1..Len(ls)
      PROVE  /\ after[i] \in LegType /\ SameLeg(after[i], ls[i])
             /\ i \in which => after[i].stop
             /\ i \notin which => after[i] = ls[i]
  <2>1. ls[i] \in LegType
    BY <1>1
  <2>2. CASE i \in which
    <3>1. after[i] = [ls[i] EXCEPT !.stop = TRUE]
      BY <1>2, <2>2
    <3> HIDE DEF after
    <3> QED
      BY <2>1, <2>2, <3>1 DEF LegType, SameLeg
  <2>3. CASE i \notin which
    BY <1>2, <2>1, <2>3 DEF SameLeg
  <2> QED
    BY <2>2, <2>3
<1>4. after \in [1..Len(ls) -> LegType]
  <2>1. DOMAIN after = 1..Len(ls) /\ after = [i \in 1..Len(ls) |-> after[i]]
    BY <1>2
  <2> HIDE DEF after
  <2> QED
    BY <1>3, <2>1
<1>5. after \in Seq(LegType) /\ Len(after) = Len(ls)
  BY <1>1, <1>4, FunctionIsSeq
<1> HIDE DEF after
<1>6. DOMAIN after = DOMAIN ls
  BY <1>1, <1>4
<1> QED
  BY <1>1, <1>3, <1>5, <1>6 DEF after

LEMMA LegChanged ==
    ASSUME LegsTyped, NEW i \in Legs, NEW leg \in LegType
    PROVE  /\ [legs EXCEPT ![i] = leg] \in Seq(LegType)
           /\ Len([legs EXCEPT ![i] = leg]) = Len(legs)
           /\ DOMAIN [legs EXCEPT ![i] = leg] = Legs
           /\ [legs EXCEPT ![i] = leg][i] = leg
           /\ \A j \in Legs \ {i} : [legs EXCEPT ![i] = leg][j] = legs[j]
<1>1. Legs = 1..Len(legs) /\ Len(legs) \in Nat /\ legs \in Seq(LegType)
  BY LegFields DEF LegsTyped
<1> QED
  BY <1>1, ExceptSeq DEF Legs

LEMMA TallyUp ==
    ASSUME NEW tally \in Seq(Nat), NEW which
    PROVE  /\ CountUp(tally, which) \in Seq(Nat)
           /\ Len(CountUp(tally, which)) = Len(tally)
           /\ \A i \in 1..Len(tally) :
                CountUp(tally, which)[i] = IF i \in which THEN tally[i] + 1 ELSE tally[i]
<1>1. DOMAIN tally = 1..Len(tally) /\ Len(tally) \in Nat
  BY EmptyLen
<1>2. CountUp(tally, which) \in [1..Len(tally) -> Nat]
  BY <1>1 DEF CountUp
<1> QED
  BY <1>1, <1>2, FunctionIsSeq DEF CountUp

\* The legs of one model can be counted.
LEMMA LegsCounted ==
    ASSUME LegsTyped, NEW S \in SUBSET Legs
    PROVE  IsFiniteSet(S) /\ Cardinality(S) \in Nat
<1>1. Legs = 1..Len(legs) /\ Len(legs) \in Nat
  BY EmptyLen DEF LegsTyped, Legs
<1>2. IsFiniteSet(Legs)
  BY <1>1, FS_Interval
<1> QED
  BY <1>2, FS_Subset, FS_CardinalityType

\* Among legs that ended, one opened first.
LEMMA FirstOfSome ==
    ASSUME NEW n \in Nat, NEW S \in SUBSET (1..n), S # {}
    PROVE  \E i \in S : \A j \in S : i <= j
<1> DEFINE U == 1..n
           T == {1..x : x \in S}
<1>1. IsFiniteSet(U)
  BY FS_Interval
<1>2. IsWellFoundedOn(StrictSubsetOrdering(U), SUBSET U)
  BY <1>1, FS_StrictSubsetOrderingWellFounded, FS_FiniteSubsetsOfFinite
<1>3. T \subseteq SUBSET U /\ T # {}
  <2>1. \A x \in S : 1..x \in SUBSET U
    OBVIOUS
  <2>2. \A t \in T : t \in SUBSET U
    BY <2>1
  <2> QED
    BY <2>2
<1>4. PICK t \in T : \A u \in T : ~ (<<u, t>> \in StrictSubsetOrdering(U))
  <2> HIDE DEF T, U
  <2> QED
    BY <1>2, <1>3, WFMin
<1>5. PICK i \in S : t = 1..i
  BY <1>4
<1>6. ASSUME NEW j \in S, ~(i <= j) PROVE FALSE
  <2>1. i \in Nat /\ j \in Nat /\ j < i /\ i >= 1
    BY <1>6
  <2>2. 1..j \subseteq 1..i /\ i \in 1..i /\ ~(i \in 1..j)
    BY <2>1
  <2>3. 1..j # 1..i
    BY <2>2
  <2>4. 1..j \in T /\ 1..j \in SUBSET U /\ t \in SUBSET U
    BY <1>3, <1>4
  <2> QED
    BY <1>4, <1>5, <2>2, <2>3, <2>4 DEF StrictSubsetOrdering
<1> QED
  BY <1>6

LEMMA SilentLeg ==
    ASSUME NEW ls \in Seq(LegType), Len(ls) >= 1
    PROVE  /\ Silent(ls) \in 0..Len(ls)
           /\ Silent(ls) = 0 => \A i \in DOMAIN ls : ls[i].error # "none"
           /\ Silent(ls) # 0 => ls[Silent(ls)].error = "none"
<1> DEFINE ended == {i \in DOMAIN ls : ls[i].error = "none"}
<1>1. DOMAIN ls = 1..Len(ls) /\ Len(ls) \in Nat
  BY EmptyLen
<1>2. Len(ls) \in Nat /\ ended \in SUBSET (1..Len(ls))
  BY <1>1
<1>3. CASE ended = {}
  <2>1. Silent(ls) = 0
    BY <1>3 DEF Silent
  <2> QED
    BY <1>1, <1>3, <2>1
<1>4. CASE ended # {} /\ 1 \in ended
  <2>1. Silent(ls) = 1
    BY <1>4 DEF Silent
  <2> QED
    BY <1>1, <1>4, <2>1
<1>5. CASE ended # {} /\ 1 \notin ended
  <2>1. Silent(ls) = CHOOSE i \in ended : \A j \in ended : i <= j
    BY <1>5 DEF Silent
  <2>2. \E i \in ended : \A j \in ended : i <= j
    BY <1>2, <1>5, FirstOfSome
  <2>3. Silent(ls) \in ended
    BY <2>1, <2>2
  <2> QED
    BY <1>1, <2>3
<1> QED
  BY <1>3, <1>4, <1>5
-----------------------------------------------------------------------------
(* Every variable keeps its type.                                          *)

\* What is taken from the queue names a leg.
LEMMA NextItem ==
    ASSUME LegsTyped, QueueTyped, queue # <<>>
    PROVE  /\ Head(queue) = queue[1] /\ Head(queue) \in Items
           /\ Head(queue).leg \in Legs /\ Head(queue).n \in Nat /\ Head(queue).kind \in Kinds
           /\ Tail(queue) \in Seq(Items)
           /\ \A k \in 1..Len(Tail(queue)) : Tail(queue)[k].leg \in 1..Len(legs)
<1>1. /\ Head(queue) = queue[1] /\ Head(queue) \in Items /\ Tail(queue) \in Seq(Items)
      /\ Len(queue) \in Nat /\ Len(queue) >= 1
      /\ \A k \in 1..Len(Tail(queue)) : k + 1 \in 1..Len(queue) /\ Tail(queue)[k] = queue[k + 1]
  BY Rest DEF QueueTyped
<1>2. 1 \in 1..Len(queue) /\ Legs = 1..Len(legs)
  BY <1>1, EmptyLen DEF LegsTyped, Legs
<1> QED
  BY <1>1, <1>2 DEF QueueTyped, Items

LEMMA PutType ==
    ASSUME LegsTyped, QueueTyped, NEW i \in Legs, NEW kind \in Kinds, Put(i, kind),
           legs' \in Seq(LegType), Len(legs') = Len(legs)
    PROVE  QueueTyped'
<1>1. Legs = 1..Len(legs) /\ Len(legs) \in Nat /\ i \in DOMAIN legs'
  BY EmptyLen DEF LegsTyped, Legs
<1>2. legs'[i].sent \in Nat
  <2>1. legs'[i] \in LegType
    BY <1>1
  <2> QED
    BY <2>1 DEF LegType
<1>3. CASE Reading
  <2> DEFINE item == [leg |-> i, kind |-> kind, n |-> legs'[i].sent]
  <2>1. item \in Items /\ queue' = Append(queue, item) /\ item.leg = i
    BY <1>1, <1>2, <1>3 DEF Put, Items
  <2> HIDE DEF item
  <2> QED
    BY <1>1, <2>1, Appended DEF QueueTyped
<1>4. CASE ~Reading
  BY <1>4 DEF Put, QueueTyped
<1> QED
  BY <1>3, <1>4

\* A leg's own step.
LEMMA TypedLegStep ==
    ASSUME RaceTyped, NEW i \in Legs, LegStep(i)
    PROVE  RaceTyped'
<1>1. Legs = 1..Len(legs) /\ legs[i] \in LegType /\ Len(legs) \in Nat \ {0} /\ LegsTyped
  BY LegFields DEF RaceTyped
<1>2. /\ \E leg \in LegType : legs' = [legs EXCEPT ![i] = leg]
      /\ \/ UNCHANGED queue
         \/ \E kind \in Kinds : Put(i, kind)
      /\ UNCHANGED <<triggers, cross, armed, widened, notedSlow, pc, winner, out, told>>
  <2>1. ASSUME NEW kind \in Spoken, LegReads(i, kind) PROVE <1>2!:
    <3>1. /\ [legs[i] EXCEPT !.thread = "over"] \in LegType
          /\ [legs[i] EXCEPT !.sent = legs[i].sent + 1] \in LegType
      BY <1>1 DEF LegType
    <3> QED
      BY <2>1, <3>1 DEF LegReads, Kinds
  <2>2. CASE LegEnds(i)
    <3>1. [legs[i] EXCEPT !.thread = "over"] \in LegType
      BY <1>1 DEF LegType
    <3> QED
      BY <2>2, <3>1 DEF LegEnds, Kinds
  <2>3. ASSUME NEW failure \in Failures, LegFails(i, failure) PROVE <1>2!:
    <3>1. [legs[i] EXCEPT !.thread = "over"] \in LegType
      BY <1>1 DEF LegType
    <3> QED
      BY <2>3, <3>1 DEF LegFails, Kinds
  <2> QED
    BY <2>1, <2>2, <2>3 DEF LegStep, Spoken
<1>3. legs' \in Seq(LegType) /\ Len(legs') = Len(legs)
  BY <1>1, <1>2, LegChanged
<1>4. QueueTyped'
  BY <1>1, <1>2, <1>3, PutType DEF RaceTyped, QueueTyped
<1> QED
  BY <1>1, <1>2, <1>3, <1>4 DEF RaceTyped, LegsTyped, told

LEMMA JoinsType ==
    ASSUME RaceTyped, NEW model \in Models, Joins(model)
    PROVE  /\ legs' = Append(legs, Leg(model)) /\ judged' = Append(judged, 0)
           /\ LegsTyped' /\ Len(legs') = Len(legs) + 1
           /\ \A i \in Legs : legs'[i] = legs[i] /\ judged'[i] = judged[i]
           /\ legs'[Len(legs) + 1] = Leg(model) /\ judged'[Len(legs) + 1] = 0
           /\ judged' \in Seq(Nat) /\ Len(judged') = Len(legs')
           /\ Legs' = 1..Len(legs) + 1
           /\ \A i \in Legs' : i \in Legs \/ i = Len(legs) + 1
           /\ UNCHANGED <<raised, noted>>
<1>1. /\ Legs = 1..Len(legs) /\ Len(legs) \in Nat \ {0} /\ legs \in Seq(LegType)
      /\ Leg(model) \in LegType
      /\ judged \in Seq(Nat) /\ Len(judged) = Len(legs)
  BY EmptyLen, LegIsLeg DEF RaceTyped, LegsTyped, Legs
<1>2. legs' = Append(legs, Leg(model)) /\ judged' = Append(judged, 0) /\ UNCHANGED <<raised, noted>>
  BY DEF Joins
<1>3. /\ legs' \in Seq(LegType) /\ Len(legs') = Len(legs) + 1
      /\ \A i \in 1..Len(legs) : legs'[i] = legs[i]
      /\ legs'[Len(legs) + 1] = Leg(model)
      /\ \A i \in 1..Len(legs') : i \in 1..Len(legs) \/ i = Len(legs) + 1
  BY <1>1, <1>2, Appended
<1>4. /\ judged' \in Seq(Nat) /\ Len(judged') = Len(judged) + 1
      /\ \A i \in 1..Len(judged) : judged'[i] = judged[i]
      /\ judged'[Len(judged) + 1] = 0
  BY <1>1, <1>2, Appended
<1>5. Legs' = 1..Len(legs')
  BY <1>3, EmptyLen DEF Legs
<1> QED
  BY <1>1, <1>2, <1>3, <1>4, <1>5 DEF LegsTyped

LEMMA TypedJoins ==
    ASSUME RaceTyped, NEW model \in Models, Joins(model),
           triggers' \in Int, widened' \in Nat, cross' \in Seq(Models),
           UNCHANGED <<queue, armed, notedSlow, pc, winner, out>>
    PROVE  RaceTyped'
<1>1. /\ LegsTyped' /\ Len(legs') = Len(legs) + 1 /\ Len(legs) \in Nat
      /\ judged' \in Seq(Nat) /\ Len(judged') = Len(legs') /\ UNCHANGED <<raised, noted>>
  BY JoinsType, EmptyLen DEF RaceTyped, LegsTyped
<1>2. QueueTyped'
  BY <1>1 DEF RaceTyped, QueueTyped
<1> QED
  BY <1>1, <1>2 DEF RaceTyped

LEMMA TypedOpens ==
    ASSUME RaceTyped, OpenBackup \/ OpenCross \/ \E model \in Spare : Widen(model)
    PROVE  RaceTyped'
<1>0. Home \in Models /\ Spare \subseteq Models
  BY DEF Models
<1>1. CASE OpenBackup
  <2>1. CASE Joins(Home)
    BY <1>0, <1>1, <2>1, TypedJoins DEF OpenBackup, RaceTyped
  <2>2. CASE UNCHANGED <<legs, told>>
    BY <1>1, <2>2 DEF OpenBackup, RaceTyped, told, LegsTyped, QueueTyped
  <2> QED
    BY <1>1, <2>1, <2>2 DEF OpenBackup
<1>2. CASE OpenCross
  <2>1. /\ cross # <<>> /\ Head(cross) \in Models
        /\ cross' = Tail(cross) /\ Tail(cross) \in Seq(Models)
    BY <1>2, Rest DEF OpenCross, RaceTyped
  <2>2. CASE Joins(Head(cross))
    BY <1>2, <2>1, <2>2, TypedJoins DEF OpenCross, RaceTyped
  <2>3. CASE UNCHANGED <<legs, told>>
    BY <1>2, <2>1, <2>3 DEF OpenCross, RaceTyped, told, LegsTyped, QueueTyped
  <2> QED
    BY <1>2, <2>2, <2>3 DEF OpenCross
<1>3. ASSUME NEW model \in Spare, Widen(model) PROVE RaceTyped'
  BY <1>0, <1>3, TypedJoins DEF Widen, RaceTyped
<1> QED
  BY <1>1, <1>2, <1>3

\* What the next item makes of the legs.
Kept(item)    == [legs EXCEPT ![item.leg].buffer = Append(@, item)]

EndedBy(item) == [legs EXCEPT ![item.leg].done = TRUE,
                              ![item.leg].error =
                                  IF item.kind \in Failures THEN item.kind ELSE "none"]

LEMMA KeptType ==
    ASSUME LegsTyped, QueueTyped, queue # <<>>, NEW item, item = Head(queue)
    PROVE  /\ Kept(item) \in Seq(LegType) /\ Len(Kept(item)) = Len(legs)
           /\ DOMAIN Kept(item) = Legs
           /\ Kept(item)[item.leg] = [legs[item.leg] EXCEPT
                                        !.buffer = Append(@, item)]
           /\ \A j \in Legs \ {item.leg} : Kept(item)[j] = legs[j]
<1>1. /\ item.leg \in Legs /\ item \in Items /\ legs[item.leg] \in LegType
  BY NextItem, LegFields
<1> DEFINE leg == [legs[item.leg] EXCEPT !.buffer = Append(@, item)]
<1>2. Append(legs[item.leg].buffer, item) \in Seq(Items)
  <2>1. legs[item.leg].buffer \in Seq(Items)
    BY <1>1 DEF LegType
  <2> QED
    BY <1>1, <2>1, Appended
<1>3. leg \in LegType
  BY <1>1, <1>2 DEF LegType
<1>4. Kept(item) = [legs EXCEPT ![item.leg] = leg]
  BY DEF Kept
<1> QED
  BY <1>1, <1>3, <1>4, LegChanged

LEMMA EndedType ==
    ASSUME LegsTyped, QueueTyped, queue # <<>>, NEW item, item = Head(queue)
    PROVE  /\ EndedBy(item) \in Seq(LegType) /\ Len(EndedBy(item)) = Len(legs)
           /\ DOMAIN EndedBy(item) = Legs
           /\ EndedBy(item)[item.leg] = [legs[item.leg] EXCEPT !.done = TRUE,
                  !.error = IF item.kind \in Failures THEN item.kind ELSE "none"]
           /\ \A j \in Legs \ {item.leg} : EndedBy(item)[j] = legs[j]
<1>1. item.leg \in Legs /\ legs[item.leg] \in LegType
  BY NextItem, LegFields
<1> DEFINE error == IF item.kind \in Failures THEN item.kind ELSE "none"
           leg   == [legs[item.leg] EXCEPT !.done = TRUE, !.error = error]
<1>2. leg \in LegType
  BY <1>1 DEF LegType, Errors
<1>3. EndedBy(item) = [legs EXCEPT ![item.leg] = leg]
  BY <1>1 DEF EndedBy, Legs
<1> QED
  BY <1>1, <1>2, <1>3, LegChanged

\* Receive, case by case.
LEMMA ReceiveCases ==
    ASSUME RaceTyped, Receive, NEW item, item = Head(queue)
    PROVE  /\ pc = "racing" /\ queue # <<>>
           /\ queue' = IF pc' = "failed" THEN <<>> ELSE Tail(queue)
           /\ UNCHANGED <<triggers, cross, armed, widened, notedSlow>>
           /\ \/ item.kind = "word" /\ Decide(Kept(item), item.leg) /\ UNCHANGED out
              \/ /\ item.kind = "quiet" /\ Alone
                 /\ out' = Append(out, item)
                 /\ UNCHANGED <<legs, pc, winner, told>>
              \/ /\ item.kind = "quiet" /\ ~Alone
                 /\ legs' = Kept(item) /\ UNCHANGED <<out, pc, winner, told>>
              \/ /\ item.kind \in Failures \cup {"end"} /\ ~Over(EndedBy(item))
                 /\ legs' = EndedBy(item) /\ UNCHANGED <<out, pc, winner, told>>
              \/ /\ item.kind \in Failures \cup {"end"} /\ Over(EndedBy(item))
                 /\ Decide(EndedBy(item), Silent(EndedBy(item))) /\ UNCHANGED out
BY DEF Receive, Heard, Kept, EndedBy

\* What a decision does to the legs and the verdicts.
LEMMA DecideType ==
    ASSUME RaceTyped, NEW ls \in Seq(LegType), Len(ls) = Len(legs), NEW w \in 0..Len(legs),
           Decide(ls, w)
    PROVE  /\ LegsTyped' /\ Len(legs') = Len(legs) /\ DOMAIN ls = Legs /\ Legs' = Legs
           /\ legs' = Aborted(ls, {i \in Legs \ {w} : ~ls[i].done})
           /\ \A i \in Legs :
                /\ SameLeg(legs'[i], ls[i])
                /\ i # w /\ ~ls[i].done => legs'[i].stop
           /\ judged' \in Seq(Nat) /\ Len(judged') = Len(legs)
           /\ \A i \in Legs :
                judged'[i] = IF i \in FailedLosers(ls, w) THEN judged[i] + 1 ELSE judged[i]
           /\ noted' \in [Models -> Nat]
           /\ winner' = w /\ raised' = (IF w = 0 THEN 1 ELSE 0) /\ raised' \in 0..Len(legs)
           /\ pc' = (IF w = 0 THEN "failed" ELSE "answering")
<1> DEFINE losers == DOMAIN ls \ {w}
           cut == {i \in losers : ~ls[i].done}
<1>1. /\ DOMAIN ls = Legs /\ Legs = 1..Len(legs) /\ Len(legs) \in Nat \ {0}
      /\ \A i \in Legs : ls[i] \in LegType
  BY EmptyLen DEF RaceTyped, LegsTyped, Legs
<1>2. /\ legs' = Aborted(ls, cut) /\ judged' = CountUp(judged, FailedLosers(ls, w))
      /\ winner' = w /\ raised' = (IF w = 0 THEN 1 ELSE 0)
      /\ pc' = (IF w = 0 THEN "failed" ELSE "answering")
  BY DEF Decide
<1>3. /\ legs' \in Seq(LegType) /\ Len(legs') = Len(ls) /\ DOMAIN legs' = DOMAIN ls
      /\ \A i \in DOMAIN ls : SameLeg(legs'[i], ls[i]) /\ (i \in cut => legs'[i].stop)
  <2> HIDE DEF cut
  <2> QED
    BY <1>2, AbortedLegs
<1>4. LegsTyped' /\ Legs' = Legs
  BY <1>1, <1>3 DEF LegsTyped, Legs
<1>5. /\ judged' \in Seq(Nat) /\ Len(judged') = Len(legs)
      /\ \A i \in Legs :
           judged'[i] = IF i \in FailedLosers(ls, w) THEN judged[i] + 1 ELSE judged[i]
  BY <1>1, <1>2, TallyUp DEF RaceTyped
<1>6. noted' \in [Models -> Nat]
  <2> DEFINE again  == {Probe} \cap {ls[i].model : i \in
                                        {j \in FailedLosers(ls, w) : ls[j].error = "busy"}}
             stands == w # 0 /\ ls[w].model # Home
             left   == IF ~stands THEN {} ELSE {i \in losers : Unheard(ls, i)}
             home   == IF stands /\ ls[w].model # Probe /\ Home \notin notedSlow
                       THEN {Home} ELSE {}
             count(m) == Cardinality({i \in left : ls[i].model = m})
  <2>1. noted' = [m \in Models |-> noted[m] + (IF m \in again THEN 1 ELSE 0)
                        + (IF m \in home THEN 1 ELSE 0) + count(m)]
    BY DEF Decide
  <2>2. left \in SUBSET Legs
    BY <1>1
  <2> HIDE DEF again, left, home
  <2>3. \A m \in Models : count(m) \in Nat
    <3> TAKE m \in Models
    <3>1. {i \in left : ls[i].model = m} \in SUBSET Legs
      BY <2>2
    <3> QED
      BY <3>1, LegsCounted DEF RaceTyped
  <2> HIDE DEF count
  <2> QED
    BY <2>1, <2>3 DEF RaceTyped
<1> HIDE DEF losers
<1> QED
  <2>1. cut = {i \in Legs \ {w} : ~ls[i].done}
    BY <1>1 DEF losers
  <2>2. \A i \in Legs : i # w /\ ~ls[i].done => legs'[i].stop
    BY <1>1, <1>3, <2>1
  <2> HIDE DEF cut
  <2>3. raised' \in 0..Len(legs)
    BY <1>1, <1>2
  <2>4. legs' = Aborted(ls, {i \in Legs \ {w} : ~ls[i].done})
    BY <1>2, <2>1
  <2>5. \A i \in Legs : SameLeg(legs'[i], ls[i])
    BY <1>1, <1>3
  <2> QED
    BY <1>1, <1>2, <1>3, <1>4, <1>5, <1>6, <2>2, <2>3, <2>4, <2>5

\* The tail of the queue is a queue of the same legs.
LEMMA TailType ==
    ASSUME LegsTyped, QueueTyped, queue # <<>>, Len(legs') = Len(legs),
           queue' \in {<<>>, Tail(queue)}
    PROVE  QueueTyped'
<1>1. CASE queue' = <<>>
  BY <1>1, EmptySeq DEF QueueTyped
<1>2. CASE queue' = Tail(queue)
  BY <1>2, NextItem DEF QueueTyped
<1> QED
  BY <1>1, <1>2

LEMMA TypedReceive == ASSUME RaceTyped, Receive PROVE RaceTyped'
<1> DEFINE item == Head(queue)
<1>1. /\ pc = "racing" /\ queue # <<>> /\ LegsTyped /\ QueueTyped
      /\ queue' \in {<<>>, Tail(queue)}
      /\ UNCHANGED <<triggers, cross, armed, widened, notedSlow>>
  BY ReceiveCases DEF RaceTyped
<1>2. Len(legs) \in Nat \ {0} /\ Legs = 1..Len(legs)
  BY EmptyLen DEF RaceTyped, LegsTyped, Legs
<1>3. /\ item.leg \in 0..Len(legs) /\ item \in Items
      /\ Kept(item) \in Seq(LegType) /\ Len(Kept(item)) = Len(legs)
      /\ EndedBy(item) \in Seq(LegType) /\ Len(EndedBy(item)) = Len(legs)
      /\ Silent(EndedBy(item)) \in 0..Len(legs)
  <2>1. item.leg \in Legs /\ item \in Items
    BY <1>1, NextItem
  <2> HIDE DEF item
  <2>2. item = Head(queue)
    BY DEF item
  <2>3. Kept(item) \in Seq(LegType) /\ Len(Kept(item)) = Len(legs)
    BY <1>1, <2>2, KeptType
  <2>4. EndedBy(item) \in Seq(LegType) /\ Len(EndedBy(item)) = Len(legs)
    BY <1>1, <2>2, EndedType
  <2>5. Silent(EndedBy(item)) \in 0..Len(legs)
    BY <1>2, <2>4, SilentLeg
  <2> QED
    BY <1>2, <2>1, <2>3, <2>4, <2>5
<1> HIDE DEF item
<1>4. ASSUME NEW ls \in Seq(LegType), Len(ls) = Len(legs), NEW w \in 0..Len(legs),
             Decide(ls, w), UNCHANGED out
      PROVE  RaceTyped'
  <2>1. /\ LegsTyped' /\ Len(legs') = Len(legs) /\ judged' \in Seq(Nat) /\ Len(judged') = Len(legs)
        /\ noted' \in [Models -> Nat] /\ winner' = w /\ raised' \in 0..Len(legs)
        /\ pc' = IF w = 0 THEN "failed" ELSE "answering"
    BY <1>4, DecideType
  <2>2. QueueTyped'
    BY <1>1, <2>1, TailType
  <2>3. pc' \in Places
    BY <2>1 DEF Places
  <2> QED
    BY <1>1, <1>4, <2>1, <2>2, <2>3 DEF RaceTyped
<1>5. ASSUME legs' \in Seq(LegType), Len(legs') = Len(legs), out' \in Seq(Items),
             UNCHANGED <<pc, winner, told>>
      PROVE  RaceTyped'
  <2>1. QueueTyped'
    BY <1>1, <1>5, TailType
  <2> QED
    BY <1>1, <1>2, <1>5, <2>1 DEF RaceTyped, LegsTyped, told
<1>6. /\ Append(out, item) \in Seq(Items) /\ out \in Seq(Items)
      /\ legs \in Seq(LegType)
  BY <1>3, Appended DEF RaceTyped, LegsTyped
<1> QED
  BY <1>3, <1>4, <1>5, <1>6, ReceiveCases DEF item

LEMMA CutType ==
    ASSUME RaceTyped, NEW which, legs' = Aborted(legs, which)
    PROVE  /\ LegsTyped' /\ Len(legs') = Len(legs) /\ Legs' = Legs
           /\ \A i \in Legs : SameLeg(legs'[i], legs[i])
           /\ \A i \in Legs : i \in which => legs'[i].stop
           /\ \A i \in Legs : i \notin which => legs'[i] = legs[i]
BY AbortedLegs DEF RaceTyped, LegsTyped, Legs

LEMMA TypedSlowBound ==
    ASSUME RaceTyped, KeepWaiting \/ NoHandOver \/ HandOver PROVE RaceTyped'
<1>1. CASE KeepWaiting
  <2> DEFINE slow == {Home} \cup {legs[i].model : i \in {j \in Crossed : ~legs[j].done}}
  <2>1. slow \subseteq Models
    <3>1. Home \in Models /\ Crossed \subseteq Legs
      BY DEF Models, Crossed
    <3>2. \A i \in Legs : legs[i].model \in Models
      BY LegFields DEF RaceTyped, LegType
    <3> QED
      BY <3>1, <3>2
  <2>2. noted' = CountUp(noted, slow) /\ notedSlow' = notedSlow \cup slow
    BY <1>1 DEF KeepWaiting, Remembered
  <2> HIDE DEF slow
  <2>3. noted' \in [Models -> Nat]
    BY <2>2 DEF CountUp, RaceTyped
  <2>4. /\ armed' \in BOOLEAN
        /\ UNCHANGED <<legs, queue, triggers, cross, widened, pc, winner, out, judged, raised>>
    BY <1>1 DEF KeepWaiting
  <2> QED
    BY <2>1, <2>2, <2>3, <2>4 DEF RaceTyped, LegsTyped, QueueTyped
<1>2. CASE NoHandOver
  BY <1>2 DEF NoHandOver, RaceTyped, LegsTyped, QueueTyped, told
<1>3. CASE HandOver
  <2>1. LegsTyped' /\ Len(legs') = Len(legs)
    BY <1>3, CutType DEF HandOver
  <2>2. QueueTyped'
    <3>1. queue' \in Seq(Items) /\ Len(queue') = 0
      BY <1>3, EmptySeq DEF HandOver
    <3> QED
      BY <3>1 DEF QueueTyped
  <2>3. noted' \in [Models -> Nat]
    <3> DEFINE count(m) == Cardinality({i \in Crossed : legs[i].model = m})
    <3>1. \A m \in Models : count(m) \in Nat
      <4> TAKE m \in Models
      <4>1. {i \in Crossed : legs[i].model = m} \in SUBSET Legs
        BY DEF Crossed
      <4> QED
        BY <4>1, LegsCounted DEF RaceTyped
    <3>2. noted' = [m \in Models |-> noted[m] + (IF m = Home THEN 1 ELSE 0) + count(m)]
      BY <1>3 DEF HandOver
    <3> HIDE DEF count
    <3> QED
      BY <3>1, <3>2 DEF RaceTyped
  <2>4. /\ pc' \in Places
        /\ UNCHANGED <<triggers, cross, armed, widened, notedSlow, winner, out, judged, raised>>
    BY <1>3 DEF HandOver, Places
  <2> QED
    BY <2>1, <2>2, <2>3, <2>4 DEF RaceTyped
<1> QED
  BY <1>1, <1>2, <1>3

LEMMA TypedReader ==
    ASSUME RaceTyped, ReadHeld \/ ReadDone \/ ReadNext \/ Stopped \/ CloseReply,
           pc = "answering" => winner # 0
    PROVE  RaceTyped'
<1>0. /\ Legs = 1..Len(legs) /\ Len(legs) \in Nat \ {0} /\ LegsTyped /\ QueueTyped
      /\ pc = "answering" => winner \in Legs /\ legs[winner] \in LegType
  <2>1. Legs = 1..Len(legs) /\ Len(legs) \in Nat \ {0} /\ winner \in 0..Len(legs)
    BY EmptyLen DEF RaceTyped, LegsTyped, Legs
  <2> QED
    BY <2>1, LegFields DEF RaceTyped
<1>1. CASE ReadHeld
  <2> DEFINE leg == [legs[winner] EXCEPT !.buffer = <<>>]
  <2>1. legs' = [legs EXCEPT ![winner] = leg] /\ leg \in LegType /\ winner \in Legs
    BY <1>0, <1>1, EmptySeq DEF ReadHeld, LegType
  <2> HIDE DEF leg
  <2>2. legs' \in Seq(LegType) /\ Len(legs') = Len(legs)
    BY <1>0, <2>1, LegChanged
  <2>3. out' \in Seq(Items)
    BY <1>0, <1>1, ConcatProperties DEF ReadHeld, RaceTyped, LegType
  <2> QED
    BY <1>0, <1>1, <2>2, <2>3 DEF ReadHeld, RaceTyped, LegsTyped, QueueTyped, told
<1>2. CASE ReadDone
  <2>1. queue' \in Seq(Items) /\ Len(queue') = 0
    BY <1>2, EmptySeq DEF ReadDone
  <2> QED
    BY <1>2, <2>1 DEF ReadDone, Finished, RaceTyped, LegsTyped, QueueTyped, Places
<1>3. CASE ReadNext
  <2>1. queue # <<>> /\ queue' \in {<<>>, Tail(queue)} /\ UNCHANGED legs /\ winner' = winner
    BY <1>3 DEF ReadNext
  <2>2. QueueTyped'
    BY <1>0, <2>1, TailType
  <2>3. out' \in {out, Append(out, Head(queue))} /\ winner \in Nat
        /\ pc' \in {pc, "finished"} /\ raised' \in {raised, winner}
    BY <1>0, <1>3 DEF ReadNext, Finished
  <2>4. out' \in Seq(Items)
    <3> DEFINE chunk == Head(queue)
    <3>1. chunk \in Items
      BY <1>0, <2>1, NextItem
    <3> HIDE DEF chunk
    <3>2. out \in Seq(Items) /\ Append(out, chunk) \in Seq(Items)
      BY <3>1, Appended DEF RaceTyped
    <3> QED
      BY <2>3, <3>2 DEF chunk
  <2> QED
    BY <1>3, <2>1, <2>2, <2>3, <2>4 DEF ReadNext, RaceTyped, LegsTyped, Places
<1>4. CASE Stopped \/ CloseReply
  <2>1. /\ queue' = <<>> /\ pc' = "stopped" /\ \E which : legs' = Aborted(legs, which)
        /\ UNCHANGED <<triggers, cross, armed, widened, notedSlow, winner, out, told>>
    BY <1>4 DEF Stopped, CloseReply
  <2>2. LegsTyped' /\ Len(legs') = Len(legs)
    BY <2>1, CutType
  <2>3. QueueTyped'
    BY <2>1, EmptySeq DEF QueueTyped
  <2> QED
    BY <2>1, <2>2, <2>3 DEF RaceTyped, Places, told
<1> QED
  BY <1>1, <1>2, <1>3, <1>4

\* Once the race has been won there is a winner.
Founded == RaceTyped /\ WinnerStands

LEMMA FoundedStep == Founded /\ [Next]_vars => Founded'
<1> SUFFICES ASSUME Founded, [Next]_vars PROVE Founded'
  OBVIOUS
<1> USE DEF Founded, WinnerStands
<1>1. CASE UNCHANGED vars
  BY <1>1 DEF vars, told, RaceTyped, LegsTyped, QueueTyped
<1>2. ASSUME NEW i \in Legs, LegStep(i) PROVE Founded'
  <2>1. RaceTyped'
    BY <1>2, TypedLegStep
  <2> QED
    BY <1>2, <2>1 DEF LegStep, LegReads, LegEnds, LegFails
<1>3. CASE OpenBackup \/ OpenCross \/ \E model \in Spare : Widen(model)
  <2>1. RaceTyped'
    BY <1>3, TypedOpens
  <2> QED
    BY <1>3, <2>1 DEF OpenBackup, OpenCross, Widen
<1>4. CASE KeepWaiting \/ NoHandOver \/ HandOver
  <2>1. RaceTyped'
    BY <1>4, TypedSlowBound
  <2> QED
    BY <1>4, <2>1 DEF KeepWaiting, NoHandOver, HandOver
<1>5. CASE Receive
  <2> DEFINE item == Head(queue)
  <2>1. RaceTyped' /\ pc = "racing" /\ winner = 0
    BY <1>5, TypedReceive, ReceiveCases
  <2>2. \/ UNCHANGED <<pc, winner>>
        \/ \E ls, w : Decide(ls, w)
    BY <1>5, ReceiveCases
  <2>3. ASSUME NEW ls, NEW w, Decide(ls, w) PROVE WinnerStands'
    BY <2>3 DEF Decide
  <2> QED
    BY <2>1, <2>2, <2>3
<1>6. CASE ReadHeld \/ ReadDone \/ ReadNext \/ Stopped \/ CloseReply
  <2>1. RaceTyped'
    BY <1>6, TypedReader
  <2>2. WinnerStands'
    BY <1>6 DEF ReadHeld, ReadDone, ReadNext, Stopped, CloseReply, Finished
  <2> QED
    BY <2>1, <2>2
<1> QED
  BY <1>1, <1>2, <1>3, <1>4, <1>5, <1>6 DEF Next, RaceStep

LEMMA FoundedInitial == Init => Founded
<1> SUFFICES ASSUME Init PROVE Founded
  OBVIOUS
<1>1. legs = <<Leg(Home)>> /\ Leg(Home) \in LegType
  BY LegIsLeg DEF Init, Models
<1>2. legs \in Seq(LegType) /\ Len(legs) = 1
  BY <1>1
<1>3. queue \in Seq(Items) /\ Len(queue) = 0 /\ out \in Seq(Items)
  BY EmptySeq DEF Init
<1>4. judged \in Seq(Nat) /\ Len(judged) = 1
  BY DEF Init
<1>5. cross \in Seq(Models)
  BY StreamRaceAssumption DEF Init, StreamRaceAssumption
<1> QED
  BY <1>2, <1>3, <1>4, <1>5, StreamRaceAssumption
     DEF Init, StreamRaceAssumption, Founded, WinnerStands, RaceTyped, LegsTyped, QueueTyped, Places

\* Every variable of a race keeps its type, for any legs, models and bounds,
\* and the leg the reply is read from is a leg of the race
\* (transport.py:3850-4151).
THEOREM RaceTypeCorrect == Spec => []Founded
BY FoundedInitial, FoundedStep, PTL DEF Spec
-----------------------------------------------------------------------------
\* What a leg's own step leaves alone.
LEMMA LegStepEffect ==
    ASSUME RaceTyped, NEW i \in Legs, LegStep(i)
    PROVE  /\ Legs' = Legs /\ legs[i].thread = "reading"
           /\ \A j \in Legs \ {i} : legs'[j] = legs[j]
           /\ \/ legs'[i] = [legs[i] EXCEPT !.thread = "over"] /\ UNCHANGED queue
              \/ /\ legs'[i] = [legs[i] EXCEPT !.thread = "over"]
                 /\ \E kind \in {"end"} \cup Failures : Put(i, kind)
              \/ /\ ~legs[i].stop /\ legs'[i] = [legs[i] EXCEPT !.sent = @ + 1]
                 /\ \E kind \in Spoken : Put(i, kind)
           /\ UNCHANGED <<triggers, cross, armed, widened, notedSlow, pc, winner, out, told>>
<1>1. Legs = 1..Len(legs) /\ legs[i] \in LegType /\ Len(legs) \in Nat \ {0} /\ LegsTyped
  BY LegFields DEF RaceTyped
<1>2. /\ [legs[i] EXCEPT !.thread = "over"] \in LegType
      /\ [legs[i] EXCEPT !.sent = @ + 1] \in LegType
  BY <1>1 DEF LegType
<1>3. ASSUME NEW leg \in LegType, legs' = [legs EXCEPT ![i] = leg]
      PROVE  Legs' = Legs /\ legs'[i] = leg /\ \A j \in Legs \ {i} : legs'[j] = legs[j]
  BY <1>1, <1>3, LegChanged DEF Legs
<1>4. ASSUME NEW kind \in Spoken, LegReads(i, kind)
      PROVE  /\ legs[i].thread = "reading"
             /\ \/ /\ legs' = [legs EXCEPT ![i] = [legs[i] EXCEPT !.thread = "over"]]
                   /\ UNCHANGED queue
                \/ /\ ~legs[i].stop
                   /\ legs' = [legs EXCEPT ![i] = [legs[i] EXCEPT !.sent = @ + 1]]
                   /\ Put(i, kind)
             /\ UNCHANGED <<triggers, cross, armed, widened, notedSlow, pc, winner, out, told>>
  BY <1>4 DEF LegReads
<1>5. ASSUME NEW kind \in {"end"} \cup Failures, (LegEnds(i) /\ kind = "end") \/ LegFails(i, kind)
      PROVE  /\ legs[i].thread = "reading"
             /\ legs' = [legs EXCEPT ![i] = [legs[i] EXCEPT !.thread = "over"]]
             /\ UNCHANGED queue \/ Put(i, kind)
             /\ UNCHANGED <<triggers, cross, armed, widened, notedSlow, pc, winner, out, told>>
  BY <1>5 DEF LegEnds, LegFails
<1>6. CASE \E kind \in Spoken : LegReads(i, kind)
  <2>1. PICK kind \in Spoken : LegReads(i, kind)
    BY <1>6
  <2> QED
    BY <1>2, <1>3, <1>4, <2>1
<1>7. CASE \E kind \in {"end"} \cup Failures : (LegEnds(i) /\ kind = "end") \/ LegFails(i, kind)
  <2>1. PICK kind \in {"end"} \cup Failures : (LegEnds(i) /\ kind = "end") \/ LegFails(i, kind)
    BY <1>7
  <2> QED
    BY <1>2, <1>3, <1>5, <2>1
<1> QED
  BY <1>6, <1>7 DEF LegStep, Spoken

LEMMA PutEffect ==
    ASSUME RaceTyped, NEW i \in Legs, NEW kind \in Kinds, Put(i, kind), legs'[i].sent \in Nat
    PROVE  \/ ~Reading /\ UNCHANGED queue
           \/ /\ Reading /\ Len(queue) \in Nat /\ Len(queue') = Len(queue) + 1
              /\ \A k \in 1..Len(queue) : queue'[k] = queue[k]
              /\ queue'[Len(queue) + 1].leg = i /\ queue'[Len(queue) + 1].kind = kind
              /\ queue'[Len(queue) + 1].n = legs'[i].sent
              /\ \A k \in 1..Len(queue') : k \in 1..Len(queue) \/ k = Len(queue) + 1
<1>1. CASE Reading
  <2> DEFINE item == [leg |-> i, kind |-> kind, n |-> legs'[i].sent]
  <2>1. /\ item \in Items /\ queue' = Append(queue, item)
        /\ item.leg = i /\ item.kind = kind /\ item.n = legs'[i].sent
    BY <1>1, LegFields DEF Put, Items, RaceTyped
  <2> HIDE DEF item
  <2>2. queue \in Seq(Items) /\ Len(queue) \in Nat
    BY EmptyLen DEF RaceTyped, QueueTyped
  <2> QED
    BY <1>1, <2>1, <2>2, Appended
<1>2. CASE ~Reading
  BY <1>2 DEF Put
<1> QED
  BY <1>1, <1>2

\* What is left of the queue once an item was taken, or all were dropped.
LEMMA QueueShift ==
    ASSUME RaceTyped, queue # <<>>, queue' \in {<<>>, Tail(queue)}
    PROVE  /\ \A k \in 1..Len(queue') : k + 1 \in 1..Len(queue) /\ queue'[k] = queue[k + 1]
           /\ Len(queue) \in Nat /\ 1 \in 1..Len(queue) /\ Head(queue) = queue[1]
           /\ queue' = Tail(queue) => \A k \in 1..Len(queue) :
                 k = 1 \/ (k - 1 \in 1..Len(queue') /\ queue'[k - 1] = queue[k])
<1>1. queue \in Seq(Items)
  BY DEF RaceTyped, QueueTyped
<1>2. /\ Head(queue) = queue[1] /\ Len(queue) \in Nat /\ Len(queue) >= 1
      /\ \A k \in 1..Len(Tail(queue)) : k + 1 \in 1..Len(queue) /\ Tail(queue)[k] = queue[k + 1]
      /\ \A k \in 1..Len(queue) :
           k = 1 \/ (k - 1 \in 1..Len(Tail(queue)) /\ Tail(queue)[k - 1] = queue[k])
  BY <1>1, Rest
<1>3. CASE queue' = Tail(queue)
  BY <1>2, <1>3
<1>4. CASE queue' = <<>> /\ queue' # Tail(queue)
  BY <1>2, <1>4
<1> QED
  BY <1>3, <1>4

LEMMA OpensEffect ==
    ASSUME RaceTyped, OpenBackup \/ OpenCross \/ \E model \in Spare : Widen(model)
    PROVE  /\ pc = "racing" /\ UNCHANGED <<queue, armed, notedSlow, pc, winner, out>>
           /\ \/ /\ UNCHANGED <<legs, told>>
                 /\ UNCHANGED cross \/ (cross # <<>> /\ cross' = Tail(cross))
              \/ Joins(Home) /\ UNCHANGED cross
              \/ cross # <<>> /\ cross' = Tail(cross) /\ Joins(Head(cross))
              \/ /\ cross = <<>> /\ UNCHANGED cross
                 /\ \E model \in Spare : Joins(model) /\ \A i \in Legs : legs[i].model # model
BY DEF OpenBackup, OpenCross, Widen, SlowBound

LEMMA OpenedLegs ==
    ASSUME RaceTyped, OpenBackup \/ OpenCross \/ \E model \in Spare : Widen(model)
    PROVE  UNCHANGED <<legs, told>> \/ \E model \in Models : Joins(model)
<1>1. Home \in Models /\ Spare \subseteq Models
  BY DEF Models
<1>2. cross # <<>> => Head(cross) \in Models
  BY Rest DEF RaceTyped
<1> QED
  BY <1>1, <1>2, OpensEffect

\* The fields of the legs after a leg's own step, and after an item was heard.
LEMMA LegStepFields ==
    ASSUME RaceTyped, NEW i \in Legs, LegStep(i)
    PROVE  /\ Legs' = Legs /\ legs[i].thread = "reading"
           /\ \A j \in Legs \ {i} : legs'[j] = legs[j]
           /\ legs'[i].model = legs[i].model /\ legs'[i].stop = legs[i].stop
           /\ legs'[i].done = legs[i].done /\ legs'[i].error = legs[i].error
           /\ legs'[i].buffer = legs[i].buffer
           /\ \/ UNCHANGED queue /\ legs'[i].thread = "over" /\ legs'[i].sent = legs[i].sent
              \/ /\ legs'[i].thread = "over" /\ legs'[i].sent = legs[i].sent
                 /\ \E kind \in {"end"} \cup Failures : Put(i, kind)
              \/ /\ ~legs[i].stop
                 /\ legs'[i].thread = "reading" /\ legs'[i].sent = legs[i].sent + 1
                 /\ \E kind \in Spoken : Put(i, kind)
           /\ legs[i].sent \in Nat /\ legs'[i].sent \in Nat
           /\ UNCHANGED <<triggers, cross, armed, widened, notedSlow, pc, winner, out, told>>
<1>1. legs[i] \in LegType
  BY LegFields DEF RaceTyped
<1>2. \/ legs'[i] = [legs[i] EXCEPT !.thread = "over"] /\ UNCHANGED queue
      \/ /\ legs'[i] = [legs[i] EXCEPT !.thread = "over"]
         /\ \E kind \in {"end"} \cup Failures : Put(i, kind)
      \/ /\ ~legs[i].stop /\ legs'[i] = [legs[i] EXCEPT !.sent = @ + 1]
         /\ \E kind \in Spoken : Put(i, kind)
  BY LegStepEffect
<1>3. /\ Legs' = Legs /\ legs[i].thread = "reading"
      /\ \A j \in Legs \ {i} : legs'[j] = legs[j]
      /\ UNCHANGED <<triggers, cross, armed, widened, notedSlow, pc, winner, out, told>>
  BY LegStepEffect
<1>4. legs[i].sent \in Nat
  BY <1>1 DEF LegType
<1>5. CASE legs'[i] = [legs[i] EXCEPT !.thread = "over"]
  <2>1. /\ legs'[i].model = legs[i].model /\ legs'[i].stop = legs[i].stop
        /\ legs'[i].done = legs[i].done /\ legs'[i].error = legs[i].error
        /\ legs'[i].buffer = legs[i].buffer
        /\ legs'[i].thread = "over" /\ legs'[i].sent = legs[i].sent
    BY <1>1, <1>5 DEF LegType
  <2>2. ~(legs'[i] = [legs[i] EXCEPT !.sent = @ + 1])
    BY <1>1, <1>3, <1>5 DEF LegType
  <2> QED
    BY <1>2, <1>3, <1>4, <2>1, <2>2
<1>6. CASE legs'[i] = [legs[i] EXCEPT !.sent = @ + 1]
  <2>1. /\ legs'[i].model = legs[i].model /\ legs'[i].stop = legs[i].stop
        /\ legs'[i].done = legs[i].done /\ legs'[i].error = legs[i].error
        /\ legs'[i].buffer = legs[i].buffer
        /\ legs'[i].thread = "reading" /\ legs'[i].sent = legs[i].sent + 1
    BY <1>1, <1>3, <1>6 DEF LegType
  <2>2. ~(legs'[i] = [legs[i] EXCEPT !.thread = "over"])
    BY <1>1, <1>3, <1>6 DEF LegType
  <2> QED
    BY <1>2, <1>3, <1>4, <2>1, <2>2
<1> QED
  BY <1>2, <1>5, <1>6

LEMMA KeptFields ==
    ASSUME RaceTyped, queue # <<>>, NEW item, item = Head(queue), NEW j \in Legs
    PROVE  /\ Kept(item)[j].model = legs[j].model /\ Kept(item)[j].stop = legs[j].stop
           /\ Kept(item)[j].done = legs[j].done /\ Kept(item)[j].error = legs[j].error
           /\ Kept(item)[j].thread = legs[j].thread /\ Kept(item)[j].sent = legs[j].sent
           /\ Kept(item)[j].buffer = IF j = item.leg
                                     THEN Append(legs[j].buffer, item)
                                     ELSE legs[j].buffer
<1>1. LegsTyped /\ QueueTyped /\ item.leg \in Legs /\ legs[item.leg] \in LegType
  BY NextItem, LegFields DEF RaceTyped
<1>2. /\ Kept(item)[item.leg] = [legs[item.leg] EXCEPT
                                        !.buffer = Append(@, item)]
      /\ j # item.leg => Kept(item)[j] = legs[j]
  BY <1>1, KeptType
<1>3. CASE j = item.leg
  BY <1>1, <1>2, <1>3 DEF LegType
<1> QED
  BY <1>2, <1>3

LEMMA EndedFields ==
    ASSUME RaceTyped, queue # <<>>, NEW item, item = Head(queue), NEW j \in Legs
    PROVE  /\ EndedBy(item)[j].model = legs[j].model /\ EndedBy(item)[j].stop = legs[j].stop
           /\ EndedBy(item)[j].thread = legs[j].thread /\ EndedBy(item)[j].sent = legs[j].sent
           /\ EndedBy(item)[j].buffer = legs[j].buffer
           /\ IF j = item.leg
              THEN /\ EndedBy(item)[j].done = TRUE
                   /\ EndedBy(item)[j].error = IF item.kind \in Failures THEN item.kind ELSE "none"
              ELSE EndedBy(item)[j].done = legs[j].done /\ EndedBy(item)[j].error = legs[j].error
<1>1. LegsTyped /\ QueueTyped /\ item.leg \in Legs /\ legs[item.leg] \in LegType
  BY NextItem, LegFields DEF RaceTyped
<1>2. /\ EndedBy(item)[item.leg] = [legs[item.leg] EXCEPT !.done = TRUE,
                  !.error = IF item.kind \in Failures THEN item.kind ELSE "none"]
      /\ j # item.leg => EndedBy(item)[j] = legs[j]
  BY <1>1, EndedType
<1>3. CASE j = item.leg
  BY <1>1, <1>2, <1>3 DEF LegType
<1>4. CASE j # item.leg
  BY <1>2, <1>4
<1> QED
  BY <1>3, <1>4

\* What an item makes of the legs before the race goes on or is decided.
Took(ls) ==
    /\ ls \in Seq(LegType) /\ Len(ls) = Len(legs) /\ DOMAIN ls = Legs
    /\ \A j \in Legs : /\ ls[j].model = legs[j].model /\ ls[j].stop = legs[j].stop
                       /\ ls[j].thread = legs[j].thread /\ ls[j].sent = legs[j].sent

LEMMA ReceiveLegs ==
    ASSUME RaceTyped, Receive
    PROVE  \E ls :
             /\ Took(ls)
             /\ ls \in {legs, Kept(Head(queue))}
                \/ (ls = EndedBy(Head(queue)) /\ Head(queue).kind \in Failures \cup {"end"})
             /\ \/ legs' = ls /\ UNCHANGED <<pc, winner, told>>
                \/ \E w \in 0..Len(legs) :
                     /\ Decide(ls, w)
                     /\ \/ w = Head(queue).leg /\ ls = Kept(Head(queue))
                        \/ /\ Over(ls) /\ w = Silent(ls) /\ ls = EndedBy(Head(queue))
<1> DEFINE item == Head(queue)
<1>1. queue # <<>> /\ LegsTyped /\ QueueTyped /\ Legs = 1..Len(legs) /\ item.leg \in Legs
      /\ Len(legs) \in Nat \ {0} /\ DOMAIN legs = Legs /\ legs \in Seq(LegType)
  BY ReceiveCases, NextItem, EmptyLen DEF RaceTyped, LegsTyped, Legs
<1>2. item = Head(queue)
  OBVIOUS
<1> HIDE DEF item
<1>3. Took(legs)
  BY <1>1 DEF Took
<1>4. Took(Kept(item))
  <2>1. /\ Kept(item) \in Seq(LegType) /\ Len(Kept(item)) = Len(legs)
        /\ DOMAIN Kept(item) = Legs
    BY <1>1, <1>2, KeptType
  <2>2. ASSUME NEW j \in Legs
        PROVE  /\ Kept(item)[j].model = legs[j].model /\ Kept(item)[j].stop = legs[j].stop
               /\ Kept(item)[j].thread = legs[j].thread /\ Kept(item)[j].sent = legs[j].sent
    BY <1>1, <1>2, KeptFields
  <2> QED
    BY <2>1, <2>2 DEF Took
<1>5. Took(EndedBy(item))
  <2>1. /\ EndedBy(item) \in Seq(LegType) /\ Len(EndedBy(item)) = Len(legs)
        /\ DOMAIN EndedBy(item) = Legs
    BY <1>1, <1>2, EndedType
  <2>2. ASSUME NEW j \in Legs
        PROVE  /\ EndedBy(item)[j].model = legs[j].model /\ EndedBy(item)[j].stop = legs[j].stop
               /\ EndedBy(item)[j].thread = legs[j].thread /\ EndedBy(item)[j].sent = legs[j].sent
    BY <1>1, <1>2, EndedFields
  <2> QED
    BY <2>1, <2>2 DEF Took
<1>6. Silent(EndedBy(item)) \in 0..Len(legs)
  BY <1>1, <1>5, SilentLeg DEF Took
<1>7. \/ item.kind = "word" /\ Decide(Kept(item), item.leg) /\ UNCHANGED out
      \/ /\ item.kind = "quiet" /\ Alone
         /\ out' = Append(out, item)
         /\ UNCHANGED <<legs, pc, winner, told>>
      \/ /\ item.kind = "quiet" /\ ~Alone
         /\ legs' = Kept(item) /\ UNCHANGED <<out, pc, winner, told>>
      \/ /\ item.kind \in Failures \cup {"end"} /\ ~Over(EndedBy(item))
         /\ legs' = EndedBy(item) /\ UNCHANGED <<out, pc, winner, told>>
      \/ /\ item.kind \in Failures \cup {"end"} /\ Over(EndedBy(item))
         /\ Decide(EndedBy(item), Silent(EndedBy(item))) /\ UNCHANGED out
  BY <1>2, ReceiveCases
<1>8. item.leg \in 0..Len(legs)
  BY <1>1
<1> QED
  BY <1>2, <1>3, <1>4, <1>5, <1>6, <1>7, <1>8

\* The queue after a leg's own step.
LEMMA LegStepQueue ==
    ASSUME RaceTyped, NEW i \in Legs, LegStep(i)
    PROVE  \A k \in 1..Len(queue') :
             \/ k \in 1..Len(queue) /\ queue'[k] = queue[k]
             \/ /\ queue'[k].leg = i
                /\ queue'[k].kind \notin Spoken => legs'[i].thread = "over"
<1>1. CASE UNCHANGED queue
  BY <1>1
<1>2. CASE UNCHANGED queue \/ \E kind \in {"end"} \cup Failures :
                                  Put(i, kind) /\ legs'[i].thread = "over"
  <2>1. ASSUME NEW kind \in Kinds, Put(i, kind), legs'[i].thread = "over"
        PROVE  \A k \in 1..Len(queue') :
                 \/ k \in 1..Len(queue) /\ queue'[k] = queue[k]
                 \/ queue'[k].leg = i /\ legs'[i].thread = "over"
    BY <2>1, PutEffect, LegStepFields
  <2> QED
    BY <1>1, <1>2, <2>1 DEF Kinds
<1>3. CASE \E kind \in Spoken : Put(i, kind)
  <2>1. ASSUME NEW kind \in Spoken, Put(i, kind)
        PROVE  \A k \in 1..Len(queue') :
                 \/ k \in 1..Len(queue) /\ queue'[k] = queue[k]
                 \/ queue'[k].leg = i /\ queue'[k].kind \in Spoken
    <3>1. kind \in Kinds /\ legs'[i].sent \in Nat
      BY LegStepFields DEF Kinds
    <3> QED
      BY <2>1, <3>1, PutEffect
  <2> QED
    BY <1>3, <2>1
<1> QED
  BY <1>2, <1>3, LegStepFields

Facts ==
    /\ Legs = 1..Len(legs) /\ Len(legs) \in Nat \ {0}
    /\ \A k \in 1..Len(queue) : queue[k].leg \in Legs
    /\ \A i \in Legs : legs[i] \in LegType
    /\ pc \in {"answering", "finished"} => winner \in Legs

LEMMA FoundedFacts == Founded => RaceTyped /\ LegsTyped /\ QueueTyped /\ WinnerStands /\ Facts
<1> SUFFICES ASSUME Founded PROVE Facts
  BY DEF Founded, RaceTyped
<1>1. Legs = 1..Len(legs) /\ Len(legs) \in Nat \ {0} /\ \A i \in 1..Len(legs) : legs[i] \in LegType
  BY EmptyLen DEF Founded, RaceTyped, LegsTyped, Legs
<1>2. \A k \in 1..Len(queue) : queue[k].leg \in 1..Len(legs)
  BY DEF Founded, RaceTyped, QueueTyped
<1>3. pc \in {"answering", "finished"} => winner \in 1..Len(legs)
  BY <1>1 DEF Founded, WinnerStands, RaceTyped
<1> QED
  BY <1>1, <1>2, <1>3 DEF Facts

\* Threads that are over stay over, and only what was queued is taken.
LEMMA EndingsKept ==
    ASSUME Founded, EndingsQueued,
           \A i \in Legs : legs[i].thread = "over" => legs'[i].thread = "over",
           \/ queue' = <<>> \/ UNCHANGED queue
           \/ queue # <<>> /\ queue' = Tail(queue)
    PROVE  EndingsQueued'
<1>1. RaceTyped /\ Facts
  BY FoundedFacts
<1>2. CASE UNCHANGED queue
  BY <1>1, <1>2 DEF EndingsQueued, Facts
<1>3. CASE queue' = <<>>
  <2>1. Len(queue') = 0
    BY <1>3, EmptySeq
  <2> QED
    BY <2>1 DEF EndingsQueued
<1>4. CASE queue # <<>> /\ queue' = Tail(queue)
  <2>1. \A k \in 1..Len(queue') : k + 1 \in 1..Len(queue) /\ queue'[k] = queue[k + 1]
    BY <1>1, <1>4, QueueShift
  <2>2. ASSUME NEW k \in 1..Len(queue'), queue'[k].kind \notin Spoken
        PROVE  legs'[queue'[k].leg].thread = "over"
    <3>1. k + 1 \in 1..Len(queue) /\ queue'[k] = queue[k + 1]
      BY <2>1
    <3>2. queue[k + 1].leg \in Legs /\ legs[queue[k + 1].leg].thread = "over"
      BY <1>1, <2>2, <3>1 DEF EndingsQueued, Facts
    <3> QED
      BY <3>1, <3>2
  <2> QED
    BY <2>2 DEF EndingsQueued
<1> QED
  BY <1>2, <1>3, <1>4

LEMMA EndingHead ==
    ASSUME Founded, EndingsQueued, queue # <<>>, Head(queue).kind \in Failures \cup {"end"}
    PROVE  legs[Head(queue).leg].thread = "over"
<1>1. Head(queue) = queue[1] /\ 1 \in 1..Len(queue)
  BY FoundedFacts, Rest DEF QueueTyped
<1>2. Head(queue).kind \notin Spoken
  BY StreamRaceAssumption DEF StreamRaceAssumption, Spoken
<1> QED
  BY <1>1, <1>2 DEF EndingsQueued

LEMMA TookDone ==
    ASSUME Founded, EndingsQueued, DoneIsOver, queue # <<>>, NEW ls, Took(ls),
           \/ ls \in {legs, Kept(Head(queue))}
           \/ (ls = EndedBy(Head(queue)) /\ Head(queue).kind \in Failures \cup {"end"}),
           NEW j \in Legs
    PROVE  ls[j].done => ls[j].thread = "over"
<1> DEFINE item == Head(queue)
<1>1. item = Head(queue) /\ RaceTyped
  BY FoundedFacts
<1> HIDE DEF item
<1>2. CASE ls = legs
  BY <1>2 DEF DoneIsOver
<1>3. CASE ls = Kept(item)
  <2>1. Kept(item)[j].done = legs[j].done /\ Kept(item)[j].thread = legs[j].thread
    BY <1>1, KeptFields
  <2> QED
    BY <1>3, <2>1 DEF DoneIsOver
<1>4. CASE ls = EndedBy(item) /\ item.kind \in Failures \cup {"end"}
  <2>1. /\ EndedBy(item)[j].thread = legs[j].thread
        /\ j # item.leg => EndedBy(item)[j].done = legs[j].done
    BY <1>1, EndedFields
  <2>2. legs[item.leg].thread = "over"
    BY <1>1, <1>4, EndingHead
  <2> QED
    BY <1>4, <2>1, <2>2 DEF DoneIsOver
<1> QED
  BY <1>1, <1>2, <1>3, <1>4

\* The reader's steps leave every leg's thread and end alone.
LEMMA ReaderLegs ==
    ASSUME Founded, ReadHeld \/ ReadDone \/ ReadNext \/ CloseReply
    PROVE  /\ pc = "answering" /\ winner \in Legs /\ winner' = winner /\ Legs' = Legs
           /\ \A j \in Legs : /\ legs'[j].model = legs[j].model /\ legs'[j].thread = legs[j].thread
                              /\ legs'[j].done = legs[j].done /\ legs'[j].error = legs[j].error
                              /\ legs'[j].sent = legs[j].sent
                              /\ legs'[j].stop = legs[j].stop \/ legs'[j].stop
           /\ queue' = <<>> \/ UNCHANGED queue \/ (queue # <<>> /\ queue' = Tail(queue))
<1>0. RaceTyped /\ Facts
  BY FoundedFacts
<1>1. pc = "answering" /\ winner \in Legs
  BY <1>0 DEF ReadHeld, ReadDone, ReadNext, CloseReply, Facts
<1>2. CASE ReadHeld
  <2>1. legs' = [legs EXCEPT ![winner] = [legs[winner] EXCEPT !.buffer = <<>>]]
    BY <1>2 DEF ReadHeld
  <2>2. /\ Legs' = Legs /\ legs'[winner] = [legs[winner] EXCEPT !.buffer = <<>>]
        /\ \A j \in Legs \ {winner} : legs'[j] = legs[j]
    BY <1>1, <2>1 DEF Legs
  <2>3. legs[winner] \in LegType
    BY <1>0, <1>1 DEF Facts
  <2>4. \A j \in Legs : /\ legs'[j].model = legs[j].model /\ legs'[j].thread = legs[j].thread
                        /\ legs'[j].done = legs[j].done /\ legs'[j].error = legs[j].error
                        /\ legs'[j].sent = legs[j].sent /\ legs'[j].stop = legs[j].stop
    BY <2>2, <2>3 DEF LegType
  <2> QED
    BY <1>1, <1>2, <2>2, <2>4 DEF ReadHeld
<1>3. CASE ReadDone \/ ReadNext
  <2>1. UNCHANGED <<legs, winner>> /\ (queue' = <<>> \/ (queue # <<>> /\ queue' = Tail(queue)))
    BY <1>3 DEF ReadDone, ReadNext
  <2> QED
    BY <1>1, <2>1 DEF Legs
<1>4. CASE CloseReply
  <2>1. legs' = Aborted(legs, {winner}) /\ winner' = winner /\ queue' = <<>>
    BY <1>4 DEF CloseReply
  <2>2. /\ Legs' = Legs /\ \A j \in Legs : SameLeg(legs'[j], legs[j])
        /\ \A j \in Legs : j \in {winner} => legs'[j].stop
        /\ \A j \in Legs : j \notin {winner} => legs'[j] = legs[j]
    BY <1>0, <2>1, CutType
  <2> QED
    BY <1>1, <2>1, <2>2 DEF SameLeg
<1> QED
  BY <1>2, <1>3, <1>4
-----------------------------------------------------------------------------
(* No thread reads on.                                                     *)

LEMMA QuietLegStep ==
    ASSUME Founded, Quiet, NEW i \in Legs, LegStep(i) PROVE Quiet'
<1>0. RaceTyped /\ Facts
  BY FoundedFacts
<1>1. /\ Legs' = Legs /\ legs[i].thread = "reading"
      /\ \A j \in Legs \ {i} : legs'[j] = legs[j]
      /\ legs'[i].stop = legs[i].stop /\ legs'[i].done = legs[i].done
      /\ UNCHANGED <<pc, winner>>
  BY <1>0, LegStepFields
<1>2. EndingsQueued'
  <2>1. ASSUME NEW k \in 1..Len(queue'), queue'[k].kind \notin Spoken
        PROVE  legs'[queue'[k].leg].thread = "over"
    <3>1. CASE k \in 1..Len(queue) /\ queue'[k] = queue[k]
      <4>1. queue[k].leg \in Legs /\ legs[queue[k].leg].thread = "over"
        BY <1>0, <2>1, <3>1 DEF Quiet, EndingsQueued, Facts
      <4> QED
        BY <1>1, <3>1, <4>1
    <3> QED
      BY <1>0, <2>1, <3>1, LegStepQueue
  <2> QED
    BY <2>1 DEF EndingsQueued
<1>3. DoneIsOver'
  BY <1>1 DEF Quiet, DoneIsOver
<1>4. FinishedIsOver'
  BY <1>0, <1>1 DEF Quiet, FinishedIsOver, Facts
<1>5. NoneReadsOn'
  BY <1>1 DEF Quiet, NoneReadsOn, Heeded
<1> QED
  BY <1>2, <1>3, <1>4, <1>5 DEF Quiet

LEMMA QuietOpens ==
    ASSUME Founded, Quiet, OpenBackup \/ OpenCross \/ \E model \in Spare : Widen(model)
    PROVE  Quiet'
<1>0. RaceTyped /\ Facts
  BY FoundedFacts
<1>1. pc = "racing" /\ UNCHANGED <<queue, pc, winner>>
  BY <1>0, OpensEffect
<1>2. FinishedIsOver' /\ NoneReadsOn'
  BY <1>1 DEF FinishedIsOver, NoneReadsOn, Heeded
<1>3. CASE UNCHANGED legs
  BY <1>1, <1>2, <1>3 DEF Quiet, EndingsQueued, DoneIsOver, Legs
<1>4. ASSUME NEW model \in Models, Joins(model) PROVE Quiet'
  <2>1. /\ \A j \in Legs : legs'[j] = legs[j]
        /\ legs'[Len(legs) + 1] = Leg(model)
        /\ \A j \in Legs' : j \in Legs \/ j = Len(legs) + 1
    BY <1>0, <1>4, JoinsType
  <2>2. EndingsQueued'
    BY <1>0, <1>1, <2>1 DEF Quiet, EndingsQueued, Facts
  <2>3. DoneIsOver'
    BY <2>1 DEF Quiet, DoneIsOver, Leg
  <2> QED
    BY <1>2, <2>2, <2>3 DEF Quiet
<1> QED
  BY <1>0, <1>3, <1>4, OpenedLegs

\* Cutting every leg.
LEMMA QuietCut ==
    ASSUME Founded, Quiet, legs' = Aborted(legs, Legs), queue' = <<>>, pc' # "finished"
    PROVE  Quiet'
<1>0. RaceTyped /\ Facts
  BY FoundedFacts
<1>1. /\ Legs' = Legs /\ \A i \in Legs : SameLeg(legs'[i], legs[i])
      /\ \A i \in Legs : legs'[i].stop
  BY <1>0, CutType
<1>2. EndingsQueued'
  BY <1>1, EndingsKept DEF Quiet, SameLeg
<1>3. DoneIsOver'
  BY <1>1 DEF Quiet, DoneIsOver, SameLeg
<1>4. FinishedIsOver' /\ NoneReadsOn'
  BY <1>1 DEF FinishedIsOver, NoneReadsOn
<1> QED
  BY <1>2, <1>3, <1>4 DEF Quiet

LEMMA QuietReceive ==
    ASSUME Founded, Quiet, Receive PROVE Quiet'
<1>0. RaceTyped /\ Facts /\ WinnerStands
  BY FoundedFacts
<1>1. pc = "racing" /\ queue # <<>> /\ (queue' = <<>> \/ queue' = Tail(queue))
  BY <1>0, ReceiveCases
<1>2. PICK ls :
        /\ Took(ls)
        /\ ls \in {legs, Kept(Head(queue))}
           \/ (ls = EndedBy(Head(queue)) /\ Head(queue).kind \in Failures \cup {"end"})
        /\ \/ legs' = ls /\ UNCHANGED <<pc, winner, told>>
           \/ \E w \in 0..Len(legs) : Decide(ls, w)
  BY <1>0, ReceiveLegs
<1>3. \A j \in Legs : ls[j].done => ls[j].thread = "over"
  BY <1>1, <1>2, TookDone DEF Quiet
<1>4. \A j \in Legs : ls[j].thread = legs[j].thread /\ ls \in Seq(LegType)
                      /\ Len(ls) = Len(legs) /\ DOMAIN ls = Legs
  BY <1>2 DEF Took
<1>5. CASE legs' = ls /\ UNCHANGED <<pc, winner, told>>
  <2>1. Legs' = Legs
    BY <1>2, <1>5 DEF Took, Legs
  <2>2. EndingsQueued'
    BY <1>1, <1>4, <1>5, EndingsKept DEF Quiet
  <2>3. DoneIsOver'
    BY <1>3, <1>5, <2>1 DEF DoneIsOver
  <2>4. FinishedIsOver' /\ NoneReadsOn'
    BY <1>1, <1>5 DEF FinishedIsOver, NoneReadsOn, Heeded
  <2> QED
    BY <2>2, <2>3, <2>4 DEF Quiet
<1>6. ASSUME NEW w \in 0..Len(legs), Decide(ls, w) PROVE Quiet'
  <2>1. ls \in Seq(LegType) /\ Len(ls) = Len(legs)
    BY <1>2 DEF Took
  <2>2. /\ Legs' = Legs /\ winner' = w
        /\ \A i \in Legs : SameLeg(legs'[i], ls[i]) /\ (i # w /\ ~ls[i].done => legs'[i].stop)
        /\ pc' = (IF w = 0 THEN "failed" ELSE "answering")
    BY <1>0, <1>6, <2>1, DecideType
  <2>3. EndingsQueued'
    BY <1>1, <1>4, <2>2, EndingsKept DEF Quiet, SameLeg
  <2>4. DoneIsOver'
    BY <1>3, <2>2 DEF DoneIsOver, SameLeg
  <2>5. FinishedIsOver'
    BY <2>2 DEF FinishedIsOver
  <2>6. NoneReadsOn'
    <3>1. ASSUME NEW i \in Legs, i # w PROVE legs'[i].stop \/ legs'[i].thread = "over"
      <4>1. CASE ls[i].done
        BY <1>3, <2>2, <4>1 DEF SameLeg
      <4>2. CASE ~ls[i].done
        BY <2>2, <3>1, <4>2
      <4> QED
        BY <4>1, <4>2
    <3>2. 0 \notin Legs
      BY <1>0 DEF Facts
    <3> QED
      BY <2>2, <3>1, <3>2 DEF NoneReadsOn, Heeded
  <2> QED
    BY <2>3, <2>4, <2>5, <2>6 DEF Quiet
<1> QED
  BY <1>2, <1>5, <1>6

LEMMA QuietReader ==
    ASSUME Founded, Quiet, ReadHeld \/ ReadDone \/ ReadNext \/ CloseReply
    PROVE  Quiet'
<1>0. RaceTyped /\ Facts
  BY FoundedFacts
<1>1. /\ pc = "answering" /\ winner \in Legs /\ winner' = winner /\ Legs' = Legs
      /\ \A j \in Legs : /\ legs'[j].thread = legs[j].thread
                         /\ legs'[j].done = legs[j].done
                         /\ legs'[j].stop = legs[j].stop \/ legs'[j].stop
      /\ queue' = <<>> \/ UNCHANGED queue \/ (queue # <<>> /\ queue' = Tail(queue))
  BY ReaderLegs
<1>2. EndingsQueued'
  BY <1>1, EndingsKept DEF Quiet
<1>3. DoneIsOver'
  BY <1>1 DEF Quiet, DoneIsOver
<1>4. FinishedIsOver'
  <2>1. CASE ReadDone
    BY <1>1, <2>1 DEF ReadDone, Quiet, DoneIsOver, FinishedIsOver
  <2>2. CASE ReadNext /\ pc' = "finished"
    <3>1. queue # <<>> /\ Head(queue).leg = winner /\ Head(queue).kind \in Failures \cup {"end"}
      BY <1>1, <2>2 DEF ReadNext
    <3>2. legs[winner].thread = "over"
      BY <3>1, EndingHead DEF Quiet
    <3> QED
      BY <1>1, <3>2 DEF FinishedIsOver
  <2>3. CASE pc' # "finished"
    BY <2>3 DEF FinishedIsOver
  <2> QED
    BY <1>1, <2>1, <2>2, <2>3 DEF ReadHeld, CloseReply
<1>5. NoneReadsOn'
  <2>1. \A j \in Legs \ {winner} : legs'[j].stop \/ legs'[j].thread = "over"
    BY <1>1 DEF Quiet, NoneReadsOn, Heeded
  <2>2. pc' = "answering" \/ legs'[winner].stop \/ pc' = "finished"
    <3>1. CASE CloseReply
      <4>1. legs' = Aborted(legs, {winner})
        BY <3>1 DEF CloseReply
      <4>2. \A j \in Legs : j \in {winner} => legs'[j].stop
        BY <1>0, <4>1, CutType
      <4> QED
        BY <1>1, <4>2
    <3> QED
      BY <3>1 DEF ReadHeld, ReadDone, ReadNext, Finished
  <2> QED
    BY <1>1, <1>4, <2>1, <2>2 DEF NoneReadsOn, Heeded, FinishedIsOver
<1> QED
  BY <1>2, <1>3, <1>4, <1>5 DEF Quiet

LEMMA QuietStep == Founded /\ Quiet /\ [Next]_vars => Quiet'
<1> SUFFICES ASSUME Founded, Quiet, [Next]_vars PROVE Quiet'
  OBVIOUS
<1>1. CASE UNCHANGED <<legs, queue, pc, winner>>
  BY <1>1 DEF Quiet, EndingsQueued, DoneIsOver, FinishedIsOver, NoneReadsOn, Heeded, Legs
<1>2. CASE HandOver \/ Stopped
  BY <1>2, QuietCut DEF HandOver, Stopped
<1>3. UNCHANGED vars \/ KeepWaiting \/ NoHandOver => UNCHANGED <<legs, queue, pc, winner>>
  BY DEF vars, KeepWaiting, NoHandOver
<1> QED
  BY <1>1, <1>2, <1>3, QuietLegStep, QuietOpens, QuietReceive, QuietReader DEF Next, RaceStep

LEMMA QuietInitial == Init => Quiet
<1> SUFFICES ASSUME Init PROVE Quiet
  OBVIOUS
<1>1. Legs = {1} /\ legs[1] = Leg(Home) /\ Len(queue) = 0 /\ pc = "racing"
  BY DEF Init, Legs
<1> QED
  BY <1>1 DEF Quiet, EndingsQueued, DoneIsOver, FinishedIsOver, NoneReadsOn, Heeded, Leg

LEMMA QuietKept == Spec => []Quiet
BY FoundedInitial, FoundedStep, QuietInitial, QuietStep, PTL DEF Spec

LEMMA SentOnlyHeeded ==
    ASSUME Founded, Quiet, Next, NEW i \in Legs, ~Heeded(i)
    PROVE  legs'[i].sent = legs[i].sent
<1>0. RaceTyped /\ Facts
  BY FoundedFacts
<1>1. pc # "racing" /\ (legs[i].stop \/ legs[i].thread = "over")
  BY DEF Quiet, NoneReadsOn, Heeded
<1>2. ASSUME NEW j \in Legs, LegStep(j) PROVE legs'[i].sent = legs[i].sent
  BY <1>0, <1>1, <1>2, LegStepFields
<1>3. CASE ReadHeld \/ ReadDone \/ ReadNext \/ CloseReply
  BY <1>3, ReaderLegs
<1> QED
  BY <1>1, <1>2, <1>3 DEF Next, RaceStep, OpenBackup, OpenCross, Widen, SlowBound, KeepWaiting,
                          NoHandOver, HandOver, Receive, Stopped

\* No leg keeps reading - and billing - after the race is gone: once it is
\* decided, given up or handed over only the winner's thread takes another
\* chunk (transport.py:4068-4071, 5786-5803).
THEOREM SilentAfterTheRace == Spec => NoLegReadsOn
<1>1. Founded /\ Quiet /\ [Next]_vars =>
        [\A i \in Legs : pc # "racing" /\ ~(pc = "answering" /\ i = winner)
            => legs'[i].sent = legs[i].sent]_vars
  BY SentOnlyHeeded DEF Heeded
<1> QED
  BY <1>1, RaceTypeCorrect, QuietKept, PTL DEF Spec, NoLegReadsOn
-----------------------------------------------------------------------------
(* Every failure is judged once.                                           *)

\* A step that judges nobody and leaves the race where it is.
LEMMA VerdictsKept ==
    ASSUME Founded, Verdicts, UNCHANGED <<pc, winner, raised>>, Legs' = Legs,
           \A i \in Legs : judged'[i] = judged[i],
           pc # "racing" =>
               \A i \in Legs : legs'[i].error = legs[i].error /\ legs'[i].done = legs[i].done
    PROVE  Verdicts'
BY DEF Verdicts, Unjudged, JudgedOnce, FailsOnlyTogether

LEMMA VerdictsOpens ==
    ASSUME Founded, Verdicts, OpenBackup \/ OpenCross \/ \E model \in Spare : Widen(model)
    PROVE  Verdicts'
<1>0. RaceTyped /\ Facts
  BY FoundedFacts
<1>1. pc = "racing" /\ UNCHANGED <<queue, pc, winner>>
  BY <1>0, OpensEffect
<1>2. CASE UNCHANGED <<legs, told>>
  BY <1>1, <1>2, VerdictsKept DEF told, Legs
<1>3. ASSUME NEW model \in Models, Joins(model) PROVE Verdicts'
  <2>1. /\ \A j \in Legs : judged'[j] = judged[j]
        /\ judged'[Len(legs) + 1] = 0 /\ raised' = raised
        /\ \A j \in Legs' : j \in Legs \/ j = Len(legs) + 1
    BY <1>0, <1>3, JoinsType
  <2> QED
    BY <1>1, <2>1 DEF Verdicts, Unjudged, JudgedOnce, FailsOnlyTogether
<1> QED
  BY <1>0, <1>2, <1>3, OpenedLegs

\* The decision judges every failure but one, which it raises.
LEMMA VerdictsDecide ==
    ASSUME Founded, Verdicts, pc = "racing", NEW ls, Took(ls), NEW w \in 0..Len(legs),
           Decide(ls, w), w = 0 => \A i \in Legs : ls[i].done /\ ls[i].error # "none"
    PROVE  Verdicts'
<1>0. RaceTyped /\ Facts
  BY FoundedFacts
<1>1. ls \in Seq(LegType) /\ Len(ls) = Len(legs) /\ DOMAIN ls = Legs
  BY DEF Took
<1>2. /\ Legs' = Legs /\ \A i \in Legs : SameLeg(legs'[i], ls[i])
      /\ \A i \in Legs : judged'[i] = IF i \in FailedLosers(ls, w) THEN judged[i] + 1 ELSE judged[i]
      /\ winner' = w /\ raised' = (IF w = 0 THEN 1 ELSE 0)
      /\ pc' = (IF w = 0 THEN "failed" ELSE "answering")
  BY <1>0, <1>1, DecideType
<1>3. \A i \in Legs : judged[i] = 0
  BY DEF Verdicts, Unjudged
<1>4. \A i \in Legs : i \in FailedLosers(ls, w)
                        <=> i # w /\ ls[i].error # "none" /\ (w # 0 \/ i # 1)
  BY <1>1 DEF FailedLosers
<1>5. \A i \in Legs : legs'[i].error = ls[i].error /\ legs'[i].done = ls[i].done
  BY <1>2 DEF SameLeg
<1>6. Legs = 1..Len(legs) /\ Len(legs) \in Nat
  BY <1>0 DEF Facts
<1>7. Unjudged' /\ (pc' = "answering" => raised' = 0)
  BY <1>2 DEF Unjudged
<1>8. FailsOnlyTogether'
  BY <1>2, <1>5 DEF FailsOnlyTogether
<1>9. JudgedOnce'
  <2>1. ASSUME NEW i \in Legs, i # w
        PROVE  judged'[i] + (IF raised' = i THEN 1 ELSE 0)
                 = IF ls[i].error # "none" THEN 1 ELSE 0
    <3>1. CASE w = 0 /\ i = 1
      BY <1>2, <1>3, <1>4, <3>1
    <3>2. CASE w # 0 \/ i # 1
      <4>1. raised' # i
        BY <1>2, <1>6, <3>2
      <4> QED
        BY <1>2, <1>3, <1>4, <2>1, <3>2, <4>1
    <3> QED
      BY <3>1, <3>2
  <2>2. w \in Legs => judged'[w] = 0
    BY <1>2, <1>3, <1>4
  <2> QED
    BY <1>2, <1>5, <2>1, <2>2 DEF JudgedOnce
<1> QED
  BY <1>7, <1>8, <1>9 DEF Verdicts

LEMMA VerdictsReceive ==
    ASSUME Founded, Verdicts, Receive PROVE Verdicts'
<1>0. RaceTyped /\ Facts
  BY FoundedFacts
<1>1. pc = "racing"
  BY <1>0, ReceiveCases
<1>2. PICK ls :
        /\ Took(ls)
        /\ \/ legs' = ls /\ UNCHANGED <<pc, winner, told>>
           \/ \E w \in 0..Len(legs) :
                /\ Decide(ls, w)
                /\ w = Head(queue).leg \/ (Over(ls) /\ w = Silent(ls))
  BY <1>0, ReceiveLegs
<1>3. ls \in Seq(LegType) /\ Len(ls) = Len(legs) /\ DOMAIN ls = Legs
  BY <1>2 DEF Took
<1>4. CASE legs' = ls /\ UNCHANGED <<pc, winner, told>>
  BY <1>1, <1>3, <1>4, VerdictsKept DEF told, Legs
<1>5. ASSUME NEW w \in 0..Len(legs), Decide(ls, w),
             w = Head(queue).leg \/ (Over(ls) /\ w = Silent(ls))
      PROVE  Verdicts'
  <2>1. Head(queue).leg # 0
    <3>1. Head(queue).leg \in Legs
      BY <1>0, ReceiveCases, NextItem DEF RaceTyped
    <3> QED
      BY <1>0, <3>1 DEF Facts
  <2>2. Len(ls) >= 1
    BY <1>0, <1>3 DEF Facts
  <2>3. Silent(ls) = 0 => \A i \in DOMAIN ls : ls[i].error # "none"
    BY <1>3, <2>2, SilentLeg
  <2>4. w = 0 => \A i \in Legs : ls[i].done /\ ls[i].error # "none"
    BY <1>3, <1>5, <2>1, <2>3 DEF Over
  <2> QED
    BY <1>1, <1>2, <1>5, <2>4, VerdictsDecide
<1> QED
  BY <1>2, <1>4, <1>5

LEMMA VerdictsReader ==
    ASSUME Founded, Verdicts, ReadHeld \/ ReadDone \/ ReadNext \/ CloseReply
    PROVE  Verdicts'
<1>1. /\ pc = "answering" /\ winner \in Legs /\ winner' = winner /\ Legs' = Legs
      /\ \A j \in Legs : legs'[j].done = legs[j].done /\ legs'[j].error = legs[j].error
  BY ReaderLegs
<1>2. UNCHANGED judged /\ raised = 0
  BY <1>1 DEF ReadHeld, ReadDone, ReadNext, CloseReply, told, Verdicts
<1>3. /\ pc' \in {"answering", "finished", "stopped"}
      /\ raised' \in {0, winner} /\ (pc' = "answering" => raised' = 0)
  BY <1>1, <1>2 DEF ReadHeld, ReadDone, ReadNext, CloseReply, told, Finished
<1>4. JudgedOnce'
  <2>1. ASSUME NEW i \in Legs
        PROVE  IF i = winner THEN judged[i] = 0
               ELSE /\ raised' # i /\ raised # i
                    /\ judged[i] + 0 = IF legs[i].error # "none" THEN 1 ELSE 0
    <3>1. i # 0
      BY FoundedFacts DEF Facts
    <3>2. IF i = winner THEN judged[i] = 0
          ELSE judged[i] + (IF raised = i THEN 1 ELSE 0) = IF legs[i].error # "none" THEN 1 ELSE 0
      BY <1>1 DEF Verdicts, JudgedOnce
    <3> QED
      BY <1>2, <1>3, <3>1, <3>2
  <2> QED
    BY <1>1, <1>2, <2>1 DEF JudgedOnce
<1> QED
  BY <1>3, <1>4 DEF Verdicts, Unjudged, FailsOnlyTogether

LEMMA VerdictsStep == Founded /\ Verdicts /\ [Next]_vars => Verdicts'
<1> SUFFICES ASSUME Founded, Verdicts, [Next]_vars PROVE Verdicts'
  OBVIOUS
<1>0. RaceTyped /\ Facts
  BY FoundedFacts
<1>1. ASSUME NEW i \in Legs, LegStep(i) PROVE Verdicts'
  <2>1. /\ Legs' = Legs /\ UNCHANGED <<pc, winner, told>>
        /\ \A j \in Legs : legs'[j].error = legs[j].error /\ legs'[j].done = legs[j].done
    BY <1>0, <1>1, LegStepFields
  <2> QED
    BY <2>1, VerdictsKept DEF told
<1>2. CASE UNCHANGED <<legs, pc, winner, judged, raised>>
  BY <1>2, VerdictsKept DEF Legs
<1>3. UNCHANGED vars \/ KeepWaiting \/ NoHandOver => UNCHANGED <<legs, pc, winner, judged, raised>>
  BY DEF vars, told, KeepWaiting, NoHandOver
<1>4. CASE HandOver \/ Stopped
  BY <1>4 DEF HandOver, Stopped, Verdicts, Unjudged, JudgedOnce, FailsOnlyTogether
<1> QED
  BY <1>1, <1>2, <1>3, <1>4, VerdictsOpens, VerdictsReceive, VerdictsReader DEF Next, RaceStep

LEMMA VerdictsInitial == Init => Verdicts
<1> SUFFICES ASSUME Init PROVE Verdicts
  OBVIOUS
<1>1. Legs = {1} /\ judged[1] = 0 /\ raised = 0 /\ pc = "racing"
  BY DEF Init, Legs
<1> QED
  BY <1>1 DEF Verdicts, Unjudged, JudgedOnce, FailsOnlyTogether

\* Every failure the race took from the queue goes to one verdict: its own
\* key's, or the caller's, never both and never twice (transport.py:3844-3847,
\* 4094-4096, 4105-4106).
THEOREM EachFailureJudgedOnce == Spec => []JudgedOnce
<1>1. Verdicts => JudgedOnce
  BY DEF Verdicts
<1> QED
  BY <1>1, FoundedInitial, FoundedStep, VerdictsInitial, VerdictsStep, PTL DEF Spec

\* The caller is told that the request failed only when every leg ended in a
\* failure (transport.py:4075-4080, 4106).
THEOREM FailureIsUnanimous == Spec => []FailsOnlyTogether
<1>1. Verdicts => FailsOnlyTogether
  BY DEF Verdicts
<1> QED
  BY <1>1, FoundedInitial, FoundedStep, VerdictsInitial, VerdictsStep, PTL DEF Spec
-----------------------------------------------------------------------------
(* No model is noted twice.                                                *)

LEMMA AtMostOne ==
    ASSUME LegsTyped, NEW S \in SUBSET Legs, \A i, j \in S : i = j
    PROVE  /\ Cardinality(S) \in {0, 1}
           /\ S = {} => Cardinality(S) = 0
<1>1. CASE S = {}
  BY <1>1, FS_EmptySet
<1>2. CASE S # {}
  <2>1. PICK i \in S : TRUE
    BY <1>2
  <2>2. S = {i}
    BY <2>1
  <2>3. Cardinality({i}) = 1
    BY FS_Singleton
  <2> QED
    BY <1>2, <2>2, <2>3
<1> QED
  BY <1>1, <1>2

\* Legs of one model other than the first are one at most.
OfModel(ls, L, m) == {i \in L : ls[i].model = m}

LEMMA LegsOfModel ==
    ASSUME RaceTyped, OneEach, NEW ls, NEW L \in SUBSET Legs, NEW m,
           \A i \in Legs : ls[i].model = legs[i].model,
           \A i \in L : legs[i].model # Home
    PROVE  /\ Cardinality(OfModel(ls, L, m)) \in {0, 1}
           /\ (\A i \in L : ls[i].model # m) => Cardinality(OfModel(ls, L, m)) = 0
<1> DEFINE S == OfModel(ls, L, m)
<1>1. S \in SUBSET Legs /\ LegsTyped
  BY DEF RaceTyped, OfModel
<1>2. \A i, j \in S : i = j
  <2>1. ASSUME NEW i \in S, NEW j \in S PROVE i = j
    <3>1. i \in Legs /\ j \in Legs /\ legs[i].model = legs[j].model /\ legs[i].model # Home
      BY DEF OfModel
    <3> QED
      BY <3>1 DEF OneEach
  <2> QED
    BY <2>1
<1>3. (\A i \in L : ls[i].model # m) => S = {}
  BY DEF OfModel
<1> HIDE DEF S
<1>4. Cardinality(S) \in {0, 1} /\ (S = {} => Cardinality(S) = 0)
  BY <1>1, <1>2, AtMostOne
<1> QED
  BY <1>3, <1>4 DEF S

LEMMA ModelsKept ==
    ASSUME OneEach, Legs' = Legs, \A i \in Legs : legs'[i].model = legs[i].model, UNCHANGED cross
    PROVE  OneEach'
BY DEF OneEach

LEMMA NotesOpens ==
    ASSUME Founded, Notes, OpenBackup \/ OpenCross \/ \E model \in Spare : Widen(model)
    PROVE  Notes'
<1>0. RaceTyped /\ Facts
  BY FoundedFacts
<1>1. /\ pc = "racing" /\ UNCHANGED <<armed, notedSlow, pc, noted>>
  BY <1>0, OpensEffect DEF told, Joins
<1>2. NotedAsSlow' /\ NotedOnce'
  BY <1>1 DEF Notes, NotedAsSlow, NotedOnce
<1>3. ASSUME cross # <<>>, cross' = Tail(cross)
      PROVE  /\ Head(cross) = cross[1] /\ 1 \in 1..Len(cross) /\ Head(cross) \in Models
             /\ \A k \in 1..Len(cross') :
                   k + 1 \in 1..Len(cross) /\ cross'[k] = cross[k + 1] /\ k + 1 # 1
             /\ \A j, k \in 1..Len(cross') : j + 1 = k + 1 => j = k
  BY <1>0, <1>3, Rest DEF RaceTyped
<1>4. CASE UNCHANGED <<legs, cross>>
  BY <1>2, <1>4, ModelsKept DEF Notes, Legs
<1>5. CASE UNCHANGED legs /\ cross # <<>> /\ cross' = Tail(cross)
  <2>1. OneEach'
    BY <1>3, <1>5 DEF Notes, OneEach, Legs
  <2> QED
    BY <1>2, <2>1 DEF Notes
<1>6. ASSUME NEW model \in Models, Joins(model)
      PROVE  /\ \A i \in Legs : legs'[i].model = legs[i].model
             /\ legs'[Len(legs) + 1].model = model
             /\ \A i \in Legs' : i \in Legs \/ i = Len(legs) + 1
  <2>1. /\ \A i \in Legs : legs'[i] = legs[i]
        /\ legs'[Len(legs) + 1] = Leg(model)
        /\ \A i \in Legs' : i \in Legs \/ i = Len(legs) + 1
    BY <1>0, <1>6, JoinsType
  <2>2. Leg(model).model = model
    BY DEF Leg
  <2> QED
    BY <2>1, <2>2
<1>7. CASE Joins(Home) /\ UNCHANGED cross
  <2>1. OneEach'
    BY <1>6, <1>7 DEF Notes, OneEach, Models
  <2> QED
    BY <1>2, <2>1 DEF Notes
<1>8. CASE cross # <<>> /\ cross' = Tail(cross) /\ Joins(Head(cross))
  <2>1. /\ \A i \in Legs : legs'[i].model = legs[i].model
        /\ legs'[Len(legs) + 1].model = cross[1]
        /\ \A i \in Legs' : i \in Legs \/ i = Len(legs) + 1
    BY <1>3, <1>6, <1>8
  <2>2. cross[1] # Home /\ \A i \in Legs : legs[i].model # cross[1]
    BY <1>3, <1>8 DEF Notes, OneEach
  <2>3. \A i, j \in Legs' : legs'[i].model = legs'[j].model /\ legs'[i].model # Home => i = j
    BY <2>1, <2>2 DEF Notes, OneEach
  <2>4. ASSUME NEW k \in 1..Len(cross')
        PROVE  cross'[k] # Home /\ \A i \in Legs' : legs'[i].model # cross'[k]
    <3>1. k + 1 \in 1..Len(cross) /\ cross'[k] = cross[k + 1] /\ k + 1 # 1
      BY <1>3, <1>8
    <3>2. cross[k + 1] # cross[1]
      BY <1>3, <1>8, <3>1 DEF Notes, OneEach
    <3> QED
      BY <2>1, <3>1, <3>2 DEF Notes, OneEach
  <2>5. \A j, k \in 1..Len(cross') : cross'[j] = cross'[k] => j = k
    BY <1>3, <1>8 DEF Notes, OneEach
  <2> QED
    BY <1>2, <2>3, <2>4, <2>5 DEF Notes, OneEach
<1>9. ASSUME cross = <<>>, UNCHANGED cross, NEW model \in Spare, Joins(model),
             \A i \in Legs : legs[i].model # model
      PROVE  Notes'
  <2>1. model \in Models
    BY DEF Models
  <2>2. /\ \A i \in Legs : legs'[i].model = legs[i].model
        /\ legs'[Len(legs) + 1].model = model
        /\ \A i \in Legs' : i \in Legs \/ i = Len(legs) + 1
    BY <1>6, <1>9, <2>1
  <2>3. Len(cross') = 0
    BY <1>9, EmptySeq
  <2> QED
    BY <1>2, <1>9, <2>2, <2>3 DEF Notes, OneEach
<1> QED
  BY <1>0, <1>4, <1>5, <1>7, <1>8, <1>9, OpensEffect

LEMMA NotesDecide ==
    ASSUME Founded, Notes, pc = "racing", NEW ls, Took(ls), NEW w \in 0..Len(legs),
           Decide(ls, w), UNCHANGED cross
    PROVE  Notes'
<1>0. RaceTyped /\ Facts
  BY FoundedFacts
<1>1. ls \in Seq(LegType) /\ Len(ls) = Len(legs) /\ DOMAIN ls = Legs
      /\ \A i \in Legs : ls[i].model = legs[i].model
  BY DEF Took
<1>2. /\ Legs' = Legs /\ \A i \in Legs : SameLeg(legs'[i], ls[i])
      /\ pc' = (IF w = 0 THEN "failed" ELSE "answering")
  BY <1>0, <1>1, DecideType
<1>3. OneEach'
  BY <1>1, <1>2, ModelsKept DEF Notes, SameLeg
<1>4. NotedAsSlow'
  BY <1>2 DEF NotedAsSlow
<1> DEFINE again  == {Probe} \cap {ls[i].model : i \in
                                     {j \in FailedLosers(ls, w) : ls[j].error = "busy"}}
           stands == w # 0 /\ ls[w].model # Home
           left   == IF ~stands THEN {} ELSE {i \in DOMAIN ls \ {w} : Unheard(ls, i)}
           home   == IF stands /\ ls[w].model # Probe /\ Home \notin notedSlow
                     THEN {Home} ELSE {}
           count(m) == Cardinality({i \in left : ls[i].model = m})
<1>5. noted' = [m \in Models |-> noted[m] + (IF m \in again THEN 1 ELSE 0)
                      + (IF m \in home THEN 1 ELSE 0) + count(m)]
  BY DEF Decide
<1>6. /\ left \in SUBSET Legs
      /\ \A i \in left : ls[i].model # Home /\ ls[i].model \notin notedSlow
      /\ again \subseteq {Probe} /\ home \subseteq {Home} \ notedSlow
  BY <1>1 DEF Unheard
<1> HIDE DEF again, stands, left, home
<1>7. \A m \in Models : count(m) \in {0, 1} /\ ((\A i \in left : ls[i].model # m) => count(m) = 0)
  <2>1. \A i \in left : legs[i].model # Home
    BY <1>1, <1>6
  <2>2. \A i \in Legs : ls[i].model = legs[i].model
    BY <1>1
  <2>3. OneEach
    BY DEF Notes
  <2>4. ASSUME NEW m \in Models
        PROVE  count(m) \in {0, 1} /\ ((\A i \in left : ls[i].model # m) => count(m) = 0)
    <3>1. /\ Cardinality(OfModel(ls, left, m)) \in {0, 1}
          /\ (\A i \in left : ls[i].model # m) => Cardinality(OfModel(ls, left, m)) = 0
      BY <1>0, <1>6, <2>1, <2>2, <2>3, LegsOfModel
    <3> QED
      BY <3>1 DEF OfModel
  <2> QED
    BY <2>4
<1> HIDE DEF count
<1>8. ASSUME NEW m \in Models \ {Probe} PROVE noted'[m] <= 1
  <2>1. noted'[m] = noted[m] + (IF m \in home THEN 1 ELSE 0) + count(m)
    BY <1>0, <1>5, <1>6, <1>7 DEF RaceTyped
  <2>2. noted[m] = IF m \in notedSlow THEN 1 ELSE 0
    BY DEF Notes, NotedAsSlow
  <2>3. CASE m \in notedSlow
    <3>1. m \notin home /\ count(m) = 0
      BY <1>6, <1>7, <2>3
    <3> QED
      BY <2>1, <2>2, <2>3, <3>1
  <2>4. CASE m \notin notedSlow /\ m = Home
    <3>1. count(m) = 0
      BY <1>6, <1>7, <2>4
    <3> QED
      BY <2>1, <2>2, <2>4, <3>1
  <2>5. CASE m \notin notedSlow /\ m # Home
    <3>1. m \notin home /\ count(m) \in {0, 1}
      BY <1>6, <1>7, <2>5
    <3> QED
      BY <2>1, <2>2, <2>5, <3>1
  <2> QED
    BY <2>3, <2>4, <2>5
<1> QED
  BY <1>3, <1>4, <1>8 DEF Notes, NotedOnce

LEMMA NotesReceive ==
    ASSUME Founded, Notes, Receive PROVE Notes'
<1>0. RaceTyped /\ Facts
  BY FoundedFacts
<1>1. pc = "racing" /\ UNCHANGED <<cross, armed, notedSlow>>
  BY <1>0, ReceiveCases
<1>2. PICK ls :
        /\ Took(ls)
        /\ \/ legs' = ls /\ UNCHANGED <<pc, winner, told>>
           \/ \E w \in 0..Len(legs) : Decide(ls, w)
  BY <1>0, ReceiveLegs
<1>3. CASE legs' = ls /\ UNCHANGED <<pc, winner, told>>
  <2>1. Legs' = Legs /\ \A i \in Legs : legs'[i].model = legs[i].model
    BY <1>2, <1>3 DEF Took, Legs
  <2>2. OneEach'
    BY <1>1, <2>1, ModelsKept DEF Notes
  <2> QED
    BY <1>1, <1>3, <2>2 DEF Notes, NotedAsSlow, NotedOnce, told
<1> QED
  BY <1>1, <1>2, <1>3, NotesDecide

LEMMA NotesSlowBound ==
    ASSUME Founded, Notes, KeepWaiting \/ NoHandOver \/ HandOver PROVE Notes'
<1>0. RaceTyped /\ Facts
  BY FoundedFacts
<1>1. /\ pc = "racing" /\ armed /\ UNCHANGED cross
      /\ \A m \in Models : noted[m] = 0
      /\ notedSlow = {}
  BY DEF KeepWaiting, NoHandOver, HandOver, SlowBound, Notes, NotedAsSlow
<1>2. CASE KeepWaiting
  <2> DEFINE slow == {Home} \cup {legs[i].model : i \in {j \in Crossed : ~legs[j].done}}
  <2>1. /\ noted' = CountUp(noted, slow) /\ notedSlow' = notedSlow \cup slow
        /\ UNCHANGED <<legs, pc>> /\ armed' = FALSE
    BY <1>2 DEF KeepWaiting, Remembered
  <2> HIDE DEF slow
  <2>2. \A m \in Models : noted'[m] = IF m \in notedSlow' THEN 1 ELSE 0
    BY <1>0, <1>1, <2>1 DEF CountUp, RaceTyped
  <2>3. OneEach'
    BY <1>1, <2>1, ModelsKept DEF Notes, Legs
  <2> QED
    BY <2>1, <2>2, <2>3 DEF Notes, NotedAsSlow, NotedOnce
<1>3. CASE NoHandOver
  <2>1. OneEach'
    BY <1>1, <1>3, ModelsKept DEF Notes, Legs, NoHandOver
  <2> QED
    BY <1>3, <2>1 DEF NoHandOver, Notes, NotedAsSlow, NotedOnce, told
<1>4. CASE HandOver
  <2> DEFINE count(m) == Cardinality({i \in Crossed : legs[i].model = m})
  <2>1. /\ noted' = [m \in Models |-> noted[m] + (IF m = Home THEN 1 ELSE 0) + count(m)]
        /\ legs' = Aborted(legs, Legs) /\ pc' = "handed over"
    BY <1>4 DEF HandOver
  <2>2. \A m \in Models : /\ count(m) \in {0, 1}
                          /\ (\A i \in Crossed : legs[i].model # m) => count(m) = 0
    <3>1. Crossed \in SUBSET Legs /\ \A i \in Crossed : legs[i].model # Home
      BY DEF Crossed
    <3>2. ASSUME NEW m \in Models
          PROVE  /\ Cardinality(OfModel(legs, Crossed, m)) \in {0, 1}
                 /\ (\A i \in Crossed : legs[i].model # m)
                       => Cardinality(OfModel(legs, Crossed, m)) = 0
      BY <1>0, <3>1, LegsOfModel DEF Notes
    <3> QED
      BY <3>2 DEF OfModel
  <2>3. \A i \in Crossed : legs[i].model # Home
    BY DEF Crossed
  <2> HIDE DEF count
  <2>4. NotedOnce'
    <3>1. ASSUME NEW m \in Models PROVE noted'[m] = (IF m = Home THEN 1 ELSE 0) + count(m)
      <4>1. noted[m] = 0 /\ count(m) \in {0, 1}
        BY <1>1, <2>2
      <4>2. noted'[m] = noted[m] + (IF m = Home THEN 1 ELSE 0) + count(m)
        BY <2>1
      <4> QED
        BY <4>1, <4>2
    <3>2. ASSUME NEW m \in Models PROVE m = Home => count(m) = 0
      BY <2>2, <2>3
    <3>3. ASSUME NEW m \in Models PROVE noted'[m] <= 1
      BY <2>2, <3>1, <3>2
    <3> QED
      BY <3>3 DEF NotedOnce
  <2>5. OneEach'
    <3>1. Legs' = Legs /\ \A i \in Legs : SameLeg(legs'[i], legs[i])
      BY <1>0, <2>1, CutType
    <3> QED
      BY <1>1, <3>1, ModelsKept DEF Notes, SameLeg
  <2> QED
    BY <2>1, <2>4, <2>5 DEF Notes, NotedAsSlow
<1> QED
  BY <1>2, <1>3, <1>4

LEMMA NotesStep == Founded /\ Notes /\ [Next]_vars => Notes'
<1> SUFFICES ASSUME Founded, Notes, [Next]_vars PROVE Notes'
  OBVIOUS
<1>0. RaceTyped /\ Facts
  BY FoundedFacts
<1>1. ASSUME Legs' = Legs, \A i \in Legs : legs'[i].model = legs[i].model,
             UNCHANGED <<cross, noted>>, pc' # "racing" \/ UNCHANGED <<pc, armed, notedSlow>>
      PROVE  Notes'
  <2>1. OneEach'
    BY <1>1, ModelsKept DEF Notes
  <2> QED
    BY <1>1, <2>1 DEF Notes, NotedAsSlow, NotedOnce
<1>2. ASSUME NEW i \in Legs, LegStep(i) PROVE Notes'
  <2>1. /\ Legs' = Legs /\ UNCHANGED <<cross, armed, notedSlow, pc, told>>
        /\ \A j \in Legs : legs'[j].model = legs[j].model
    BY <1>0, <1>2, LegStepFields
  <2> QED
    BY <1>1, <2>1 DEF told
<1>3. CASE ReadHeld \/ ReadDone \/ ReadNext \/ CloseReply
  <2>1. Legs' = Legs /\ \A j \in Legs : legs'[j].model = legs[j].model
    BY <1>3, ReaderLegs
  <2>2. UNCHANGED <<cross, noted, armed, notedSlow>> /\ pc' # "racing"
    BY <1>3 DEF ReadHeld, ReadDone, ReadNext, CloseReply, told, Finished
  <2> QED
    BY <1>1, <2>1, <2>2
<1>4. CASE Stopped
  <2>1. /\ legs' = Aborted(legs, Legs) /\ pc' = "stopped" /\ UNCHANGED <<cross, noted>>
    BY <1>4 DEF Stopped, told
  <2>2. Legs' = Legs /\ \A i \in Legs : SameLeg(legs'[i], legs[i])
    BY <1>0, <2>1, CutType
  <2> QED
    BY <1>1, <2>1, <2>2 DEF SameLeg
<1>5. CASE UNCHANGED vars
  BY <1>1, <1>5 DEF vars, told, Legs
<1> QED
  BY <1>2, <1>3, <1>4, <1>5, NotesOpens, NotesReceive, NotesSlowBound DEF Next, RaceStep

LEMMA NotesInitial == Init => Notes
<1> SUFFICES ASSUME Init PROVE Notes
  OBVIOUS
<1>1. Legs = {1} /\ legs[1].model = Home /\ notedSlow = {} /\ \A m \in Models : noted[m] = 0
  BY DEF Init, Legs, Leg
<1>2. /\ cross = Raced /\ DOMAIN Raced = 1..Len(Raced)
  BY StreamRaceAssumption, EmptyLen DEF Init, StreamRaceAssumption
<1>3. \A k \in 1..Len(cross) : cross[k] # Home
  BY <1>2, StreamRaceAssumption DEF StreamRaceAssumption
<1>4. \A j, k \in 1..Len(cross) : cross[j] = cross[k] => j = k
  BY <1>2, StreamRaceAssumption DEF StreamRaceAssumption
<1> QED
  BY <1>1, <1>3, <1>4 DEF Notes, OneEach, NotedAsSlow, NotedOnce

\* No busy window but the probe's is opened, or doubled, twice by one race
\* (transport.py:3872, 3990-3999, 4138-4143).
THEOREM NoWindowTwice == Spec => []NotedOnce
<1>1. Notes => NotedOnce
  BY DEF Notes
<1> QED
  BY <1>1, FoundedInitial, FoundedStep, NotesInitial, NotesStep, PTL DEF Spec
-----------------------------------------------------------------------------
(* One leg is heard, every chunk of it once and in order.                  *)

\* An item of another leg, the leg's next chunk, or its end, joins the queue.
LEMMA PutTrail ==
    ASSUME NEW i \in Nat, NEW h \in Nat, NEW sent \in Nat,
           NEW q \in Seq(Items), NEW r \in Seq(Items),
           QueueTrail(i, h, sent, q),
           Len(r) = Len(q) + 1, \A k \in 1..Len(q) : r[k] = q[k]
    PROVE  /\ r[Len(q) + 1].leg # i => QueueTrail(i, h, sent, r)
           /\ r[Len(q) + 1].leg # i /\ NoneQueued(i, q) => NoneQueued(i, r)
           /\ /\ r[Len(q) + 1].leg = i
              /\ \A k \in 1..Len(q) : q[k].leg = i => q[k].kind \in Spoken
              => /\ r[Len(q) + 1].kind \in Spoken /\ r[Len(q) + 1].n = sent + 1 /\ h <= sent
                      => QueueTrail(i, h, sent + 1, r)
                 /\ r[Len(q) + 1].kind \notin Spoken => QueueTrail(i, h, sent, r)
<1> DEFINE new == r[Len(q) + 1]
<1>1. /\ Len(q) \in Nat /\ \A k \in 1..Len(r) : k \in 1..Len(q) \/ k = Len(q) + 1
      /\ \A k \in 1..Len(q) : k \in 1..Len(r) /\ k < Len(q) + 1
      /\ Len(q) + 1 \in 1..Len(r)
  BY EmptyLen
<1>2. /\ \A k \in 1..Len(q) : q[k].leg = i /\ q[k].kind \in Spoken => q[k].n > h /\ q[k].n <= sent
      /\ \A j, k \in 1..Len(q) : j < k /\ q[j].leg = i /\ q[k].leg = i =>
            q[j].kind \in Spoken /\ (q[k].kind \in Spoken => q[j].n < q[k].n)
      /\ \A n \in h + 1..sent :
            \E k \in 1..Len(q) : q[k].leg = i /\ q[k].kind \in Spoken /\ q[k].n = n
  BY DEF QueueTrail
<1>3. \A n \in h + 1..sent :
            \E k \in 1..Len(r) : r[k].leg = i /\ r[k].kind \in Spoken /\ r[k].n = n
  <2>1. ASSUME NEW n \in h + 1..sent
        PROVE  \E k \in 1..Len(r) : r[k].leg = i /\ r[k].kind \in Spoken /\ r[k].n = n
    <3>1. PICK k \in 1..Len(q) : q[k].leg = i /\ q[k].kind \in Spoken /\ q[k].n = n
      BY <1>2
    <3> QED
      BY <1>1, <3>1
  <2> QED
    BY <2>1
<1>4. \A k \in 1..Len(q) : q[k].n \in Nat
  <2>1. \A k \in 1..Len(q) : q[k] \in Items
    OBVIOUS
  <2> QED
    BY <2>1 DEF Items
<1> HIDE DEF new
<1>5. ASSUME new.leg # i
      PROVE  QueueTrail(i, h, sent, r) /\ (NoneQueued(i, q) => NoneQueued(i, r))
  <2>1. \A k \in 1..Len(r) : r[k].leg = i => k \in 1..Len(q)
    BY <1>1, <1>5 DEF new
  <2> QED
    BY <1>1, <1>2, <1>3, <2>1 DEF QueueTrail, NoneQueued
<1>6. ASSUME new.leg = i, \A k \in 1..Len(q) : q[k].leg = i => q[k].kind \in Spoken,
             new.kind \in Spoken, new.n = sent + 1, h <= sent
      PROVE  QueueTrail(i, h, sent + 1, r)
  <2>1. ASSUME NEW k \in 1..Len(r), r[k].leg = i, r[k].kind \in Spoken
        PROVE  r[k].n > h /\ r[k].n <= sent + 1
    BY <1>1, <1>2, <1>4, <1>6, <2>1 DEF new
  <2>2. ASSUME NEW j \in 1..Len(r), NEW k \in 1..Len(r), j < k, r[j].leg = i, r[k].leg = i
        PROVE  r[j].kind \in Spoken /\ (r[k].kind \in Spoken => r[j].n < r[k].n)
    <3>1. j \in 1..Len(q) /\ r[j] = q[j]
      BY <1>1, <2>2
    <3>2. CASE k \in 1..Len(q)
      BY <1>2, <2>2, <3>1, <3>2
    <3>3. CASE k = Len(q) + 1
      BY <1>2, <1>4, <1>6, <2>2, <3>1, <3>3 DEF new
    <3> QED
      BY <1>1, <3>2, <3>3
  <2>3. ASSUME NEW n \in h + 1..sent + 1
        PROVE  \E k \in 1..Len(r) : r[k].leg = i /\ r[k].kind \in Spoken /\ r[k].n = n
    <3>1. CASE n \in h + 1..sent
      BY <1>3, <3>1
    <3>2. CASE n = sent + 1
      BY <1>1, <1>6, <3>2 DEF new
    <3> QED
      BY <3>1, <3>2
  <2> QED
    BY <2>1, <2>2, <2>3 DEF QueueTrail
<1>7. ASSUME new.leg = i, \A k \in 1..Len(q) : q[k].leg = i => q[k].kind \in Spoken,
             new.kind \notin Spoken
      PROVE  QueueTrail(i, h, sent, r)
  <2>1. ASSUME NEW k \in 1..Len(r), r[k].leg = i, r[k].kind \in Spoken
        PROVE  r[k].n > h /\ r[k].n <= sent
    BY <1>1, <1>2, <1>7, <2>1 DEF new
  <2>2. ASSUME NEW j \in 1..Len(r), NEW k \in 1..Len(r), j < k, r[j].leg = i, r[k].leg = i
        PROVE  r[j].kind \in Spoken /\ (r[k].kind \in Spoken => r[j].n < r[k].n)
    <3>1. j \in 1..Len(q) /\ r[j] = q[j]
      BY <1>1, <2>2
    <3>2. CASE k \in 1..Len(q)
      BY <1>2, <2>2, <3>1, <3>2
    <3>3. CASE k = Len(q) + 1
      BY <1>7, <2>2, <3>1, <3>3 DEF new
    <3> QED
      BY <1>1, <3>2, <3>3
  <2> QED
    BY <1>3, <2>1, <2>2 DEF QueueTrail
<1> QED
  BY <1>5, <1>6, <1>7 DEF new

\* The first item of the queue is taken: another leg's, the leg's next chunk,
\* or its end.
LEMMA TakeTrail ==
    ASSUME NEW i \in Nat, NEW h \in Nat, NEW sent \in Nat, NEW q \in Seq(Items), q # <<>>,
           QueueTrail(i, h, sent, q)
    PROVE  /\ NoneQueued(i, q) => NoneQueued(i, Tail(q))
           /\ Head(q).leg # i => QueueTrail(i, h, sent, Tail(q))
           /\ Head(q).leg = i /\ Head(q).kind \in Spoken =>
                 Head(q).n = h + 1 /\ h + 1 <= sent /\ QueueTrail(i, h + 1, sent, Tail(q))
           /\ Head(q).leg = i /\ Head(q).kind \notin Spoken =>
                 sent <= h /\ NoneQueued(i, Tail(q)) /\ QueueTrail(i, h, sent, Tail(q))
<1> DEFINE r == Tail(q)
<1>1. /\ Head(q) = q[1] /\ 1 \in 1..Len(q) /\ Len(q) \in Nat
      /\ \A k \in 1..Len(r) : k + 1 \in 1..Len(q) /\ r[k] = q[k + 1] /\ 1 < k + 1
      /\ \A k \in 1..Len(q) : k = 1 \/ (k - 1 \in 1..Len(r) /\ r[k - 1] = q[k] /\ 1 < k)
      /\ \A j, k \in 1..Len(r) : j < k => j + 1 < k + 1
  BY Rest
<1>2. /\ \A k \in 1..Len(q) : q[k].leg = i /\ q[k].kind \in Spoken => q[k].n > h /\ q[k].n <= sent
      /\ \A j, k \in 1..Len(q) : j < k /\ q[j].leg = i /\ q[k].leg = i =>
            q[j].kind \in Spoken /\ (q[k].kind \in Spoken => q[j].n < q[k].n)
      /\ \A n \in h + 1..sent :
            \E k \in 1..Len(q) : q[k].leg = i /\ q[k].kind \in Spoken /\ q[k].n = n
  BY DEF QueueTrail
<1> HIDE DEF r
<1>3. \A k \in 1..Len(r) : r[k].leg = i /\ r[k].kind \in Spoken => r[k].n > h /\ r[k].n <= sent
  BY <1>1, <1>2
<1>4. \A j, k \in 1..Len(r) : j < k /\ r[j].leg = i /\ r[k].leg = i =>
            r[j].kind \in Spoken /\ (r[k].kind \in Spoken => r[j].n < r[k].n)
  <2> TAKE j, k \in 1..Len(r)
  <2>1. /\ j + 1 \in 1..Len(q) /\ r[j] = q[j + 1] /\ k + 1 \in 1..Len(q) /\ r[k] = q[k + 1]
        /\ j < k => j + 1 < k + 1
    BY <1>1
  <2> QED
    BY <1>2, <2>1
<1>5. NoneQueued(i, q) => NoneQueued(i, r)
  BY <1>1 DEF NoneQueued
<1>6. ASSUME NEW n \in h + 1..sent, ~(q[1].leg = i /\ q[1].kind \in Spoken /\ q[1].n = n)
      PROVE  \E k \in 1..Len(r) : r[k].leg = i /\ r[k].kind \in Spoken /\ r[k].n = n
  <2>1. PICK k \in 1..Len(q) : q[k].leg = i /\ q[k].kind \in Spoken /\ q[k].n = n
    BY <1>2
  <2>2. k - 1 \in 1..Len(r) /\ r[k - 1] = q[k]
    BY <1>1, <1>6, <2>1
  <2> QED
    BY <2>1, <2>2
<1>7. ASSUME q[1].leg # i PROVE QueueTrail(i, h, sent, r)
  BY <1>3, <1>4, <1>6, <1>7 DEF QueueTrail
<1>8. ASSUME q[1].leg = i, q[1].kind \in Spoken
      PROVE  q[1].n = h + 1 /\ h + 1 <= sent /\ QueueTrail(i, h + 1, sent, r)
  <2>1. q[1].n \in Nat /\ q[1].n > h /\ q[1].n <= sent
    <3>1. q[1] \in Items
      BY <1>1
    <3> QED
      BY <1>1, <1>2, <1>8, <3>1 DEF Items
  <2>2. PICK k \in 1..Len(q) : q[k].leg = i /\ q[k].kind \in Spoken /\ q[k].n = h + 1
    <3>1. h + 1 \in h + 1..sent
      BY <2>1
    <3> QED
      BY <1>2, <3>1
  <2>3. q[1].n = h + 1
    <3>1. CASE k # 1
      <4>1. 1 < k
        BY <1>1, <3>1
      <4>2. q[1].n < h + 1
        BY <1>1, <1>2, <1>8, <2>2, <4>1
      <4> QED
        BY <2>1, <4>2
    <3> QED
      BY <2>2, <3>1
  <2>4. ASSUME NEW m \in 1..Len(r), r[m].leg = i, r[m].kind \in Spoken
        PROVE  r[m].n > h + 1 /\ r[m].n <= sent
    <3>1. m + 1 \in 1..Len(q) /\ r[m] = q[m + 1] /\ 1 < m + 1
      BY <1>1
    <3>2. q[1].n < q[m + 1].n
      BY <1>1, <1>2, <1>8, <2>4, <3>1
    <3> QED
      BY <1>3, <2>3, <2>4, <3>1, <3>2
  <2>5. ASSUME NEW n \in h + 1 + 1..sent
        PROVE  \E m \in 1..Len(r) : r[m].leg = i /\ r[m].kind \in Spoken /\ r[m].n = n
    BY <1>6, <2>3
  <2> QED
    BY <1>4, <2>1, <2>3, <2>4, <2>5 DEF QueueTrail
<1>9. ASSUME q[1].leg = i, q[1].kind \notin Spoken
      PROVE  sent <= h /\ NoneQueued(i, r) /\ QueueTrail(i, h, sent, r)
  <2>1. \A k \in 1..Len(q) : q[k].leg = i => k = 1
    BY <1>1, <1>2, <1>9
  <2>2. sent <= h
    <3>1. ASSUME sent > h PROVE FALSE
      <4>1. h + 1 \in h + 1..sent
        BY <3>1
      <4>2. PICK k \in 1..Len(q) : q[k].leg = i /\ q[k].kind \in Spoken /\ q[k].n = h + 1
        BY <1>2, <4>1
      <4> QED
        BY <1>9, <2>1, <4>2
    <3> QED
      BY <3>1
  <2>3. NoneQueued(i, r)
    <3>1. ASSUME NEW k \in 1..Len(r) PROVE r[k].leg # i
      <4>1. k + 1 \in 1..Len(q) /\ r[k] = q[k + 1] /\ k + 1 # 1
        BY <1>1
      <4> QED
        BY <2>1, <4>1
    <3> QED
      BY <3>1 DEF NoneQueued
  <2>4. QueueTrail(i, h, sent, r)
    BY <1>3, <1>4, <1>6, <1>9 DEF QueueTrail
  <2> QED
    BY <2>2, <2>3, <2>4
<1> QED
  BY <1>1, <1>5, <1>7, <1>8, <1>9 DEF r

\* The reader is given the leg's next chunks: the winner's, or word-less ones of
\* the primary while there is none.
LEMMA GiveTrail ==
    ASSUME NEW i \in Nat \ {0}, NEW a \in Nat, NEW w \in Nat,
           NEW o \in Seq(Items), NEW c \in Seq(Items), NEW r \in Seq(Items),
           i = w \/ (w = 0 /\ i = 1 /\ \A k \in 1..Len(c) : c[k].kind = "quiet"),
           GivenUpTo(i, a, o), HeldNext(i, a, c), InOrder(o, w),
           Len(r) = Len(o) + Len(c), \A k \in 1..Len(o) : r[k] = o[k],
           \A k \in 1..Len(c) : r[Len(o) + k] = c[k]
    PROVE  GivenUpTo(i, a + Len(c), r) /\ InOrder(r, w)
<1>1. /\ Len(o) \in Nat /\ Len(c) \in Nat
      /\ \A k \in 1..Len(o) : k \in 1..Len(r)
      /\ \A k \in 1..Len(c) : Len(o) + k \in 1..Len(r)
  BY EmptyLen
<1>2. \A k \in 1..Len(c) : r[Len(o) + k].leg = i /\ r[Len(o) + k].n = a + k
  BY DEF HeldNext, Is
<1>3. ASSUME NEW k \in 1..Len(r), k \notin 1..Len(o)
      PROVE  /\ k - Len(o) \in 1..Len(c) /\ r[k] = c[k - Len(o)]
             /\ r[k].leg = i /\ r[k].n = a + (k - Len(o))
  <2>1. k - Len(o) \in 1..Len(c) /\ Len(o) + (k - Len(o)) = k
    BY <1>1, <1>3
  <2> QED
    BY <1>2, <2>1
<1>4. \A k \in 1..Len(o) : o[k].n \in Nat
  <2>1. \A k \in 1..Len(o) : o[k] \in Items
    OBVIOUS
  <2> QED
    BY <2>1 DEF Items
<1>5. ASSUME NEW n \in 1..a + Len(c)
      PROVE  \E k \in 1..Len(r) : Is(r[k], i, n)
  <2>1. CASE n \in 1..a
    <3>1. n \in Nat
      BY <2>1
    <3>2. PICK k \in 1..Len(o) : Is(o[k], i, n)
      BY <2>1, <3>1 DEF GivenUpTo
    <3> QED
      BY <1>1, <3>2
  <2>2. CASE n \notin 1..a
    <3>1. n - a \in 1..Len(c) /\ a + (n - a) = n
      BY <1>1, <1>5, <2>2
    <3> QED
      BY <1>1, <1>2, <3>1 DEF Is
  <2> QED
    BY <2>1, <2>2
<1>6. ASSUME NEW n \in Nat, NEW k \in 1..Len(r), Is(r[k], i, n)
      PROVE  n \in 1..a + Len(c)
  <2>1. CASE k \in 1..Len(o)
    <3>1. n \in 1..a
      BY <1>6, <2>1 DEF GivenUpTo
    <3> QED
      BY <1>1, <3>1
  <2>2. CASE k \notin 1..Len(o)
    <3>1. k - Len(o) \in 1..Len(c) /\ n = a + (k - Len(o))
      BY <1>3, <1>6, <2>2 DEF Is
    <3> QED
      BY <1>1, <3>1
  <2> QED
    BY <2>1, <2>2
<1>7. GivenUpTo(i, a + Len(c), r)
  BY <1>5, <1>6 DEF GivenUpTo
<1>8. \A k \in 1..Len(r) : r[k].leg # 0
  <2> TAKE k \in 1..Len(r)
  <2>1. CASE k \in 1..Len(o)
    BY <2>1 DEF InOrder
  <2>2. CASE k \notin 1..Len(o)
    BY <1>3, <2>2
  <2> QED
    BY <2>1, <2>2
<1>9. ASSUME NEW k \in 1..Len(r), r[k].leg # w
      PROVE  r[k].leg = 1 /\ r[k].kind = "quiet" /\ \A j \in 1..k : r[j].leg # w
  <2>1. CASE k \in 1..Len(o)
    <3>1. o[k].leg = 1 /\ o[k].kind = "quiet" /\ \A j \in 1..k : o[j].leg # w
      BY <1>9, <2>1 DEF InOrder
    <3>2. \A j \in 1..k : j \in 1..Len(o)
      BY <1>1, <2>1
    <3> QED
      BY <2>1, <3>1, <3>2
  <2>2. CASE k \notin 1..Len(o)
    <3>1. r[k].leg = i /\ k - Len(o) \in 1..Len(c) /\ r[k] = c[k - Len(o)]
      BY <1>3, <2>2
    <3>2. w = 0 /\ i = 1 /\ r[k].kind = "quiet"
      BY <1>9, <3>1
    <3>3. \A j \in 1..k : j \in 1..Len(r)
      BY <1>1
    <3> QED
      BY <1>8, <3>1, <3>2, <3>3
  <2> QED
    BY <2>1, <2>2
<1>10. ASSUME NEW j \in 1..Len(r), NEW k \in 1..Len(r), j < k, r[j].leg = r[k].leg
       PROVE  r[j].n < r[k].n
  <2>1. CASE k \in 1..Len(o)
    <3>1. j \in 1..Len(o)
      BY <1>1, <1>10, <2>1
    <3> QED
      BY <1>10, <2>1, <3>1 DEF InOrder
  <2>2. CASE k \notin 1..Len(o) /\ j \in 1..Len(o)
    <3>1. k - Len(o) \in 1..Len(c) /\ r[k].leg = i /\ r[k].n = a + (k - Len(o))
      BY <1>3, <2>2
    <3>2. Is(o[j], i, o[j].n) /\ o[j].n \in Nat /\ r[j] = o[j]
      BY <1>4, <1>10, <2>2, <3>1 DEF Is
    <3>3. o[j].n \in 1..a
      BY <2>2, <3>2 DEF GivenUpTo
    <3> QED
      BY <1>1, <3>1, <3>2, <3>3
  <2>3. CASE k \notin 1..Len(o) /\ j \notin 1..Len(o)
    <3>1. /\ k - Len(o) \in 1..Len(c) /\ r[k].n = a + (k - Len(o))
          /\ j - Len(o) \in 1..Len(c) /\ r[j].n = a + (j - Len(o))
      BY <1>3, <2>3
    <3> QED
      BY <1>1, <1>10, <3>1
  <2> QED
    BY <2>1, <2>2, <2>3
<1>11. ASSUME NEW k \in 1..Len(r), NEW n \in 1..r[k].n
       PROVE  \E m \in 1..Len(r) : Is(r[m], r[k].leg, n)
  <2>1. CASE k \in 1..Len(o)
    <3>1. PICK m \in 1..Len(o) : Is(o[m], o[k].leg, n)
      BY <1>11, <2>1 DEF InOrder
    <3> QED
      BY <1>1, <2>1, <3>1
  <2>2. CASE k \notin 1..Len(o)
    <3>1. k - Len(o) \in 1..Len(c) /\ r[k].leg = i /\ r[k].n = a + (k - Len(o))
      BY <1>3, <2>2
    <3>2. n \in 1..a + Len(c)
      BY <1>1, <1>11, <3>1
    <3> QED
      BY <1>5, <3>1, <3>2
  <2> QED
    BY <2>1, <2>2
<1> QED
  BY <1>7, <1>8, <1>9, <1>10, <1>11 DEF InOrder

LEMMA GiveOne ==
    ASSUME NEW i \in Nat \ {0}, NEW a \in Nat, NEW w \in Nat, NEW o \in Seq(Items),
           NEW item \in Items, Is(item, i, a + 1),
           i = w \/ (w = 0 /\ i = 1 /\ item.kind = "quiet"),
           GivenUpTo(i, a, o), InOrder(o, w)
    PROVE  GivenUpTo(i, a + 1, Append(o, item)) /\ InOrder(Append(o, item), w)
<1> DEFINE c == <<item>>
           r == Append(o, item)
<1>1. c \in Seq(Items) /\ Len(c) = 1 /\ c[1] = item
  OBVIOUS
<1>2. HeldNext(i, a, c)
  BY <1>1 DEF HeldNext
<1> HIDE DEF c
<1>3. r \in Seq(Items) /\ Len(r) = Len(o) + 1 /\ r[Len(o) + 1] = item
      /\ \A k \in 1..Len(o) : r[k] = o[k]
  BY Appended
<1> HIDE DEF r
<1>4. /\ Len(r) = Len(o) + Len(c) /\ \A k \in 1..Len(c) : r[Len(o) + k] = c[k]
      /\ i = w \/ (w = 0 /\ i = 1 /\ \A k \in 1..Len(c) : c[k].kind = "quiet")
  BY <1>1, <1>3
<1>5. GivenUpTo(i, a + Len(c), r) /\ InOrder(r, w)
  BY <1>1, <1>2, <1>3, <1>4, GiveTrail
<1> QED
  BY <1>1, <1>5 DEF r

LEMMA GiveHeld ==
    ASSUME NEW i \in Nat \ {0}, NEW a \in Nat, NEW o \in Seq(Items),
           NEW c \in Seq(Items), HeldNext(i, a, c), GivenUpTo(i, a, o), InOrder(o, i)
    PROVE  GivenUpTo(i, a + Len(c), o \o c) /\ InOrder(o \o c, i)
<1>1. /\ o \o c \in Seq(Items) /\ Len(o \o c) = Len(o) + Len(c)
      /\ \A k \in 1..Len(o) + Len(c) : (o \o c)[k] = IF k <= Len(o) THEN o[k] ELSE c[k - Len(o)]
      /\ Len(o) \in Nat /\ Len(c) \in Nat
  BY ConcatProperties, EmptyLen
<1>2. \A k \in 1..Len(o) : (o \o c)[k] = o[k]
  BY <1>1
<1>3. ASSUME NEW k \in 1..Len(c) PROVE (o \o c)[Len(o) + k] = c[k]
  <2>1. Len(o) + k \in 1..Len(o) + Len(c) /\ ~(Len(o) + k <= Len(o)) /\ Len(o) + k - Len(o) = k
    BY <1>1
  <2> QED
    BY <1>1, <2>1
<1> QED
  BY <1>1, <1>2, <1>3, GiveTrail

LEMMA SecondOf == ASSUME NEW n \in Nat \ {0}, n # 1 PROVE 2 \in 1..n
OBVIOUS

LEMMA VoiceTypes ==
    ASSUME Founded
    PROVE  /\ queue \in Seq(Items) /\ out \in Seq(Items) /\ Len(queue) \in Nat
           /\ \A i \in Legs : /\ i \in Nat \ {0} /\ legs[i].sent \in Nat
                              /\ legs[i].buffer \in Seq(Items) /\ Len(legs[i].buffer) \in Nat
           /\ winner \in Nat /\ Legs = 1..Len(legs) /\ Len(legs) \in Nat \ {0}
<1>1. RaceTyped /\ Facts
  BY FoundedFacts
<1>2. queue \in Seq(Items) /\ out \in Seq(Items) /\ winner \in Nat
  BY <1>1 DEF RaceTyped, QueueTyped, Facts
<1>3. ASSUME NEW i \in Legs
      PROVE  /\ i \in Nat \ {0} /\ legs[i].sent \in Nat
             /\ legs[i].buffer \in Seq(Items) /\ Len(legs[i].buffer) \in Nat
  <2>1. i \in Nat \ {0} /\ legs[i] \in LegType
    BY <1>1 DEF Facts
  <2>2. legs[i].sent \in Nat /\ legs[i].buffer \in Seq(Items)
    BY <2>1 DEF LegType
  <2> QED
    BY <2>1, <2>2, EmptyLen
<1> QED
  BY <1>1, <1>2, <1>3, EmptyLen DEF Facts

LEMMA SameTrail ==
    ASSUME NEW i, NEW a, NEW o, NEW leg, NEW after, NEW q, TrailOf(i, a, o, leg, q),
           after.buffer = leg.buffer, after.sent = leg.sent, after.done => leg.done
    PROVE  TrailOf(i, a, o, after, q)
BY DEF TrailOf

\* A leg's own step, seen from any leg that is heeded.
LEMMA TrailLegStep ==
    ASSUME Founded, Quiet, NEW i \in Legs, LegStep(i), NEW j \in Legs, Reading,
           NEW a \in Nat, TrailOf(j, a, out, legs[j], queue)
    PROVE  TrailOf(j, a, out, legs'[j], queue')
<1>0. RaceTyped /\ Facts
  BY FoundedFacts
<1>1. /\ legs[i].thread = "reading" /\ \A k \in Legs \ {i} : legs'[k] = legs[k]
      /\ legs'[i].done = legs[i].done /\ legs'[i].buffer = legs[i].buffer
      /\ \/ UNCHANGED queue /\ legs'[i].sent = legs[i].sent
         \/ /\ legs'[i].sent = legs[i].sent
            /\ \E kind \in {"end"} \cup Failures : Put(i, kind)
         \/ /\ legs'[i].sent = legs[i].sent + 1
            /\ \E kind \in Spoken : Put(i, kind)
      /\ legs'[i].sent \in Nat
  BY <1>0, LegStepFields
<1>2. /\ queue \in Seq(Items) /\ j \in Nat /\ legs[j].sent \in Nat /\ Len(legs[j].buffer) \in Nat
      /\ Len(queue) \in Nat
  BY VoiceTypes
<1>3. queue' \in Seq(Items)
  BY <1>0, TypedLegStep DEF RaceTyped, QueueTyped
<1>4. ~legs[i].done /\ \A k \in 1..Len(queue) : queue[k].leg = i => queue[k].kind \in Spoken
  BY <1>0, <1>1 DEF Quiet, DoneIsOver, EndingsQueued, Facts
<1>5. CASE UNCHANGED queue /\ legs'[i].sent = legs[i].sent
  <2>1. /\ legs'[j].buffer = legs[j].buffer /\ legs'[j].sent = legs[j].sent
        /\ legs'[j].done => legs[j].done
    BY <1>1, <1>5
  <2> QED
    BY <1>5, <2>1, SameTrail
<1>6. ASSUME NEW kind \in Kinds, Put(i, kind)
      PROVE  /\ Len(queue') = Len(queue) + 1
             /\ \A k \in 1..Len(queue) : queue'[k] = queue[k]
             /\ queue'[Len(queue) + 1].leg = i /\ queue'[Len(queue) + 1].kind = kind
             /\ queue'[Len(queue) + 1].n = legs'[i].sent
  BY <1>0, <1>1, <1>6, PutEffect
<1> DEFINE h == a + Len(legs[j].buffer)
<1>7. /\ h \in Nat /\ h <= legs[j].sent /\ GivenUpTo(j, a, out) /\ HeldNext(j, a, legs[j].buffer)
      /\ QueueTrail(j, h, legs[j].sent, queue) /\ (legs[j].done => NoneQueued(j, queue))
  BY <1>2 DEF TrailOf
<1> HIDE DEF h
<1>8. ASSUME NEW kind \in Kinds, Put(i, kind), j # i
      PROVE  TrailOf(j, a, out, legs'[j], queue')
  <2>0. /\ Len(queue') = Len(queue) + 1 /\ \A k \in 1..Len(queue) : queue'[k] = queue[k]
        /\ queue'[Len(queue) + 1].leg # j
    BY <1>6, <1>8
  <2>1. QueueTrail(j, h, legs[j].sent, queue') /\ (NoneQueued(j, queue) => NoneQueued(j, queue'))
    BY <1>2, <1>3, <1>7, <2>0, PutTrail
  <2>2. legs'[j] = legs[j]
    BY <1>1, <1>8
  <2> QED
    BY <1>7, <2>1, <2>2 DEF TrailOf, h
<1>9. CASE legs'[i].sent = legs[i].sent /\ \E kind \in {"end"} \cup Failures : Put(i, kind)
  <2>1. PICK kind \in {"end"} \cup Failures : Put(i, kind)
    BY <1>9
  <2>2. kind \in Kinds /\ kind \notin Spoken
    BY StreamRaceAssumption DEF Kinds, Spoken, StreamRaceAssumption
  <2>3. CASE j = i
    <3>1. QueueTrail(i, h, legs[i].sent, queue')
      <4>1. /\ Len(queue') = Len(queue) + 1 /\ \A k \in 1..Len(queue) : queue'[k] = queue[k]
            /\ queue'[Len(queue) + 1].leg = i /\ queue'[Len(queue) + 1].kind \notin Spoken
        BY <1>6, <2>1, <2>2
      <4> QED
        BY <1>2, <1>3, <1>4, <1>7, <2>3, <4>1, PutTrail
    <3> QED
      BY <1>1, <1>4, <1>7, <1>9, <2>3, <3>1 DEF TrailOf, h
  <2> QED
    BY <1>8, <2>1, <2>2, <2>3
<1>10. CASE legs'[i].sent = legs[i].sent + 1 /\ \E kind \in Spoken : Put(i, kind)
  <2>1. PICK kind \in Spoken : Put(i, kind)
    BY <1>10
  <2>2. kind \in Kinds
    BY DEF Kinds
  <2>3. CASE j = i
    <3>1. QueueTrail(i, h, legs[i].sent + 1, queue')
      <4>1. /\ Len(queue') = Len(queue) + 1 /\ \A k \in 1..Len(queue) : queue'[k] = queue[k]
            /\ queue'[Len(queue) + 1].leg = i /\ queue'[Len(queue) + 1].kind \in Spoken
            /\ queue'[Len(queue) + 1].n = legs[i].sent + 1
        BY <1>6, <1>10, <2>1, <2>2
      <4> QED
        BY <1>2, <1>3, <1>4, <1>7, <2>3, <4>1, PutTrail
    <3>2. h <= legs[i].sent + 1
      BY <1>2, <1>7, <2>3
    <3> QED
      BY <1>1, <1>4, <1>7, <1>10, <2>3, <3>1, <3>2 DEF TrailOf, h
  <2> QED
    BY <1>8, <2>1, <2>2, <2>3
<1> QED
  BY <1>1, <1>5, <1>9, <1>10

LEMMA VoiceLegStep ==
    ASSUME Founded, Quiet, Voice, NEW i \in Legs, LegStep(i)
    PROVE  Voice'
<1>0. RaceTyped /\ Facts
  BY FoundedFacts
<1>1. /\ Legs' = Legs /\ UNCHANGED <<pc, winner, out>> /\ legs[i].thread = "reading"
      /\ \A k \in Legs \ {i} : legs'[k] = legs[k]
      /\ legs'[i].buffer = legs[i].buffer
  BY <1>0, LegStepFields
<1>2. Trails'
  <2>1. ASSUME NEW j \in Legs, Heeded(j)
        PROVE  \E a \in Nat : TrailOf(j, a, out, legs'[j], queue')
    <3>1. PICK a \in Nat : TrailOf(j, a, out, legs[j], queue)
      BY <2>1 DEF Voice, Trails
    <3>2. Reading
      BY <2>1 DEF Heeded, Reading
    <3> QED
      BY <3>1, <3>2, TrailLegStep
  <2> QED
    BY <1>1, <2>1 DEF Trails, Heeded
<1>3. OutInOrder'
  BY <1>1 DEF Voice, OutInOrder
<1>4. Whole'
  <2>1. ASSUME pc = "finished" PROVE legs'[winner] = legs[winner]
    BY <1>0, <1>1, <2>1 DEF Facts, Quiet, FinishedIsOver
  <2> QED
    BY <1>1, <2>1 DEF Voice, Whole, Given
<1>5. AloneUnheld'
  <2>1. 1 \in Legs
    BY <1>0 DEF Facts
  <2> QED
    BY <1>1, <2>1 DEF Voice, AloneUnheld
<1> QED
  BY <1>2, <1>3, <1>4, <1>5 DEF Voice

LEMMA VoiceOpens ==
    ASSUME Founded, Quiet, Voice, OpenBackup \/ OpenCross \/ \E model \in Spare : Widen(model)
    PROVE  Voice'
<1>0. RaceTyped /\ Facts /\ WinnerStands
  BY FoundedFacts
<1>1. pc = "racing" /\ UNCHANGED <<queue, pc, winner, out>> /\ winner = 0
  BY <1>0, OpensEffect DEF WinnerStands
<1>2. OutInOrder' /\ Whole'
  BY <1>1 DEF Voice, OutInOrder, Whole
<1>3. CASE UNCHANGED legs
  BY <1>1, <1>2, <1>3 DEF Voice, Trails, Heeded, AloneUnheld, Legs
<1>4. ASSUME NEW model \in Models, Joins(model) PROVE Voice'
  <2> DEFINE new == Len(legs) + 1
  <2>1. /\ \A j \in Legs : legs'[j] = legs[j]
        /\ legs'[new] = Leg(model) /\ Legs' = 1..new
        /\ \A j \in Legs' : j \in Legs \/ j = new
    BY <1>0, <1>4, JoinsType
  <2>2. new \in Nat /\ new > 1 /\ new \notin Legs
    BY <1>0 DEF Facts
  <2>3. TrailOf(new, 0, out, Leg(model), queue)
    <3>1. /\ Leg(model).buffer = <<>> /\ Leg(model).sent = 0 /\ Leg(model).done = FALSE
          /\ Len(<<>>) = 0
      BY DEF Leg
    <3>2. NoneQueued(new, queue)
      BY <1>0, <2>2 DEF Facts, NoneQueued
    <3> HIDE DEF new
    <3>3. GivenUpTo(new, 0, out)
      <4>1. \A k \in 1..Len(out) : out[k].leg = 1
        BY <1>1 DEF Voice, OutInOrder, InOrder
      <4>2. ASSUME NEW n, NEW k \in 1..Len(out), Is(out[k], new, n) PROVE FALSE
        BY <2>2, <4>1, <4>2 DEF Is
      <4> QED
        BY <4>2 DEF GivenUpTo
    <3>4. HeldNext(new, 0, <<>>)
      BY <3>1 DEF HeldNext
    <3>5. QueueTrail(new, 0, 0, queue)
      BY <3>2 DEF QueueTrail, NoneQueued
    <3> QED
      BY <3>1, <3>2, <3>3, <3>4, <3>5 DEF TrailOf
  <2>4. Trails'
    <3>1. ASSUME NEW j \in Legs PROVE \E a \in Nat : TrailOf(j, a, out, legs'[j], queue)
      BY <1>1, <2>1 DEF Voice, Trails, Heeded
    <3>2. \E a \in Nat : TrailOf(new, a, out, legs'[new], queue)
      BY <2>1, <2>3
    <3> HIDE DEF new
    <3> QED
      BY <1>1, <2>1, <3>1, <3>2 DEF Trails
  <2>5. AloneUnheld'
    BY <2>1, <2>2 DEF AloneUnheld
  <2> QED
    BY <1>2, <2>4, <2>5 DEF Voice
<1> QED
  BY <1>0, <1>3, <1>4, OpenedLegs

\* What is taken from the queue while the race runs: a chunk is held, an end
\* ends its leg's trail.
LEMMA TrailTaken ==
    ASSUME Founded, Voice, pc = "racing", queue # <<>>, NEW item, item = Head(queue), NEW j \in Legs
    PROVE  /\ item.kind \in Spoken =>
                 \E a \in Nat : TrailOf(j, a, out, Kept(item)[j], Tail(queue))
           /\ item.kind \notin Spoken =>
                 \E a \in Nat : TrailOf(j, a, out, EndedBy(item)[j], Tail(queue))
<1>0. RaceTyped /\ LegsTyped /\ QueueTyped
  BY FoundedFacts
<1>1. /\ queue \in Seq(Items) /\ j \in Nat /\ legs[j].sent \in Nat /\ Len(legs[j].buffer) \in Nat
      /\ legs[j].buffer \in Seq(Items)
  BY VoiceTypes
<1>2. PICK a \in Nat : TrailOf(j, a, out, legs[j], queue)
  BY DEF Voice, Trails, Heeded
<1> DEFINE h == a + Len(legs[j].buffer)
<1>3. /\ h \in Nat /\ h <= legs[j].sent /\ GivenUpTo(j, a, out) /\ HeldNext(j, a, legs[j].buffer)
      /\ QueueTrail(j, h, legs[j].sent, queue) /\ (legs[j].done => NoneQueued(j, queue))
  BY <1>1, <1>2 DEF TrailOf
<1> HIDE DEF h
<1>4. /\ NoneQueued(j, queue) => NoneQueued(j, Tail(queue))
      /\ item.leg # j => QueueTrail(j, h, legs[j].sent, Tail(queue))
      /\ item.leg = j /\ item.kind \in Spoken =>
            /\ item.n = h + 1 /\ h + 1 <= legs[j].sent
            /\ QueueTrail(j, h + 1, legs[j].sent, Tail(queue))
      /\ item.leg = j /\ item.kind \notin Spoken =>
            NoneQueued(j, Tail(queue)) /\ QueueTrail(j, h, legs[j].sent, Tail(queue))
  BY <1>1, <1>3, TakeTrail
<1>5. item.leg = j => ~legs[j].done
  <2>1. Head(queue) = queue[1] /\ 1 \in 1..Len(queue)
    BY <1>1, Rest
  <2> QED
    BY <1>3, <2>1 DEF NoneQueued
<1>6. /\ Kept(item)[j].done = legs[j].done /\ Kept(item)[j].sent = legs[j].sent
      /\ Kept(item)[j].buffer = IF j = item.leg
                                THEN Append(legs[j].buffer, item)
                                ELSE legs[j].buffer
  BY <1>0, KeptFields
<1>7. /\ EndedBy(item)[j].sent = legs[j].sent /\ EndedBy(item)[j].buffer = legs[j].buffer
      /\ j # item.leg => EndedBy(item)[j].done = legs[j].done
  BY <1>0, EndedFields
<1>8. CASE item.leg # j
  BY <1>3, <1>4, <1>6, <1>7, <1>8 DEF TrailOf, h
<1>9. CASE item.leg = j /\ item.kind \notin Spoken
  BY <1>3, <1>4, <1>7, <1>9 DEF TrailOf, h
<1>10. CASE item.leg = j /\ item.kind \in Spoken
  <2> DEFINE buffer == Append(legs[j].buffer, item)
  <2>1. item \in Items /\ item.n = h + 1
    BY <1>0, <1>4, <1>10, NextItem
  <2>2. /\ Len(buffer) = Len(legs[j].buffer) + 1
        /\ \A k \in 1..Len(legs[j].buffer) : buffer[k] = legs[j].buffer[k]
        /\ buffer[Len(legs[j].buffer) + 1] = item
        /\ \A k \in 1..Len(buffer) : k \in 1..Len(legs[j].buffer) \/ k = Len(legs[j].buffer) + 1
    BY <1>1, <2>1, Appended
  <2>3. Is(item, j, a + (Len(legs[j].buffer) + 1))
    BY <1>1, <1>10, <2>1 DEF h, Is
  <2>4. Kept(item)[j].buffer = buffer
    BY <1>6, <1>10
  <2> HIDE DEF buffer
  <2>5. HeldNext(j, a, buffer)
    BY <1>3, <2>2, <2>3 DEF HeldNext
  <2>6. a + Len(buffer) = h + 1
    BY <1>1, <2>2 DEF h
  <2> QED
    BY <1>3, <1>4, <1>5, <1>6, <1>10, <2>4, <2>5, <2>6 DEF TrailOf
<1> QED
  BY <1>8, <1>9, <1>10

LEMMA VoiceDecide ==
    ASSUME Founded, Voice, pc = "racing", queue # <<>>, NEW ls, Took(ls), NEW w \in 0..Len(legs),
           Decide(ls, w), UNCHANGED out, queue' = IF pc' = "failed" THEN <<>> ELSE Tail(queue),
           \A j \in Legs : \E a \in Nat : TrailOf(j, a, out, ls[j], Tail(queue))
    PROVE  Voice'
<1>0. RaceTyped /\ Facts /\ WinnerStands
  BY FoundedFacts
<1>1. /\ Legs' = Legs /\ \A i \in Legs : SameLeg(legs'[i], ls[i])
      /\ winner' = w /\ pc' = (IF w = 0 THEN "failed" ELSE "answering")
  BY <1>0, DecideType DEF Took
<1>2. winner = 0
  BY <1>0 DEF WinnerStands
<1>3. \A k \in 1..Len(out) : out[k].leg = 1 /\ out[k].kind = "quiet"
  BY <1>2 DEF Voice, OutInOrder, InOrder
<1>4. OutInOrder'
  <2>1. Len(out) \in Nat
    BY VoiceTypes, EmptyLen
  <2>2. \A k \in 1..Len(out) : \A j \in 1..k : j \in 1..Len(out)
    BY <2>1
  <2> QED
    BY <1>1, <1>3, <2>2 DEF Voice, OutInOrder, InOrder
<1>5. Whole' /\ AloneUnheld'
  BY <1>1 DEF Whole, AloneUnheld
<1>6. Trails'
  <2>1. ASSUME NEW j \in Legs, pc' = "answering"
        PROVE  \E a \in Nat : TrailOf(j, a, out, legs'[j], queue')
    <3>1. PICK a \in Nat : TrailOf(j, a, out, ls[j], queue')
      BY <2>1
    <3>2. TrailOf(j, a, out, legs'[j], queue')
      BY <1>1, <3>1, SameTrail DEF SameLeg
    <3> QED
      BY <3>2
  <2>2. \A j \in Legs : Heeded(j)' => pc' = "answering"
    BY <1>1 DEF Heeded
  <2> QED
    BY <1>1, <2>1, <2>2 DEF Trails
<1> QED
  BY <1>4, <1>5, <1>6 DEF Voice

LEMMA VoiceReceive ==
    ASSUME Founded, Voice, Receive PROVE Voice'
<1> DEFINE item == Head(queue)
<1>0. RaceTyped /\ LegsTyped /\ QueueTyped /\ Facts /\ WinnerStands /\ item = Head(queue)
  BY FoundedFacts
<1> HIDE DEF item
<1>1. /\ pc = "racing" /\ queue # <<>> /\ winner = 0
      /\ queue' = IF pc' = "failed" THEN <<>> ELSE Tail(queue)
  BY <1>0, ReceiveCases DEF WinnerStands
<1>2. item.leg \in Legs
  BY <1>0, <1>1, NextItem
<1>3. Legs = 1..Len(legs) /\ Len(legs) \in Nat \ {0} /\ item.leg \in 0..Len(legs)
  BY <1>0, <1>2 DEF Facts
<1>4. PICK ls : Took(ls) /\ ls = Kept(item)
  <2>1. /\ Kept(item) \in Seq(LegType) /\ Len(Kept(item)) = Len(legs) /\ DOMAIN Kept(item) = Legs
    BY <1>0, <1>1, KeptType
  <2>2. ASSUME NEW j \in Legs
        PROVE  /\ Kept(item)[j].model = legs[j].model /\ Kept(item)[j].stop = legs[j].stop
               /\ Kept(item)[j].thread = legs[j].thread /\ Kept(item)[j].sent = legs[j].sent
    BY <1>0, <1>1, KeptFields
  <2> QED
    BY <2>1, <2>2 DEF Took
<1>5. PICK le : Took(le) /\ le = EndedBy(item)
  <2>1. /\ EndedBy(item) \in Seq(LegType) /\ Len(EndedBy(item)) = Len(legs)
        /\ DOMAIN EndedBy(item) = Legs
    BY <1>0, <1>1, EndedType
  <2>2. ASSUME NEW j \in Legs
        PROVE  /\ EndedBy(item)[j].model = legs[j].model /\ EndedBy(item)[j].stop = legs[j].stop
               /\ EndedBy(item)[j].thread = legs[j].thread /\ EndedBy(item)[j].sent = legs[j].sent
    BY <1>0, <1>1, EndedFields
  <2> QED
    BY <2>1, <2>2 DEF Took
<1>6. item.kind \in Spoken => \A j \in Legs : \E a \in Nat : TrailOf(j, a, out, ls[j], Tail(queue))
  BY <1>0, <1>1, <1>4, TrailTaken
<1>7. item.kind \in Failures \cup {"end"} =>
        \A j \in Legs : \E a \in Nat : TrailOf(j, a, out, le[j], Tail(queue))
  <2>1. item.kind \in Failures \cup {"end"} => item.kind \notin Spoken
    BY StreamRaceAssumption DEF StreamRaceAssumption, Spoken
  <2> QED
    BY <1>0, <1>1, <1>5, <2>1, TrailTaken
<1>8. CASE item.kind = "word" /\ Decide(ls, item.leg) /\ UNCHANGED out
  BY <1>1, <1>3, <1>4, <1>6, <1>8, VoiceDecide DEF Spoken
<1>9. CASE item.kind \in Failures \cup {"end"} /\ Decide(le, Silent(le)) /\ UNCHANGED out
  <2>1. Silent(le) \in 0..Len(legs)
    BY <1>3, <1>5, SilentLeg DEF Took
  <2> QED
    BY <1>1, <1>5, <1>7, <1>9, <2>1, VoiceDecide
<1>10. ASSUME UNCHANGED <<out, pc, winner>>, Legs' = Legs,
              \A j \in Legs : \E a \in Nat : TrailOf(j, a, out, legs'[j], Tail(queue)),
              2 \in Legs \/ legs'[1].buffer = legs[1].buffer
       PROVE  Voice'
  <2>1. Trails' /\ Whole'
    BY <1>1, <1>10 DEF Trails, Whole
  <2>2. OutInOrder'
    BY <1>10 DEF Voice, OutInOrder
  <2>3. AloneUnheld'
    BY <1>1, <1>10 DEF Voice, AloneUnheld
  <2> QED
    BY <2>1, <2>2, <2>3 DEF Voice
<1>11. CASE item.kind = "quiet" /\ ~Alone /\ legs' = ls /\ UNCHANGED <<out, pc, winner, told>>
  <2>1. 2 \in Legs
    <3>1. Len(legs) # 1
      BY <1>11 DEF Alone
    <3> QED
      BY <1>3, <3>1, SecondOf
  <2>2. Legs' = Legs
    BY <1>4, <1>11 DEF Took, Legs
  <2> QED
    BY <1>6, <1>10, <1>11, <2>1, <2>2 DEF Spoken
<1>12. CASE item.kind \in Failures \cup {"end"} /\ legs' = le /\ UNCHANGED <<out, pc, winner, told>>
  <2>1. 1 \in Legs
    BY <1>3
  <2>2. le[1].buffer = legs[1].buffer
    BY <1>0, <1>1, <1>5, <2>1, EndedFields
  <2>3. Legs' = Legs
    BY <1>5, <1>12 DEF Took, Legs
  <2> QED
    BY <1>7, <1>10, <1>12, <2>2, <2>3
<1>13. CASE item.kind = "quiet" /\ Alone /\ out' = Append(out, item)
            /\ UNCHANGED <<legs, pc, winner, told>>
  <2>1. Legs = {1} /\ item.leg = 1 /\ 2 \notin Legs /\ Legs' = Legs
    BY <1>2, <1>3, <1>13 DEF Alone, Legs
  <2>2. legs[1].buffer = <<>> /\ Len(<<>>) = 0
    BY <1>1, <2>1 DEF Voice, AloneUnheld
  <2>3. PICK a \in Nat : TrailOf(1, a, out, legs[1], queue)
    BY <1>1, <2>1 DEF Voice, Trails, Heeded
  <2>4. /\ queue \in Seq(Items) /\ out \in Seq(Items) /\ legs[1].sent \in Nat
    BY <2>1, VoiceTypes
  <2>5. a <= legs[1].sent /\ GivenUpTo(1, a, out) /\ QueueTrail(1, a, legs[1].sent, queue)
        /\ (legs[1].done => NoneQueued(1, queue))
    BY <2>2, <2>3 DEF TrailOf
  <2>6. /\ NoneQueued(1, queue) => NoneQueued(1, Tail(queue))
        /\ item.n = a + 1 /\ a + 1 <= legs[1].sent
        /\ QueueTrail(1, a + 1, legs[1].sent, Tail(queue))
    BY <1>0, <1>1, <1>13, <2>1, <2>4, <2>5, TakeTrail DEF Spoken
  <2>7. InOrder(out, 0)
    BY <1>1 DEF Voice, OutInOrder
  <2>8. GivenUpTo(1, a + 1, out') /\ InOrder(out', 0)
    <3>1. item \in Items /\ Is(item, 1, a + 1)
      BY <1>0, <1>1, <2>1, <2>6, NextItem DEF Is
    <3> QED
      BY <1>13, <2>4, <2>5, <2>7, <3>1, GiveOne
  <2>9. TrailOf(1, a + 1, out', legs[1], Tail(queue))
    BY <2>2, <2>5, <2>6, <2>8 DEF TrailOf, HeldNext
  <2>10. Trails' /\ Whole'
    <3>1. a + 1 \in Nat /\ queue' = Tail(queue)
      BY <1>1, <1>13
    <3> QED
      BY <1>1, <1>13, <2>1, <2>9, <3>1 DEF Trails, Whole
  <2>11. OutInOrder' /\ AloneUnheld'
    BY <1>1, <1>13, <2>1, <2>2, <2>8 DEF OutInOrder, AloneUnheld
  <2> QED
    BY <2>10, <2>11 DEF Voice
<1> QED
  BY <1>0, <1>4, <1>5, <1>8, <1>9, <1>11, <1>12, <1>13, ReceiveCases

LEMMA VoiceReader ==
    ASSUME Founded, Voice, ReadHeld \/ ReadDone \/ ReadNext
    PROVE  Voice'
<1>0. RaceTyped /\ Facts
  BY FoundedFacts
<1>1. /\ pc = "answering" /\ winner \in Legs /\ winner' = winner /\ Legs' = Legs
      /\ legs'[winner].sent = legs[winner].sent /\ legs'[winner].done = legs[winner].done
  BY ReaderLegs
<1> DEFINE buffer == legs[winner].buffer
           sent == legs[winner].sent
<1>2. /\ queue \in Seq(Items) /\ out \in Seq(Items) /\ winner \in Nat \ {0} /\ sent \in Nat
      /\ buffer \in Seq(Items) /\ Len(buffer) \in Nat
  BY <1>1, VoiceTypes
<1>3. PICK a \in Nat : TrailOf(winner, a, out, legs[winner], queue)
  BY <1>1 DEF Voice, Trails, Heeded
<1>4. /\ a + Len(buffer) <= sent /\ GivenUpTo(winner, a, out) /\ HeldNext(winner, a, buffer)
      /\ QueueTrail(winner, a + Len(buffer), sent, queue)
      /\ legs[winner].done => NoneQueued(winner, queue)
      /\ InOrder(out, winner)
  BY <1>3 DEF TrailOf, Voice, OutInOrder
<1>5. buffer = <<>> => Len(buffer) = 0 /\ a + Len(buffer) = a
  BY <1>2, EmptyLen
<1> HIDE DEF buffer, sent
<1>6. ASSUME NEW b \in Nat, TrailOf(winner, b, out', legs'[winner], queue'), InOrder(out', winner),
             pc' = "answering"
      PROVE  Voice'
  <2>1. Trails'
    BY <1>1, <1>6 DEF Trails, Heeded
  <2>2. OutInOrder' /\ Whole' /\ AloneUnheld'
    BY <1>1, <1>6 DEF OutInOrder, Whole, AloneUnheld
  <2> QED
    BY <2>1, <2>2 DEF Voice
<1>7. ASSUME buffer = <<>>, sent <= a, pc' = "finished", UNCHANGED out PROVE Voice'
  <2>1. ASSUME NEW n \in 1..sent PROVE \E k \in 1..Len(out) : Is(out[k], winner, n)
    <3>1. n \in Nat /\ n \in 1..a
      BY <1>2, <1>7
    <3> QED
      BY <1>4, <3>1 DEF GivenUpTo
  <2>2. DOMAIN out = 1..Len(out)
    BY <1>2, EmptyLen
  <2>3. Whole'
    BY <1>1, <1>7, <2>1, <2>2 DEF Whole, Given, Is, sent
  <2>4. OutInOrder' /\ AloneUnheld' /\ Trails'
    BY <1>1, <1>4, <1>7 DEF OutInOrder, AloneUnheld, Trails, Heeded
  <2> QED
    BY <2>3, <2>4 DEF Voice
<1>8. CASE ReadHeld
  <2>1. /\ out' = out \o buffer /\ legs' = [legs EXCEPT ![winner].buffer = <<>>]
        /\ UNCHANGED <<pc, queue>>
    BY <1>8 DEF ReadHeld, buffer
  <2>2. legs'[winner].buffer = <<>> /\ Len(<<>>) = 0
    <3>1. winner \in DOMAIN legs /\ legs[winner] \in LegType
      BY <1>0, <1>1 DEF Facts, Legs
    <3>2. legs'[winner] = [legs[winner] EXCEPT !.buffer = <<>>]
      BY <2>1, <3>1
    <3> QED
      BY <3>1, <3>2 DEF LegType
  <2>3. GivenUpTo(winner, a + Len(buffer), out') /\ InOrder(out', winner)
    BY <1>2, <1>4, <2>1, GiveHeld
  <2>4. a + Len(buffer) \in Nat /\ a + Len(buffer) + Len(<<>>) = a + Len(buffer)
    BY <1>2, <2>2
  <2>5. HeldNext(winner, a + Len(buffer), <<>>)
    BY <2>2 DEF HeldNext
  <2>6. TrailOf(winner, a + Len(buffer), out', legs'[winner], queue')
    BY <1>1, <1>4, <2>1, <2>2, <2>3, <2>4, <2>5 DEF TrailOf, sent
  <2> QED
    BY <1>1, <1>6, <2>1, <2>3, <2>4, <2>6
<1>9. CASE ReadDone
  <2>1. buffer = <<>> /\ legs[winner].done /\ pc' = "finished" /\ UNCHANGED out
    BY <1>9 DEF ReadDone, Finished, buffer
  <2>2. sent <= a
    <3>1. ASSUME a < sent PROVE FALSE
      <4>1. a + 1 \in a + 1..sent
        BY <1>2, <3>1
      <4> QED
        BY <1>4, <1>5, <2>1, <4>1 DEF QueueTrail, NoneQueued
    <3> QED
      BY <1>2, <3>1
  <2> QED
    BY <1>7, <2>1, <2>2
<1>10. CASE ReadNext
  <2> DEFINE item == Head(queue)
  <2>1. /\ buffer = <<>> /\ queue # <<>> /\ ~legs[winner].done /\ UNCHANGED legs
        /\ queue' = (IF pc' = "finished" THEN <<>> ELSE Tail(queue))
        /\ \/ item.leg # winner /\ UNCHANGED <<pc, out>>
           \/ /\ item.leg = winner /\ item.kind \in Spoken
              /\ out' = Append(out, item) /\ UNCHANGED pc
           \/ /\ item.leg = winner /\ item.kind \in Failures \cup {"end"}
              /\ pc' = "finished" /\ UNCHANGED out
    BY <1>10 DEF ReadNext, Finished, buffer, Spoken
  <2>2. /\ item.leg # winner => QueueTrail(winner, a, sent, Tail(queue))
        /\ item.leg = winner /\ item.kind \in Spoken =>
              item.n = a + 1 /\ a + 1 <= sent /\ QueueTrail(winner, a + 1, sent, Tail(queue))
        /\ item.leg = winner /\ item.kind \notin Spoken => sent <= a
    <3>1. winner \in Nat /\ queue # <<>> /\ QueueTrail(winner, a, sent, queue)
      BY <1>2, <1>4, <1>5, <2>1
    <3> QED
      BY <1>2, <1>4, <3>1, TakeTrail
  <2>3. legs'[winner].buffer = <<>> /\ Len(<<>>) = 0 /\ HeldNext(winner, a + 1, <<>>)
        /\ HeldNext(winner, a, <<>>) /\ ~legs'[winner].done
    BY <2>1 DEF buffer, HeldNext
  <2> HIDE DEF item
  <2>4. CASE item.leg # winner /\ UNCHANGED <<pc, out>>
    <3>1. queue' = Tail(queue)
      BY <1>1, <2>1, <2>4
    <3>2. TrailOf(winner, a, out', legs'[winner], queue')
      BY <1>1, <1>4, <1>5, <2>1, <2>2, <2>3, <2>4, <3>1 DEF TrailOf, sent
    <3> QED
      BY <1>1, <1>4, <1>6, <2>4, <3>2
  <2>5. CASE /\ item.leg = winner /\ item.kind \in Spoken
             /\ out' = Append(out, item) /\ UNCHANGED pc
    <3>1. queue' = Tail(queue) /\ item.n = a + 1 /\ a + 1 \in Nat
      BY <1>1, <2>1, <2>2, <2>5
    <3>2. GivenUpTo(winner, a + 1, out') /\ InOrder(out', winner)
      <4>1. item \in Items /\ Is(item, winner, a + 1)
        BY <1>0, <2>1, <2>5, <3>1, NextItem DEF Is, RaceTyped, item
      <4> QED
        BY <1>2, <1>4, <2>5, <3>1, <4>1, GiveOne
    <3>3. TrailOf(winner, a + 1, out', legs'[winner], queue')
      BY <1>1, <2>2, <2>3, <2>5, <3>1, <3>2 DEF TrailOf, sent
    <3> QED
      BY <1>1, <1>6, <2>5, <3>1, <3>2, <3>3
  <2>6. CASE /\ item.leg = winner /\ item.kind \in Failures \cup {"end"}
             /\ pc' = "finished" /\ UNCHANGED out
    <3>1. item.kind \notin Spoken
      BY <2>6, StreamRaceAssumption DEF StreamRaceAssumption, Spoken
    <3> QED
      BY <1>7, <2>1, <2>2, <2>6, <3>1
  <2> QED
    BY <2>1, <2>4, <2>5, <2>6 DEF item
<1> QED
  BY <1>8, <1>9, <1>10

LEMMA VoiceStep == Founded /\ Quiet /\ Voice /\ [Next]_vars => Voice'
<1> SUFFICES ASSUME Founded, Quiet, Voice, [Next]_vars PROVE Voice'
  OBVIOUS
<1>1. CASE UNCHANGED <<legs, queue, pc, winner, out>>
  BY <1>1 DEF Voice, Trails, Heeded, OutInOrder, Whole, Given, AloneUnheld, Legs
<1>2. UNCHANGED vars \/ KeepWaiting \/ NoHandOver => UNCHANGED <<legs, queue, pc, winner, out>>
  BY DEF vars, KeepWaiting, NoHandOver
<1>3. CASE HandOver \/ Stopped \/ CloseReply
  <2>1. pc' \in {"handed over", "stopped"} /\ UNCHANGED <<winner, out>>
    BY <1>3 DEF HandOver, Stopped, CloseReply
  <2>2. Trails' /\ Whole' /\ AloneUnheld'
    BY <2>1 DEF Trails, Heeded, Whole, AloneUnheld
  <2>3. OutInOrder'
    BY <2>1 DEF Voice, OutInOrder
  <2> QED
    BY <2>2, <2>3 DEF Voice
<1> QED
  BY <1>1, <1>2, <1>3, VoiceLegStep, VoiceOpens, VoiceReceive, VoiceReader DEF Next, RaceStep

LEMMA VoiceInitial == Init => Voice
<1> SUFFICES ASSUME Init PROVE Voice
  OBVIOUS
<1>1. /\ Legs = {1} /\ legs[1].buffer = <<>> /\ legs[1].sent = 0 /\ legs[1].done = FALSE
      /\ queue = <<>> /\ out = <<>> /\ pc = "racing" /\ Len(<<>>) = 0
  BY DEF Init, Legs, Leg
<1>2. TrailOf(1, 0, out, legs[1], queue)
  BY <1>1 DEF TrailOf, GivenUpTo, HeldNext, QueueTrail
<1> QED
  BY <1>1, <1>2 DEF Voice, Trails, OutInOrder, InOrder, Whole, AloneUnheld

LEMMA VoiceIsOne == ASSUME Founded, Voice PROVE OneVoice
<1>1. DOMAIN out = 1..Len(out)
  BY VoiceTypes, EmptyLen
<1>2. /\ \A k \in DOMAIN out : out[k].leg # winner =>
            /\ out[k].leg = 1 /\ out[k].kind = "quiet"
            /\ \A j \in 1..k : out[j].leg # winner
      /\ \A j, k \in DOMAIN out : j < k /\ out[j].leg = out[k].leg => out[j].n < out[k].n
  BY <1>1 DEF Voice, OutInOrder, InOrder
<1>3. ASSUME NEW k \in DOMAIN out, NEW n \in 1..out[k].n PROVE Given(out[k].leg, n)
  <2>1. PICK m \in 1..Len(out) : Is(out[m], out[k].leg, n)
    BY <1>1, <1>3 DEF Voice, OutInOrder, InOrder
  <2>2. m \in DOMAIN out /\ out[m].leg = out[k].leg /\ out[m].n = n
    BY <1>1, <2>1 DEF Is
  <2> QED
    BY <2>2 DEF Given
<1>4. pc = "finished" => \A n \in 1..legs[winner].sent : Given(winner, n)
  BY DEF Voice, Whole
<1> QED
  BY <1>2, <1>3, <1>4 DEF OneVoice

\* The reader hears one leg: from the winner's first chunk on nothing else is
\* given, before it only word-less chunks of the primary, and each of the two
\* from its start, once and in order, across the hand-off from the race to the
\* reply, the winner's to its end (transport.py:4043-4054, 5786-5803).
THEOREM OneVoiceIsHeard == Spec => []OneVoice
<1>1. Founded /\ Voice => OneVoice
  BY VoiceIsOne
<1> QED
  BY <1>1, RaceTypeCorrect, QuietKept, VoiceInitial, VoiceStep, PTL DEF Spec
=============================================================================

--------------------------- MODULE TurnLoopProofs ---------------------------
(***************************************************************************)
(* Theorems about TurnLoop, for every pool, list of models, budget and     *)
(* provider: what Hermes sees of a call is a reply (it implements Reply),  *)
(* one model gives it, and continuations that add nothing come to an end.  *)
(***************************************************************************)
EXTENDS TurnLoop, TLAPS, FiniteSetTheorems

Ats     == [model : Models, verdicts : [Keys -> PoolKinds \cup {"none"}],
            timeouts : 0..2, busy : SUBSET Keys]
Walks   == [visited : SUBSET Models, excluded : SUBSET Models, plain : SUBSET Models]
Saids   == [seen : Nat, shown : Nat, text : BOOLEAN]
ToolBox == [held : BOOLEAN, carried : BOOLEAN, cut : SUBSET Keys, replay : BOOLEAN]
Seams   == [resumes : Nat, stalled : SUBSET Keys]
Proofs  == [Keys -> [model : Models, kind : PoolKinds \cup {"none"}]]
Places  == {"start", "loop", "open", "wait", "done"}
Endings == {"open", "given", "cut", "dropped", "handed", "stopped", "expired"}

\* TypeOK by name, and that an attempt in flight is on a key.
Typed ==
    /\ pc \in Places /\ ending \in Endings
    /\ job \in [channel : Channels, stream : BOOLEAN]
    /\ key \in Keys \cup {NoKey} /\ (pc = "open" => key \in Keys)
    /\ at \in Ats /\ walk \in Walks /\ said \in Saids /\ tool \in ToolBox /\ stitch \in Seams
    /\ empties \in Nat /\ asked \in 0..MaxAux /\ idle \in Nat
    /\ stop \in BOOLEAN /\ finished \in BOOLEAN
    /\ tools \in {"none", "whole", "half"}
    /\ proof \in Proofs

LEMMA TypedIsTypeOK == Typed => TypeOK
BY DEF Typed, TypeOK, Ats, Walks, Saids, ToolBox, Seams, Proofs, Places, Endings

LEMMA FreshType == ASSUME NEW m \in Models PROVE FreshAt(m) \in Ats /\ FreshAt(m).model = m
BY DEF FreshAt, Ats

LEMMA MoveType ==
    ASSUME Typed, NEW m \in Models, MoveTo(m)
    PROVE  at' \in Ats /\ walk' \in Walks
<1>1. at' \in Ats
  BY FreshType DEF MoveTo
<1>2. walk' \in Walks
  BY DEF MoveTo, Typed, Walks, Ats
<1> QED
  BY <1>1, <1>2

LEMMA RefusalType ==
    ASSUME Typed, NEW kind
    PROVE  Refusal(kind) \in [model : Models, kind : PoolKinds \cup {"none"}]
BY LoopAssumption DEF Typed, Ats, Refusal, NoRefusal

LEMMA CandidateType == StandIns \subseteq Models /\ Circles \subseteq Models
BY DEF StandIns, Circles

LEMMA SaidType ==
    ASSUME Typed
    PROVE  /\ Grown \in Nat /\ Tails \subseteq {0, 1}
           /\ \A tail \in Tails : /\ Said(tail) \in Saids
                                  /\ Said(tail).seen = Grown + tail /\ Said(tail).shown = 0
           /\ \A s \in Nat : Stalled(s) \in SUBSET Keys \/ key \notin Keys
BY DEF Typed, Saids, Seams, Grown, Tails, Said, Stalled

LEMMA Updates ==
    /\ \A s \in Saids, n \in Nat, b \in BOOLEAN :
          /\ s.shown + n \in Nat
          /\ [s EXCEPT !.shown = s.shown + n, !.text = b] \in Saids
          /\ [s EXCEPT !.shown = s.shown + n] \in Saids
    /\ \A t \in ToolBox, h, r \in BOOLEAN, K \in SUBSET Keys :
          /\ [t EXCEPT !.held = h] \in ToolBox
          /\ [t EXCEPT !.held = h, !.carried = r] \in ToolBox
          /\ [t EXCEPT !.held = h, !.cut = t.cut \cup K] \in ToolBox
          /\ [t EXCEPT !.held = h, !.cut = t.cut \cup K, !.replay = r] \in ToolBox
<1>1. ASSUME NEW s \in Saids, NEW n \in Nat, NEW b \in BOOLEAN
      PROVE  /\ s.shown + n \in Nat
             /\ [s EXCEPT !.shown = s.shown + n, !.text = b] \in Saids
             /\ [s EXCEPT !.shown = s.shown + n] \in Saids
  <2>1. s.shown + n \in Nat
    BY DEF Saids
  <2>2. \A m \in Nat : [s EXCEPT !.shown = m, !.text = b] \in Saids
    BY DEF Saids
  <2>3. \A m \in Nat : [s EXCEPT !.shown = m] \in Saids
    BY DEF Saids
  <2> QED
    BY <2>1, <2>2, <2>3
<1>2. ASSUME NEW t \in ToolBox, NEW h \in BOOLEAN, NEW r \in BOOLEAN, NEW K \in SUBSET Keys
      PROVE  /\ [t EXCEPT !.held = h] \in ToolBox
             /\ [t EXCEPT !.held = h, !.carried = r] \in ToolBox
             /\ [t EXCEPT !.held = h, !.cut = t.cut \cup K] \in ToolBox
             /\ [t EXCEPT !.held = h, !.cut = t.cut \cup K, !.replay = r] \in ToolBox
  <2>1. t.cut \cup K \in SUBSET Keys
    BY DEF ToolBox
  <2>2. \A C \in SUBSET Keys : [t EXCEPT !.held = h, !.cut = C, !.replay = r] \in ToolBox
    BY DEF ToolBox
  <2>3. \A C \in SUBSET Keys : [t EXCEPT !.held = h, !.cut = C] \in ToolBox
    BY DEF ToolBox
  <2>4. [t EXCEPT !.held = h] \in ToolBox
    BY DEF ToolBox
  <2>5. [t EXCEPT !.held = h, !.carried = r] \in ToolBox
    BY DEF ToolBox
  <2> QED
    BY <2>1, <2>2, <2>3, <2>4, <2>5
<1> QED
  BY <1>1, <1>2

LEMMA AnswerKept ==
    ASSUME Typed, UNCHANGED answer
    PROVE  /\ said' \in Saids /\ tool' \in ToolBox /\ stitch' \in Seams /\ empties' \in Nat
           /\ finished' \in BOOLEAN /\ tools' \in {"none", "whole", "half"} /\ idle' \in Nat
BY DEF Typed, answer

\* ---- Types: the loop's own steps ----

LEMMA TypedLoop == Typed /\ Loop => Typed'
<1> SUFFICES ASSUME Typed, Loop PROVE Typed'
  OBVIOUS
<1> USE DEF Places, Endings
<1>1. CASE Start \/ Resting
  <2>1. at' \in Ats /\ walk' \in Walks
    <3>1. CASE UNCHANGED <<at, walk>>
      BY <3>1 DEF Typed
    <3>2. CASE \E m \in StandIns \cup Circles : MoveTo(m)
      BY <3>2, CandidateType, MoveType
    <3> QED
      BY <1>1, <3>1, <3>2 DEF Start, Resting
  <2>2. pc' \in Places \ {"open"} /\ ending' \in Endings
    BY <1>1 DEF Start, Resting, EndAs, Stay, Typed
  <2>3. UNCHANGED <<job, key, answer, asked, stop, proof>>
    BY <1>1 DEF Start, Resting
  <2> QED
    BY <2>1, <2>2, <2>3, AnswerKept DEF Typed
<1>2. CASE StopAtTop \/ AuxLimit
  <2>1. pc' = "done" /\ ending' \in Endings /\ UNCHANGED <<route, key, answer, asked, stop, proof>>
    BY <1>2 DEF StopAtTop, AuxLimit, EndAs
  <2> QED
    BY <2>1, AnswerKept DEF Typed, route
<1>3. CASE Wake
  <2>1. at' \in Ats
    BY <1>3 DEF Wake, Typed, Ats
  <2>2. pc' \in {"loop", "done"} /\ ending' \in Endings
    BY <1>3 DEF Wake, EndAs, Stay, Typed
  <2>3. UNCHANGED <<job, key, walk, answer, asked, stop, proof>>
    BY <1>3 DEF Wake
  <2> QED
    BY <2>1, <2>2, <2>3, AnswerKept DEF Typed
<1>4. CASE Ask
  <2>1. at' \in Ats
    <3>1. PICK m \in Models : at' = at \/ at' = [FreshAt(m) EXCEPT !.timeouts = at.timeouts]
      BY <1>4 DEF Ask, Typed, Ats
    <3> QED
      BY <3>1 DEF FreshAt, Typed, Ats
  <2>2. asked' \in 0..MaxAux
    BY <1>4, LoopAssumption DEF LoopAssumption, Ask, Typed
  <2>3. said' \in Saids /\ tool' \in ToolBox
    BY <1>4 DEF Ask, Typed, Saids, ToolBox
  <2> QED
    BY <1>4, <2>1, <2>2, <2>3 DEF Ask, Stay, Typed
<1> QED
  BY <1>1, <1>2, <1>3, <1>4 DEF Loop

LEMMA TypedStream == Typed /\ Stream => Typed'
<1> SUFFICES ASSUME Typed, Stream PROVE Typed'
  OBVIOUS
<1>1. CASE StopAtChunk
  <2>1. pc' = "done" /\ ending' \in Endings /\ key' = NoKey
        /\ UNCHANGED <<route, answer, asked, stop, proof>>
    BY <1>1 DEF StopAtChunk, EndAs, Endings
  <2> QED
    BY <2>1, AnswerKept DEF Typed, route, Places
<1>2. CASE Text
  <2>1. PICK new \in {0, 1} : /\ said' = [said EXCEPT !.shown = @ + new, !.text = TRUE]
                              /\ idle' = IF new > 0 THEN 0 ELSE idle
    BY <1>2 DEF Text
  <2>2. said' \in Saids /\ idle' \in Nat
    BY <2>1, Updates DEF Typed
  <2> QED
    BY <1>2, <2>2 DEF Text, Stay, Typed, route
<1>3. CASE ToolPart
  <2>1. tool' \in ToolBox
    BY <1>3 DEF ToolPart, Typed, ToolBox
  <2> QED
    BY <1>3, <2>1 DEF ToolPart, Stay, Typed, route
<1>4. CASE Finish
  <2>0. PICK new \in {0, 1} : /\ said' = [said EXCEPT !.shown = @ + new]
                              /\ idle' = IF new > 0 THEN 0 ELSE idle
    BY <1>4 DEF Finish
  <2>1. said' \in Saids /\ idle' \in Nat
    BY <2>0, Updates DEF Typed
  <2>2. tool' \in ToolBox /\ tools' \in {"none", "whole", "half"}
    BY <1>4 DEF Finish, Typed, ToolBox
  <2> QED
    BY <1>4, <2>1, <2>2 DEF Finish, Stay, Typed, route
<1> QED
  BY <1>1, <1>2, <1>3, <1>4 DEF Stream

\* ---- Types: how an attempt ends ----

\* What every ending leaves well typed, whatever it does next.
Landed ==
    /\ pc' \in {"loop", "done"} /\ ending' \in Endings
    /\ at' \in Ats /\ walk' \in Walks /\ said' \in Saids /\ tool' \in ToolBox /\ stitch' \in Seams
    /\ empties' \in Nat /\ idle' \in Nat
    /\ tools' \in {"none", "whole", "half"} /\ proof' \in Proofs

LEMMA LandedIsTyped ==
    ASSUME Typed, Landed, key' = NoKey, UNCHANGED <<job, asked, stop, finished>>
    PROVE  Typed'
BY DEF Typed, Landed, Places

LEMMA TypedHalfCall ==
    ASSUME Typed, pc = "open", NEW tail \in Tails, NEW clean \in BOOLEAN, HalfCall(tail, clean)
    PROVE  Landed
<1>1. said' \in Saids /\ tail \in {0, 1}
  <2>1. Said(tail) \in Saids /\ tail \in {0, 1}
    BY SaidType
  <2> QED
    BY <2>1 DEF HalfCall
<1>2. tool' \in ToolBox /\ tools' \in {"none", "whole", "half"}
  <2>1. \/ tool' = [tool EXCEPT !.held = FALSE, !.cut = tool.cut \cup {key}, !.replay = TRUE]
        \/ tool' = [tool EXCEPT !.held = FALSE, !.cut = tool.cut \cup {key}]
    BY DEF HalfCall
  <2>2. tool \in ToolBox /\ {key} \in SUBSET Keys
    BY DEF Typed
  <2>3. tool' \in ToolBox
    BY <2>1, <2>2, Updates
  <2> QED
    BY <2>3 DEF HalfCall, Typed
<1>3. idle' \in Nat
  BY <1>1 DEF HalfCall, Typed
<1>4. pc' \in {"loop", "done"} /\ ending' \in Endings
  BY DEF HalfCall, EndAs, Stay, Typed, Endings
<1> QED
  BY <1>1, <1>2, <1>3, <1>4 DEF HalfCall, Landed, Typed

LEMMA TypedContinue ==
    ASSUME Typed, pc = "open", NEW s \in Nat, Continue(s)
    PROVE  /\ stitch' \in Seams /\ idle' \in Nat /\ pc' = "loop" /\ ending' = ending
           /\ stitch'.stalled = Stalled(s) /\ idle' = IF s > 0 THEN 0 ELSE idle + 1
<1>1. stitch.resumes + 1 \in Nat /\ stitch.resumes \in Nat /\ Stalled(s) \in SUBSET Keys
  BY SaidType DEF Typed, Seams
<1> QED
  BY <1>1 DEF Continue, Stay, Typed, Seams

LEMMA TypedCutAnswer ==
    ASSUME Typed, pc = "open", NEW tail \in Tails, CutAnswer(tail)
    PROVE  Landed
<1>1. said' \in Saids /\ said.shown + tail \in Nat
  <2>1. Said(tail) \in Saids /\ tail \in {0, 1} /\ said \in Saids
    BY SaidType DEF Typed
  <2>2. said.shown + tail \in Nat
    BY <2>1, Updates
  <2>3. said' = Said(tail)
    BY DEF CutAnswer
  <2> QED
    BY <2>1, <2>2, <2>3
<1>2. stitch' \in Seams /\ idle' \in Nat /\ pc' \in {"loop", "done"} /\ ending' \in Endings
  <2>1. CASE Continue(said.shown + tail)
    BY <1>1, <2>1, TypedContinue DEF Typed
  <2>2. CASE /\ EndAs("given", "cut short")
             /\ stitch' = [stitch EXCEPT !.stalled = Stalled(said.shown + tail)]
             /\ idle' = IF said.shown + tail > 0 THEN 0 ELSE idle
    BY <1>1, <2>2, SaidType DEF EndAs, Endings, Typed, Seams
  <2> QED
    BY <2>1, <2>2 DEF CutAnswer
<1> QED
  BY <1>1, <1>2 DEF CutAnswer, Landed, Typed

LEMMA TypedEmptyOrGiven ==
    ASSUME Typed, (EmptyAgain /\ empties > 0) \/ GiveAnswer,
           UNCHANGED <<at, walk, tools, proof>>
    PROVE  Landed
BY DEF EmptyAgain, GiveAnswer, EndAs, Stay, Landed, Typed, Endings

LEMMA TypedFailedMidAnswer ==
    ASSUME Typed, pc = "open", NEW tail \in Tails, FailedMidAnswer(tail)
    PROVE  /\ stitch' \in Seams /\ idle' \in Nat /\ pc' \in {"loop", "done"} /\ ending' \in Endings
           /\ at' \in Ats /\ walk' \in Walks
<1>1. said.shown + tail \in Nat
  <2>1. tail \in {0, 1} /\ said.shown \in Nat
    BY SaidType DEF Typed, Saids
  <2> QED
    BY <2>1
<1>2. CASE Continue(said.shown + tail)
  BY <1>1, <1>2, TypedContinue DEF FailedMidAnswer, Typed
<1>3. CASE ~Continue(said.shown + tail)
  <2>1. /\ EndAs("cut", "cut short") /\ UNCHANGED <<stitch, at, walk>>
        /\ idle' = IF said.shown + tail > 0 THEN 0 ELSE idle
    BY <1>3 DEF FailedMidAnswer
  <2> QED
    BY <2>1 DEF EndAs, Endings, Typed
<1> QED
  BY <1>2, <1>3

LEMMA TypedRaises ==
    ASSUME Typed, NEW kind, NEW tail \in Tails, Raises(kind, tail)
    PROVE  /\ stitch' \in Seams /\ idle' \in Nat /\ pc' \in {"loop", "done"} /\ ending' \in Endings
           /\ at' \in Ats /\ walk' \in Walks /\ proof' \in Proofs
<1>1. Home \in Models /\ at.model \in Models
  BY LoopAssumption DEF LoopAssumption, Typed, Ats
<1>2. at' \in Ats
  <2>1. at' = at \/ at' = FreshAt(Home)
    BY DEF Raises
  <2> QED
    BY <1>1, <2>1, FreshType DEF Typed
<1>3. walk' \in Walks
  <2>1. \/ walk' = walk
        \/ walk' = [walk EXCEPT !.visited = @ \cup {at.model}, !.excluded = @ \cup {at.model}]
        \/ walk' = [walk EXCEPT !.plain = @ \cup {at.model}]
    BY DEF Raises
  <2>2. \A w \in Walks, M \in SUBSET Models :
          /\ [w EXCEPT !.visited = w.visited \cup M, !.excluded = w.excluded \cup M] \in Walks
          /\ [w EXCEPT !.plain = w.plain \cup M] \in Walks
    BY DEF Walks
  <2>3. walk \in Walks /\ {at.model} \in SUBSET Models
    BY <1>1 DEF Typed
  <2> QED
    BY <2>1, <2>2, <2>3
<1>4. idle' \in Nat
  BY DEF Raises, Typed
<1>5. pc' \in {"loop", "done"} /\ ending' \in Endings
  BY DEF Raises, EndAs, Stay, Typed, Endings
<1> QED
  BY <1>2, <1>3, <1>4, <1>5 DEF Raises, Typed

LEMMA TypedFailedAtStart ==
    ASSUME Typed, pc = "open", NEW kind, NEW others \in SUBSET Keys, FailedAtStart(kind, others)
    PROVE  /\ pc' \in {"loop", "done"} /\ ending' \in Endings
           /\ at' \in Ats /\ walk' \in Walks /\ proof' \in Proofs
<1> DEFINE refused == others \cup {key}
           v == [k \in Keys |-> IF k \in refused THEN Verdict(kind) ELSE at.verdicts[k]]
           timeouts == IF kind \in TimeoutKinds THEN at.timeouts + 1 ELSE 0
           busy == at.busy \cup (IF kind \in BusyKinds THEN refused ELSE {})
           counted == [at EXCEPT !.verdicts = v, !.busy = busy,
                                 !.timeouts = IF timeouts > 2 THEN 2 ELSE timeouts]
<1>1. Verdict(kind) \in PoolKinds \cup {"none"} /\ refused \in SUBSET Keys
  BY DEF Verdict, Typed
<1>2. v \in [Keys -> PoolKinds \cup {"none"}]
  BY <1>1 DEF Typed, Ats
<1>3. busy \in SUBSET Keys
  BY <1>1 DEF Typed, Ats
<1>4. (IF timeouts > 2 THEN 2 ELSE timeouts) \in 0..2
  BY DEF Typed, Ats
<1>5. counted \in Ats
  <2> HIDE DEF v, busy, timeouts
  <2> QED
    BY <1>2, <1>3, <1>4 DEF Typed, Ats
<1>6. proof' \in Proofs
  <2>1. proof' = [k \in Keys |-> IF k \in refused THEN Refusal(kind) ELSE proof[k]]
    BY DEF FailedAtStart
  <2>2. proof \in Proofs
    BY DEF Typed
  <2>3. Refusal(kind) \in [model : Models, kind : PoolKinds \cup {"none"}]
    BY RefusalType
  <2> HIDE DEF refused
  <2> QED
    BY <2>1, <2>2, <2>3 DEF Proofs
<1>7. \/ UNCHANGED <<at, walk>>
      \/ \E m \in StandIns \cup Circles : MoveTo(m)
      \/ at' = counted /\ walk' = walk
  BY DEF FailedAtStart
<1>8. at' \in Ats /\ walk' \in Walks
  <2>1. CASE UNCHANGED <<at, walk>>
    BY <2>1 DEF Typed
  <2>2. CASE \E m \in StandIns \cup Circles : MoveTo(m)
    BY <2>2, CandidateType, MoveType
  <2>3. CASE at' = counted /\ walk' = walk
    BY <1>5, <2>3 DEF Typed
  <2> QED
    BY <1>7, <2>1, <2>2, <2>3
<1>9. pc' \in {"loop", "done"} /\ ending' \in Endings
  BY DEF FailedAtStart, EndAs, Stay, Typed, Endings
<1> QED
  BY <1>6, <1>8, <1>9

LEMMA TypedFail ==
    ASSUME Typed, pc = "open", NEW kind \in Refusals, NEW tail \in Tails,
           IF tool.held THEN HalfCall(tail, FALSE)
           ELSE /\ said' = Said(tail)
                /\ IF kind \in RaiseKinds THEN Raises(kind, tail)
                   ELSE IF Grown + tail > 0
                   THEN /\ FailedMidAnswer(tail)
                        /\ proof' = [proof EXCEPT ![key] = Refusal(kind)]
                   ELSE \E others \in IF Main THEN SUBSET (Keys \ {key}) ELSE {{}} :
                           FailedAtStart(kind, others)
                /\ UNCHANGED <<tool, empties, tools>>
    PROVE  Landed
<1>1. CASE tool.held
  BY <1>1, TypedHalfCall
<1>2. CASE ~tool.held /\ kind \in RaiseKinds
  BY <1>2, TypedRaises, SaidType DEF Landed, Typed
<1>3. CASE ~tool.held /\ kind \notin RaiseKinds /\ Grown + tail > 0
  <2>1. FailedMidAnswer(tail) /\ UNCHANGED <<tool, empties, tools>> /\ said' = Said(tail)
    BY <1>3
  <2>2. proof' \in Proofs
    <3>1. proof' = [proof EXCEPT ![key] = Refusal(kind)]
      BY <1>3
    <3>2. Refusal(kind) \in [model : Models, kind : PoolKinds \cup {"none"}]
      BY RefusalType
    <3> QED
      BY <3>1, <3>2 DEF Typed, Ats, Proofs
  <2> QED
    BY <2>1, <2>2, TypedFailedMidAnswer, SaidType DEF Landed, Typed
<1>4. CASE ~tool.held /\ kind \notin RaiseKinds /\ ~(Grown + tail > 0)
  <2>1. PICK others \in SUBSET Keys : FailedAtStart(kind, others)
    BY <1>4
  <2>2. UNCHANGED <<tool, empties, tools, stitch, idle>> /\ said' = Said(tail)
    BY <1>4, <2>1 DEF FailedAtStart
  <2> QED
    BY <2>1, <2>2, TypedFailedAtStart, SaidType DEF Landed, Typed
<1> QED
  BY <1>1, <1>2, <1>3, <1>4

LEMMA TypedEnds == Typed /\ Ends => Typed'
<1> SUFFICES ASSUME Typed, Ends PROVE Typed'
  OBVIOUS
<1>1. pc = "open" /\ key' = NoKey /\ UNCHANGED <<job, asked, stop, finished>>
  BY DEF Ends, Answered, Closed, Fail, route
<1>2. CASE Answered
  BY <1>1, <1>2, TypedEmptyOrGiven, LandedIsTyped DEF Answered, route
<1>3. CASE Closed
  <2>1. CASE \E tail \in Tails : HalfCall(tail, TRUE)
    BY <1>1, <2>1, TypedHalfCall, LandedIsTyped
  <2>2. CASE \E tail \in Tails : CutAnswer(tail)
    BY <1>1, <2>2, TypedCutAnswer, LandedIsTyped
  <2>3. CASE ((EmptyAgain /\ empties > 0) \/ GiveAnswer) /\ UNCHANGED <<at, walk, tools, proof>>
    BY <1>1, <2>3, TypedEmptyOrGiven, LandedIsTyped
  <2> QED
    BY <1>3, <2>1, <2>2, <2>3 DEF Closed
<1>4. CASE Fail
  <2>1. PICK kind \in Refusals, tail \in Tails :
          IF tool.held THEN HalfCall(tail, FALSE)
          ELSE /\ said' = Said(tail)
               /\ IF kind \in RaiseKinds THEN Raises(kind, tail)
                  ELSE IF Grown + tail > 0
                  THEN /\ FailedMidAnswer(tail)
                       /\ proof' = [proof EXCEPT ![key] = Refusal(kind)]
                  ELSE \E others \in IF Main THEN SUBSET (Keys \ {key}) ELSE {{}} :
                          FailedAtStart(kind, others)
               /\ UNCHANGED <<tool, empties, tools>>
    BY <1>4 DEF Fail
  <2>2. Landed
    BY <1>1, <2>1, TypedFail
  <2> QED
    BY <1>1, <2>2, LandedIsTyped
<1> QED
  BY <1>2, <1>3, <1>4 DEF Ends

LEMMA TypedInitial == Init => Typed
<1> SUFFICES ASSUME Init PROVE Typed
  OBVIOUS
<1>1. Home \in Models /\ EmptyBudget \in Nat /\ 0 \in 0..MaxAux
  BY LoopAssumption DEF LoopAssumption
<1>2. at \in Ats /\ proof \in Proofs
  BY <1>1, FreshType DEF Init, Proofs, NoRefusal
<1> QED
  BY <1>1, <1>2 DEF Init, Typed, Walks, Saids, ToolBox, Seams, Places, Endings

LEMMA TypedStep == Typed /\ [Next]_vars => Typed'
<1> SUFFICES ASSUME Typed, [Next]_vars PROVE Typed'
  OBVIOUS
<1>1. CASE Cancel
  <2>1. /\ stop' = TRUE
        /\ UNCHANGED <<pc, route, key, answer, asked, proof, ending>>
    BY <1>1 DEF Cancel, Stay
  <2> QED
    BY <2>1, AnswerKept DEF Typed, route
<1>2. CASE UNCHANGED vars
  BY <1>2 DEF vars, Typed
<1> QED
  BY <1>1, <1>2, TypedLoop, TypedStream, TypedEnds DEF Next

\* Every reachable state of a call is well typed.
THEOREM LoopTypeCorrect == Spec => []TypeOK
<1>1. Init => Typed
  BY TypedInitial
<1>2. Typed /\ [Next]_vars => Typed'
  BY TypedStep
<1>3. Typed => TypeOK
  BY TypedIsTypeOK
<1> QED
  BY <1>1, <1>2, <1>3, PTL DEF Spec
-----------------------------------------------------------------------------
(* Between two attempts Hermes has the words of the earlier ones and nothing *)
(* else; within one, a tool call is handed over with the finish. All of it   *)
(* but the words needs that no provider breaks off after its finish.         *)

Sealed == finished /\ ~Nothing

Clean == LateDrops \/ (tools = "none" /\ ~Sealed)

Between ==
    /\ pc \in {"start", "loop", "wait"} => said.shown = 0 /\ Clean
    /\ pc = "start" => said.seen = 0

Within == pc = "open" /\ tools # "none" => LateDrops \/ (finished /\ tools = "whole")

Carried == (tool.held => tool.carried) /\ (tools = "whole" => LateDrops \/ tool.carried)

OpenTillDone == ending = "open" <=> pc # "done"

\* A request that is not streamed shows nothing before its result.
Unseen == ~job.stream => Grown = 0 /\ ~tool.held /\ ~finished

Steady == Between /\ Within /\ Carried /\ OpenTillDone /\ Unseen

LEMMA GrownType ==
    ASSUME Typed
    PROVE  /\ said.seen \in Nat /\ said.shown \in Nat /\ Grown = said.seen + said.shown
           /\ Grown \in Nat /\ (Grown = 0 => said.seen = 0 /\ said.shown = 0)
BY DEF Typed, Saids, Grown

LEMMA SteadyAnswerKept ==
    ASSUME UNCHANGED <<said, tool, finished, tools, job>>
    PROVE  /\ Clean' = Clean /\ Grown' = Grown /\ Carried' = Carried /\ Unseen' = Unseen
BY DEF Clean, Sealed, Nothing, Grown, Carried, Unseen

LEMMA SteadyLoop == Typed /\ Steady /\ Loop => Steady'
<1> SUFFICES ASSUME Typed, Steady, Loop PROVE Steady'
  OBVIOUS
<1>1. CASE Start \/ Resting \/ StopAtTop \/ AuxLimit \/ Wake
  <2>1. UNCHANGED <<said, tool, finished, tools, job>>
    BY <1>1 DEF Start, Resting, StopAtTop, AuxLimit, Wake, answer, route
  <2>2. /\ pc \in {"start", "loop", "wait"} /\ pc' \in {"loop", "wait", "done"}
        /\ pc' = "done" => ending' # "open"
        /\ pc' # "done" => ending' = ending
    BY <1>1 DEF Start, Resting, StopAtTop, AuxLimit, Wake, EndAs, Stay
  <2> QED
    BY <2>1, <2>2, SteadyAnswerKept DEF Steady, Between, Within, OpenTillDone
<1>2. CASE Ask
  <2>1. /\ pc = "loop" /\ pc' = "open" /\ finished' = FALSE /\ ending' = ending
        /\ said' = [said EXCEPT !.shown = 0, !.text = FALSE]
        /\ tool' = [tool EXCEPT !.held = FALSE, !.carried = FALSE]
        /\ UNCHANGED <<tools, job>>
    BY <1>2 DEF Ask, Stay
  <2>2. ~tool'.held /\ (LateDrops \/ tools' = "none")
    BY <2>1 DEF Steady, Between, Clean, Typed, ToolBox
  <2>3. said'.seen = said.seen /\ said'.shown = 0
    BY <2>1 DEF Typed, Saids
  <2>4. Grown' = Grown
    BY <2>1, <2>3, GrownType DEF Steady, Between, Grown
  <2> QED
    BY <2>1, <2>2, <2>4 DEF Steady, Between, Within, Carried, OpenTillDone, Unseen
<1> QED
  BY <1>1, <1>2 DEF Loop

LEMMA SteadyStream == Typed /\ Steady /\ Stream => Steady'
<1> SUFFICES ASSUME Typed, Steady, Stream PROVE Steady'
  OBVIOUS
<1> USE DEF Steady, Between, Within, OpenTillDone
<1>1. CASE StopAtChunk
  BY <1>1, SteadyAnswerKept DEF StopAtChunk, answer, route, EndAs
<1>2. CASE Text
  BY <1>2 DEF Text, Flowing, Stay, route, Carried, Unseen
<1>3. CASE ToolPart
  <2>1. tool'.carried
    BY <1>3 DEF ToolPart, Typed, ToolBox
  <2> QED
    BY <1>3, <2>1 DEF ToolPart, Flowing, Stay, route, Carried, Unseen
<1>4. CASE Finish
  <2>1. /\ pc = "open" /\ pc' = "open" /\ job.stream /\ job' = job /\ ~finished /\ ending' = ending
        /\ tool' = [tool EXCEPT !.held = FALSE] /\ finished' = TRUE
        /\ tools' = IF tool.held THEN "whole" ELSE tools
    BY <1>4 DEF Finish, Flowing, Stay, route
  <2>2. ~tool'.held /\ tool'.carried = tool.carried
    BY <2>1 DEF Typed, ToolBox
  <2> QED
    BY <2>1, <2>2 DEF Carried, Unseen
<1> QED
  BY <1>1, <1>2, <1>3, <1>4 DEF Stream

\* What every ending keeps: the attempt is over, its words are Hermes' words.
LEMMA SteadyLanding ==
    ASSUME Typed, Steady, pc = "open", UNCHANGED <<job, finished>>,
           pc' \in {"loop", "done"},
           pc' = "done" => ending' # "open",
           pc' = "loop" => ending' = ending /\ said'.shown = 0 /\ Clean',
           tool'.held => tool.held, tool'.carried = tool.carried,
           tools' = tools \/ tools' = "half",
           ~job.stream => Grown' = 0
    PROVE  Steady'
BY DEF Steady, Between, Within, Carried, OpenTillDone, Unseen

LEMMA SaidGrows ==
    ASSUME Typed, NEW tail \in Tails, said' = Said(tail)
    PROVE  /\ said'.seen = Grown + tail /\ said'.shown = 0 /\ Grown' = Grown + tail
           /\ tail \in {0, 1} /\ (Grown = 0 => tail = 0) /\ Grown \in Nat
<1>1. /\ tail \in {0, 1} /\ said'.seen = Grown + tail /\ said'.shown = 0 /\ Grown \in Nat
  BY SaidType
<1>2. Grown = 0 => tail = 0
  BY GrownType DEF Tails
<1> QED
  BY <1>1, <1>2 DEF Grown

LEMMA SteadyHalfCall ==
    ASSUME Typed, Steady, pc = "open", finished => LateDrops, NEW tail \in Tails, NEW clean \in BOOLEAN,
           tool.held, HalfCall(tail, clean), UNCHANGED <<job, finished>>
    PROVE  Steady'
<1>1. said'.shown = 0 /\ (LateDrops \/ ~Sealed')
  BY SaidGrows DEF HalfCall, Sealed
<1>2. ~tool'.held /\ tool'.carried = tool.carried
  <2>1. \/ tool' = [tool EXCEPT !.held = FALSE, !.cut = tool.cut \cup {key}, !.replay = TRUE]
        \/ tool' = [tool EXCEPT !.held = FALSE, !.cut = tool.cut \cup {key}]
    BY DEF HalfCall
  <2> QED
    BY <2>1 DEF Typed, ToolBox
<1>3. /\ pc' \in {"loop", "done"}
      /\ pc' = "done" => ending' # "open" /\ tools' = "half"
      /\ pc' = "loop" => ending' = ending /\ tools' = tools
  BY DEF HalfCall, EndAs, Stay
<1>4. (LateDrops \/ tools = "none") /\ job.stream
  BY DEF Steady, Within, Unseen
<1>5. pc' = "loop" => Clean'
  BY <1>1, <1>3, <1>4 DEF Clean
<1> QED
  BY <1>1, <1>2, <1>3, <1>4, <1>5, SteadyLanding

LEMMA SteadyEnds == Typed /\ Steady /\ Ends => Steady'
<1> SUFFICES ASSUME Typed, Steady, Ends PROVE Steady'
  OBVIOUS
<1>0. pc = "open" /\ UNCHANGED <<job, finished>>
  BY DEF Ends, Answered, Closed, Fail, route
<1>1. CASE Answered
  <2>1. UNCHANGED <<said, tool, tools>>
    BY <1>1 DEF Answered, EmptyAgain, GiveAnswer
  <2>2. CASE EmptyAgain
    <3>1. pc' = "loop" /\ ending' = ending
      BY <2>2 DEF EmptyAgain, Stay
    <3>2. CASE job.stream
      <4>1. Nothing
        BY <1>1, <2>2, <3>1, <3>2 DEF Answered, GiveAnswer, EndAs
      <4>2. said.shown = 0 /\ (LateDrops \/ tools = "none")
        BY <1>0, <4>1, GrownType DEF Nothing, Steady, Within, Carried
      <4>3. Clean'
        BY <1>0, <2>1, <4>1, <4>2 DEF Clean, Sealed, Nothing, Grown
      <4> QED
        BY <1>0, <2>1, <3>1, <3>2, <4>2, <4>3, SteadyLanding
    <3>3. CASE ~job.stream
      <4>1. Grown = 0 /\ ~finished /\ (LateDrops \/ tools = "none")
        BY <1>0, <3>3 DEF Steady, Within, Unseen
      <4>2. said.shown = 0 /\ Clean' /\ Grown' = Grown
        BY <1>0, <2>1, <4>1, GrownType DEF Clean, Sealed, Grown
      <4> QED
        BY <1>0, <2>1, <3>1, <4>1, <4>2, SteadyLanding
    <3> QED
      BY <3>2, <3>3
  <2>3. CASE GiveAnswer
    <3>1. pc' = "done" /\ ending' = "given" /\ Grown' = Grown
      BY <2>1, <2>3 DEF GiveAnswer, EndAs, Grown
    <3>2. ~job.stream => Grown = 0
      BY DEF Steady, Unseen
    <3> QED
      BY <1>0, <2>1, <3>1, <3>2, SteadyLanding
  <2> QED
    BY <1>1, <2>2, <2>3 DEF Answered
<1>2. CASE Closed
  <2>1. ~finished /\ job.stream /\ (LateDrops \/ tools = "none")
    BY <1>0, <1>2 DEF Closed, Steady, Within
  <2>2. tools' = tools => Clean'
    BY <1>0, <2>1 DEF Clean, Sealed
  <2>3. PICK tail \in Tails :
          \/ tool.held /\ HalfCall(tail, TRUE)
          \/ CutAnswer(tail)
          \/ /\ Grown + tail = 0 /\ (EmptyAgain \/ GiveAnswer) /\ UNCHANGED tools
    BY <1>2 DEF Closed
  <2>4. CASE tool.held /\ HalfCall(tail, TRUE)
    BY <1>0, <2>1, <2>4, SteadyHalfCall
  <2>5. CASE CutAnswer(tail)
    <3>1. said'.shown = 0 /\ UNCHANGED <<tool, tools>>
      BY <2>5, SaidGrows DEF CutAnswer
    <3>2. \/ pc' = "loop" /\ ending' = ending
          \/ pc' = "done" /\ ending' # "open"
      BY <2>5 DEF CutAnswer, Continue, Stay, EndAs
    <3> QED
      BY <1>0, <2>1, <2>2, <3>1, <3>2, SteadyLanding
  <2>6. CASE Grown + tail = 0 /\ (EmptyAgain \/ GiveAnswer) /\ UNCHANGED tools
    <3>1. UNCHANGED <<said, tool, tools>>
      BY <2>6 DEF EmptyAgain, GiveAnswer
    <3>2. said.shown = 0
      BY <2>6, GrownType, SaidType
    <3>3. \/ pc' = "loop" /\ ending' = ending
          \/ pc' = "done" /\ ending' # "open"
      BY <2>6 DEF EmptyAgain, GiveAnswer, Stay, EndAs
    <3> QED
      BY <1>0, <2>1, <2>2, <3>1, <3>2, <3>3, SteadyLanding
  <2> QED
    BY <2>3, <2>4, <2>5, <2>6
<1>3. CASE Fail
  <2>1. (finished => LateDrops) /\ (LateDrops \/ tools = "none")
    BY <1>0, <1>3 DEF Fail, Steady, Within
  <2>2. PICK kind \in Refusals, tail \in Tails :
          IF tool.held THEN HalfCall(tail, FALSE)
          ELSE /\ said' = Said(tail)
               /\ IF kind \in RaiseKinds THEN Raises(kind, tail)
                  ELSE IF Grown + tail > 0
                  THEN /\ FailedMidAnswer(tail)
                       /\ proof' = [proof EXCEPT ![key] = Refusal(kind)]
                  ELSE \E others \in IF Main THEN SUBSET (Keys \ {key}) ELSE {{}} :
                          FailedAtStart(kind, others)
               /\ UNCHANGED <<tool, empties, tools>>
    BY <1>3 DEF Fail
  <2>3. CASE tool.held
    BY <1>0, <2>1, <2>2, <2>3, SteadyHalfCall
  <2>4. CASE ~tool.held
    <3>1. said' = Said(tail) /\ UNCHANGED <<tool, tools>>
      BY <2>2, <2>4
    <3>2. said'.shown = 0 /\ Clean' /\ (Grown = 0 => Grown' = 0)
      BY <1>0, <2>1, <3>1, SaidGrows DEF Clean, Sealed
    <3>3. \/ pc' = "loop" /\ ending' = ending
          \/ pc' = "done" /\ ending' # "open"
      BY <2>2, <2>4 DEF Raises, FailedMidAnswer, FailedAtStart, Continue, Stay, EndAs
    <3>4. ~job.stream => Grown = 0
      BY DEF Steady, Unseen
    <3> QED
      BY <1>0, <3>1, <3>2, <3>3, <3>4, SteadyLanding
  <2> QED
    BY <2>3, <2>4
<1> QED
  BY <1>1, <1>2, <1>3 DEF Ends

LEMMA SteadyInitial == Init => Steady
BY DEF Init, Steady, Between, Clean, Within, Carried, OpenTillDone, Unseen, Sealed, Grown

LEMMA SteadyStep == Typed /\ Steady /\ [Next]_vars => Steady'
<1> SUFFICES ASSUME Typed, Steady, [Next]_vars PROVE Steady'
  OBVIOUS
<1>1. CASE Cancel \/ UNCHANGED vars
  <2>1. UNCHANGED <<said, tool, finished, tools, job, pc, ending>>
    BY <1>1 DEF Cancel, Stay, answer, route, vars
  <2> QED
    BY <2>1, SteadyAnswerKept DEF Steady, Between, Within, OpenTillDone
<1> QED
  BY <1>1, SteadyLoop, SteadyStream, SteadyEnds DEF Next
-----------------------------------------------------------------------------
(* One model answers: wherever the call may move, the screen is empty.       *)

LEMMA SameModel == Typed /\ Steady /\ [Next]_vars => (Grown > 0 => at'.model = at.model)
<1> SUFFICES ASSUME Typed, Steady, [Next]_vars, Grown > 0 PROVE at'.model = at.model
  OBVIOUS
<1>0. pc \in {"start", "loop", "wait"} => said.seen > 0
  BY GrownType DEF Steady, Between
<1>1. (StandIns = {} /\ Circles = {}) \/ said.seen = 0
  BY DEF StandIns, Circles, Movable
<1>2. CASE UNCHANGED at
  BY <1>2
<1>3. CASE Start \/ Resting
  <2>1. UNCHANGED at \/ \E m \in StandIns \cup Circles : MoveTo(m)
    BY <1>3 DEF Start, Resting
  <2>2. pc \in {"start", "loop", "wait"}
    BY <1>3 DEF Start, Resting
  <2> QED
    BY <1>0, <1>1, <2>1, <2>2 DEF Typed, Saids
<1>4. CASE Ask
  <2>1. ~Raced
    BY <1>0, <1>4 DEF Ask, Raced, Typed, Saids
  <2> QED
    BY <1>4, <2>1 DEF Ask
<1>5. CASE Wake
  BY <1>5 DEF Wake, Typed, Ats
<1>6. CASE Fail
  <2>1. PICK kind \in Refusals, tail \in Tails :
          IF tool.held THEN HalfCall(tail, FALSE)
          ELSE IF kind \in RaiseKinds THEN Raises(kind, tail)
          ELSE IF Grown + tail > 0 THEN FailedMidAnswer(tail)
          ELSE \E others \in SUBSET Keys : FailedAtStart(kind, others)
    BY <1>6 DEF Fail
  <2>2. Grown + tail > 0 /\ Grown # 0
    BY SaidType
  <2> QED
    BY <2>1, <2>2 DEF HalfCall, Raises, FailedMidAnswer
<1> QED
  BY <1>2, <1>3, <1>4, <1>5, <1>6
     DEF Next, Loop, Stream, Ends, StopAtTop, AuxLimit, StopAtChunk, Text, ToolPart, Finish,
         Answered, Closed, HalfCall, CutAnswer, Cancel, vars, route

\* Once a word of the answer is on screen no race, stand-in, circle back or shape
\* refusal moves the call to another model (transport.py:2400-3260).
THEOREM OneModelGivesIt == Spec => OneModelAnswers
<1>1. Init => Typed /\ Steady
  BY TypedInitial, SteadyInitial
<1>2. Typed /\ Steady /\ [Next]_vars => Typed' /\ Steady'
  BY TypedStep, SteadyStep
<1>3. Typed /\ Steady /\ [Next]_vars => [Grown > 0 => at'.model = at.model]_vars
  BY SameModel
<1> QED
  BY <1>1, <1>2, <1>3, PTL DEF Spec, OneModelAnswers
-----------------------------------------------------------------------------
(* Each continuation that adds nothing marks another key.                    *)

EachOnce == idle <= Cardinality(stitch.stalled)

LEMMA StalledCount ==
    ASSUME Typed
    PROVE  /\ IsFiniteSet(stitch.stalled) /\ Cardinality(stitch.stalled) \in Nat
           /\ Cardinality(stitch.stalled) <= Cardinality(Keys) /\ Cardinality(Keys) \in Nat
<1>1. stitch.stalled \subseteq Keys /\ IsFiniteSet(Keys)
  BY LoopAssumption DEF LoopAssumption, Typed, Seams
<1> QED
  BY <1>1, FS_Subset, FS_CardinalityType

LEMMA OnceContinue ==
    ASSUME Typed, EachOnce, pc = "open", NEW s \in Nat, Continue(s),
           s > 0 \/ key \notin stitch.stalled
    PROVE  EachOnce'
<1>1. stitch'.stalled = Stalled(s) /\ idle' = IF s > 0 THEN 0 ELSE idle + 1
  BY TypedContinue
<1>2. CASE s > 0
  BY <1>1, <1>2, FS_EmptySet DEF Stalled, EachOnce
<1>3. CASE ~(s > 0)
  <2>1. stitch'.stalled = stitch.stalled \cup {key} /\ key \notin stitch.stalled
    BY <1>1, <1>3 DEF Stalled
  <2>2. Cardinality(stitch'.stalled) = Cardinality(stitch.stalled) + 1
    BY <2>1, StalledCount, FS_AddElement
  <2> QED
    BY <1>1, <1>3, <2>2, StalledCount DEF EachOnce, Typed
<1> QED
  BY <1>2, <1>3

LEMMA OnceIdle ==
    ASSUME Typed, EachOnce, UNCHANGED stitch, idle' = idle \/ idle' = 0
    PROVE  EachOnce'
BY StalledCount DEF EachOnce

LEMMA OnceCutAnswer ==
    ASSUME Typed, EachOnce, pc = "open", NEW tail \in Tails, CutAnswer(tail)
    PROVE  EachOnce'
<1> DEFINE more == said.shown + tail
<1>1. more \in Nat
  BY SaidType, GrownType
<1>2. CASE Continue(more) /\ (more > 0 \/ key \notin stitch.stalled)
  <2> HIDE DEF more
  <2> QED
    BY <1>1, <1>2, OnceContinue
<1>3. CASE /\ stitch' = [stitch EXCEPT !.stalled = Stalled(more)]
           /\ idle' = IF more > 0 THEN 0 ELSE idle
  <2>1. stitch'.stalled = Stalled(more)
    BY <1>3 DEF Typed, Seams
  <2>2. CASE more > 0
    BY <1>3, <2>1, <2>2, FS_EmptySet DEF Stalled, EachOnce
  <2>3. CASE ~(more > 0)
    <3>1. stitch'.stalled = stitch.stalled \cup {key} /\ idle' = idle
      BY <1>3, <2>1, <2>3 DEF Stalled
    <3>2. Cardinality(stitch'.stalled) \in Nat
          /\ Cardinality(stitch'.stalled) >= Cardinality(stitch.stalled)
      <4>1. CASE key \in stitch.stalled
        <5>1. stitch'.stalled = stitch.stalled
          BY <3>1, <4>1
        <5> QED
          BY <5>1, StalledCount
      <4>2. CASE key \notin stitch.stalled
        <5>1. Cardinality(stitch'.stalled) = Cardinality(stitch.stalled) + 1
          BY <3>1, <4>2, StalledCount, FS_AddElement
        <5> QED
          BY <5>1, StalledCount
      <4> QED
        BY <4>1, <4>2
    <3> QED
      BY <3>1, <3>2, StalledCount DEF EachOnce, Typed
  <2> QED
    BY <2>2, <2>3
<1> QED
  BY <1>2, <1>3 DEF CutAnswer

LEMMA OnceStep == Typed /\ EachOnce /\ [Next]_vars => EachOnce'
<1> SUFFICES ASSUME Typed, EachOnce, [Next]_vars PROVE EachOnce'
  OBVIOUS
<1>1. CASE Loop \/ Stream \/ Answered \/ Cancel \/ UNCHANGED vars
  <2>1. UNCHANGED stitch /\ (idle' = idle \/ idle' = 0)
    BY <1>1 DEF Loop, Stream, Start, StopAtTop, AuxLimit, Ask, Resting, Wake, StopAtChunk, Text,
                ToolPart, Finish, Answered, EmptyAgain, GiveAnswer, Cancel, answer, vars
  <2> QED
    BY <2>1, OnceIdle
<1>2. CASE Closed
  <2>1. pc = "open"
    BY <1>2 DEF Closed
  <2>2. CASE \E tail \in Tails : CutAnswer(tail)
    BY <2>1, <2>2, OnceCutAnswer
  <2>3. CASE UNCHANGED stitch /\ (idle' = idle \/ idle' = 0)
    BY <2>3, OnceIdle
  <2> QED
    BY <1>2, <2>2, <2>3 DEF Closed, HalfCall, EmptyAgain, GiveAnswer
<1>3. CASE Fail
  <2>1. pc = "open"
    BY <1>3 DEF Fail
  <2>2. PICK kind \in Refusals, tail \in Tails :
          IF tool.held THEN HalfCall(tail, FALSE)
          ELSE IF kind \in RaiseKinds THEN Raises(kind, tail)
          ELSE IF Grown + tail > 0 THEN FailedMidAnswer(tail)
          ELSE \E others \in SUBSET Keys : FailedAtStart(kind, others)
    BY <1>3 DEF Fail
  <2>3. said.shown + tail \in Nat
    BY SaidType, GrownType
  <2>4. CASE /\ Continue(said.shown + tail)
             /\ said.shown + tail > 0 \/ key \notin stitch.stalled
    BY <2>1, <2>3, <2>4, OnceContinue
  <2>5. CASE UNCHANGED stitch /\ (idle' = idle \/ idle' = 0)
    BY <2>5, OnceIdle
  <2>6. CASE FailedMidAnswer(tail)
    BY <2>4, <2>5, <2>6 DEF FailedMidAnswer
  <2> QED
    BY <2>2, <2>5, <2>6 DEF HalfCall, Raises, FailedAtStart
<1> QED
  BY <1>1, <1>2, <1>3 DEF Next, Ends

\* Between two words of an answer every key is asked to go on at most once: a
\* reply nobody can complete is handed back (transport.py:2870-3260).
THEOREM ContinuationsEnd == Spec => []NoEndlessResume
<1>1. Init => Typed /\ EachOnce
  BY TypedInitial, FS_EmptySet DEF Init, EachOnce
<1>2. Typed /\ EachOnce /\ [Next]_vars => Typed' /\ EachOnce'
  BY TypedStep, OnceStep
<1>3. Typed /\ EachOnce => NoEndlessResume
  BY StalledCount DEF EachOnce, NoEndlessResume, Typed
<1> QED
  BY <1>1, <1>2, <1>3, PTL DEF Spec
-----------------------------------------------------------------------------
(* Every step of the loop is a step of Reply or none of it, as long as no    *)
(* provider breaks a connection off after its finish.                        *)

Same == Grown' = Grown /\ (Sealed' <=> Sealed) /\ UNCHANGED <<tools, ending>>

LEMMA SameIsStutter == Same => UNCHANGED Promise!vars
BY Zenon DEF Same, Sealed, Promise!vars

\* Words, with no finish before or after.
LEMMA SaysIsSay ==
    ASSUME ending = "open", ~Sealed, ~Sealed', Grown' \in {Grown, Grown + 1},
           UNCHANGED <<tools, ending>>
    PROVE  Promise!Say
<1>1. ((finished /\ ~Nothing)') = (finished /\ ~Nothing)
  BY DEF Sealed
<1> QED
  BY <1>1 DEF Sealed, Promise!Say

LEMMA EndsAreEnd ==
    ASSUME ending = "open", Sealed' <=> Sealed, Grown' \in {Grown, Grown + 1},
           tools' = tools \/ (~Sealed /\ tools' = "half"),
           \/ ending' \in {"given", "cut", "stopped", "expired"}
           \/ /\ ending' \in {"handed", "dropped"}
              /\ Grown' = 0 /\ tools' = "none" /\ ~Sealed
           \/ ending' = "dropped" /\ tools' = "half"
    PROVE  Promise!End
<1>1. ((finished /\ ~Nothing)') = (finished /\ ~Nothing)
  BY DEF Sealed
<1> QED
  BY <1>1 DEF Sealed, Promise!End, Promise!KeepsText, Promise!StartsOver

Replies == Promise!Next \/ UNCHANGED Promise!vars

LEMMA RepliesLoop ==
    ASSUME ~LateDrops, Typed, Steady, Loop
    PROVE  Replies
<1>1. CASE Ask
  <2>1. /\ pc = "loop" /\ UNCHANGED <<tools, ending>> /\ finished' = FALSE
        /\ said' = [said EXCEPT !.shown = 0, !.text = FALSE]
    BY <1>1 DEF Ask, Stay
  <2>2. ~Sealed /\ ~Sealed'
    BY <2>1 DEF Steady, Between, Clean, Sealed
  <2>3. said'.seen = said.seen /\ said'.shown = 0
    BY <2>1 DEF Typed, Saids
  <2>4. Grown' = Grown
    BY <2>1, <2>3, GrownType DEF Steady, Between, Grown
  <2> QED
    BY <2>1, <2>2, <2>4, SameIsStutter DEF Same, Replies
<1>2. CASE Start \/ Resting \/ StopAtTop \/ AuxLimit \/ Wake
  <2>1. UNCHANGED <<said, tool, finished, tools>> /\ pc \in {"start", "loop", "wait"}
    BY <1>2 DEF Start, Resting, StopAtTop, AuxLimit, Wake, answer
  <2>2. /\ Grown' = Grown /\ (Sealed' <=> Sealed) /\ ~Sealed
        /\ tools = "none" /\ said.shown = 0 /\ ending = "open"
    BY <2>1 DEF Grown, Sealed, Nothing, Steady, Between, Clean, OpenTillDone
  <2>3. CASE ending' = ending
    BY <2>1, <2>2, <2>3, SameIsStutter DEF Same, Replies
  <2>4. CASE \/ ending' \in {"cut", "stopped", "expired"}
             \/ ending' \in {"handed", "dropped"} /\ said.seen = 0
    <3>1. said.seen = 0 => Grown = 0
      BY <2>2, GrownType
    <3>2. Grown' \in {Grown, Grown + 1}
      BY <2>2
    <3>3. Promise!End
      BY <2>1, <2>2, <2>4, <3>1, <3>2, EndsAreEnd
    <3> QED
      BY <3>3 DEF Replies, Promise!Next
  <2>5. \/ ending' = ending
        \/ ending' \in {"cut", "stopped", "expired"}
        \/ ending' \in {"handed", "dropped"} /\ said.seen = 0
    <3>1. CASE Start
      <4>1. ~Main => said.seen = 0
        BY <3>1 DEF Start, Steady, Between
      <4> QED
        BY <3>1, <4>1 DEF Start, EndAs, Stay, Movable
    <3>2. CASE Resting
      BY <3>2 DEF Resting, EndAs, Stay, Movable
    <3>3. CASE StopAtTop \/ AuxLimit \/ Wake
      BY <3>3 DEF StopAtTop, AuxLimit, Wake, EndAs, Stay
    <3> QED
      BY <1>2, <3>1, <3>2, <3>3
  <2> QED
    BY <2>3, <2>4, <2>5
<1> QED
  BY <1>1, <1>2 DEF Loop

LEMMA RepliesStream ==
    ASSUME ~LateDrops, Typed, Steady, Stream
    PROVE  Replies
<1>0. pc = "open" /\ ending = "open"
  BY DEF Stream, StopAtChunk, Text, ToolPart, Finish, Flowing, Steady, OpenTillDone
<1>1. CASE StopAtChunk
  <2>1. UNCHANGED <<said, tool, finished, tools>> /\ ending' = "stopped"
    BY <1>1 DEF StopAtChunk, answer, EndAs
  <2>2. Grown' = Grown /\ (Sealed' <=> Sealed)
    BY <2>1 DEF Grown, Sealed, Nothing
  <2>3. Promise!End
    BY <1>0, <2>1, <2>2, EndsAreEnd
  <2> QED
    BY <2>3 DEF Replies, Promise!Next
<1>2. CASE Text
  <2>1. PICK new \in {0, 1} : said' = [said EXCEPT !.shown = @ + new, !.text = TRUE]
    BY <1>2 DEF Text
  <2>2. said'.seen = said.seen /\ said'.shown = said.shown + new
    BY <2>1 DEF Typed, Saids
  <2>3. Grown' \in {Grown, Grown + 1}
    BY <2>2, GrownType DEF Grown
  <2>4. ~Sealed /\ ~Sealed' /\ UNCHANGED <<tools, ending>>
    BY <1>2 DEF Text, Flowing, Stay, Sealed
  <2>5. Promise!Say
    BY <1>0, <2>3, <2>4, SaysIsSay
  <2> QED
    BY <2>5 DEF Replies, Promise!Next
<1>3. CASE ToolPart
  <2>1. Grown' = Grown /\ ~Sealed /\ ~Sealed' /\ UNCHANGED <<tools, ending>>
    BY <1>3 DEF ToolPart, Flowing, Stay, Sealed, Grown
  <2> QED
    BY <2>1, SameIsStutter DEF Same, Replies
<1>4. CASE Finish
  <2>1. PICK tail \in {0, 1} : said' = [said EXCEPT !.shown = @ + tail]
    BY <1>4 DEF Finish
  <2>2. said'.seen = said.seen /\ said'.shown = said.shown + tail /\ said'.text = said.text
    BY <2>1 DEF Typed, Saids
  <2>3. Grown' \in {Grown, Grown + 1} /\ (Grown' = 0 => Grown = 0)
    BY <2>2, GrownType DEF Grown
  <2>4. /\ ~finished /\ finished' /\ ending' = ending
        /\ tools' = (IF tool.held THEN "whole" ELSE tools)
        /\ tool' = [tool EXCEPT !.held = FALSE]
    BY <1>4 DEF Finish, Flowing, Stay
  <2>5. tools = "none" /\ tools' \in {"none", "whole"} /\ tool'.carried = tool.carried
    BY <1>0, <2>4 DEF Steady, Within, Typed, ToolBox
  <2>6. CASE Nothing'
    <3>1. Grown' = Grown /\ ~tool.held
      BY <2>3, <2>5, <2>6 DEF Nothing, Steady, Carried
    <3>2. ~Sealed /\ ~Sealed' /\ tools' = tools
      BY <2>4, <2>6, <3>1 DEF Sealed
    <3> QED
      BY <2>4, <3>1, <3>2, SameIsStutter DEF Same, Replies
  <2>7. CASE ~Nothing'
    <3>1. Promise!Close
      BY <1>0, <2>3, <2>4, <2>5, <2>7 DEF Promise!Close
    <3> QED
      BY <3>1 DEF Replies, Promise!Next
  <2> QED
    BY <2>6, <2>7
<1> QED
  BY <1>1, <1>2, <1>3, <1>4 DEF Stream

LEMMA RepliesHalfCall ==
    ASSUME Typed, Steady, pc = "open", ~finished, NEW tail \in Tails, NEW clean \in BOOLEAN,
           HalfCall(tail, clean), UNCHANGED finished
    PROVE  Replies
<1>1. ~Sealed /\ ~Sealed' /\ ending = "open"
  BY DEF Sealed, Steady, OpenTillDone
<1>2. Grown' \in {Grown, Grown + 1}
  BY SaidGrows DEF HalfCall
<1>3. CASE UNCHANGED <<tools, ending>>
  BY <1>1, <1>2, <1>3, SaysIsSay DEF Replies, Promise!Next
<1>4. CASE tools' = "half" /\ ending' \in {"given", "dropped"}
  <2>1. Promise!End
    BY <1>1, <1>2, <1>4, EndsAreEnd
  <2> QED
    BY <2>1 DEF Replies, Promise!Next
<1> QED
  BY <1>3, <1>4 DEF HalfCall, Stay, EndAs

\* An attempt that ended with no finish, and no part of a tool call.
LEMMA RepliesUnfinished ==
    ASSUME Typed, Steady, pc = "open", ~finished, UNCHANGED <<finished, tools>>,
           NEW tail \in Tails, Grown' = Grown + tail, tools = "none",
           \/ ending' = ending
           \/ ending' \in {"given", "cut"}
           \/ ending' \in {"handed", "dropped"} /\ Grown + tail = 0
    PROVE  Replies
<1>1. ~Sealed /\ ~Sealed' /\ ending = "open"
  BY DEF Sealed, Steady, OpenTillDone
<1>2. Grown' \in {Grown, Grown + 1}
  BY SaidType
<1>3. CASE ending' = ending
  BY <1>1, <1>2, <1>3, SaysIsSay DEF Replies, Promise!Next
<1>4. CASE \/ ending' \in {"given", "cut"}
           \/ ending' \in {"handed", "dropped"} /\ Grown + tail = 0
  <2>1. Promise!End
    BY <1>1, <1>2, <1>4, EndsAreEnd
  <2> QED
    BY <2>1 DEF Replies, Promise!Next
<1> QED
  BY <1>3, <1>4

LEMMA RepliesEnds ==
    ASSUME ~LateDrops, Typed, Steady, Ends
    PROVE  Replies
<1>0. pc = "open" /\ UNCHANGED finished /\ ending = "open"
  BY DEF Ends, Answered, Closed, Fail, Steady, OpenTillDone
<1>1. CASE Answered
  <2>1. UNCHANGED <<said, tool, tools>>
    BY <1>1 DEF Answered, EmptyAgain, GiveAnswer
  <2>2. Grown' = Grown /\ (Sealed' <=> Sealed)
    BY <1>0, <2>1 DEF Grown, Sealed, Nothing
  <2>3. CASE ending' = ending
    BY <2>1, <2>2, <2>3, SameIsStutter DEF Same, Replies
  <2>4. CASE ending' = "given"
    <3>1. Promise!End
      BY <1>0, <2>1, <2>2, <2>4, EndsAreEnd
    <3> QED
      BY <3>1 DEF Replies, Promise!Next
  <2> QED
    BY <1>1, <2>3, <2>4 DEF Answered, EmptyAgain, GiveAnswer, Stay, EndAs
<1>2. CASE Closed
  <2>1. ~finished /\ tools = "none"
    BY <1>0, <1>2 DEF Closed, Steady, Within
  <2>2. PICK tail \in Tails :
          \/ HalfCall(tail, TRUE)
          \/ CutAnswer(tail)
          \/ Grown + tail = 0 /\ (EmptyAgain \/ GiveAnswer) /\ UNCHANGED tools
    BY <1>2 DEF Closed
  <2>3. CASE HalfCall(tail, TRUE)
    BY <1>0, <2>1, <2>3, RepliesHalfCall
  <2>4. CASE CutAnswer(tail)
    <3>1. Grown' = Grown + tail /\ tools' = tools
      BY <2>4, SaidGrows DEF CutAnswer
    <3>2. ending' = ending \/ ending' = "given"
      BY <2>4 DEF CutAnswer, Continue, Stay, EndAs
    <3> QED
      BY <1>0, <2>1, <3>1, <3>2, RepliesUnfinished
  <2>5. CASE Grown + tail = 0 /\ (EmptyAgain \/ GiveAnswer) /\ UNCHANGED tools
    <3>1. Grown' = Grown /\ (ending' = ending \/ ending' = "given")
      BY <2>5 DEF EmptyAgain, GiveAnswer, Stay, EndAs, Grown
    <3>2. Grown = 0 /\ tail = 0
      BY <2>5, SaidType
    <3> QED
      BY <1>0, <2>1, <2>5, <3>1, <3>2, RepliesUnfinished
  <2> QED
    BY <2>2, <2>3, <2>4, <2>5
<1>3. CASE Fail
  <2>1. ~finished /\ tools = "none"
    BY <1>0, <1>3 DEF Fail, Steady, Within
  <2>2. PICK kind \in Refusals, tail \in Tails :
          IF tool.held THEN HalfCall(tail, FALSE)
          ELSE /\ said' = Said(tail)
               /\ IF kind \in RaiseKinds THEN Raises(kind, tail)
                  ELSE IF Grown + tail > 0 THEN FailedMidAnswer(tail)
                  ELSE \E others \in SUBSET Keys : FailedAtStart(kind, others)
               /\ UNCHANGED tools
    BY <1>3 DEF Fail
  <2>3. CASE tool.held
    BY <1>0, <2>1, <2>2, <2>3, RepliesHalfCall
  <2>4. CASE ~tool.held
    <3>1. Grown' = Grown + tail /\ tools' = tools /\ Grown + tail \in Nat
      BY <2>2, <2>4, SaidGrows
    <3>2. \/ ending' = ending
          \/ ending' \in {"given", "cut"}
          \/ ending' \in {"handed", "dropped"} /\ Grown + tail = 0
      <4>1. CASE Raises(kind, tail)
        BY <3>1, <4>1 DEF Raises, Stay, EndAs
      <4>2. CASE FailedMidAnswer(tail)
        BY <4>2 DEF FailedMidAnswer, Continue, Stay, EndAs
      <4>3. CASE /\ ~(Grown + tail > 0)
                 /\ \E others \in SUBSET Keys : FailedAtStart(kind, others)
        <5>1. Grown + tail = 0
          BY <3>1, <4>3
        <5>2. PICK others \in SUBSET Keys : FailedAtStart(kind, others)
          BY <4>3
        <5>3. ending' = ending \/ ending' = "handed" \/ ending' = "dropped"
          BY <5>2 DEF FailedAtStart, Stay, EndAs
        <5> QED
          BY <5>1, <5>3
      <4> QED
        BY <2>2, <2>4, <4>1, <4>2, <4>3
    <3> QED
      BY <1>0, <2>1, <3>1, <3>2, RepliesUnfinished
  <2> QED
    BY <2>3, <2>4
<1> QED
  BY <1>1, <1>2, <1>3 DEF Ends

LEMMA RepliesStep == ~LateDrops /\ Typed /\ Steady /\ [Next]_vars => [Promise!Next]_(Promise!vars)
<1> SUFFICES ASSUME ~LateDrops, Typed, Steady, [Next]_vars PROVE Replies
  BY DEF Replies
<1>1. CASE Cancel \/ UNCHANGED vars
  <2>1. UNCHANGED <<said, tool, finished, tools, ending>>
    BY <1>1 DEF Cancel, Stay, answer, vars
  <2>2. Same
    BY <2>1 DEF Same, Grown, Sealed, Nothing
  <2> QED
    BY <2>2, SameIsStutter DEF Replies
<1> QED
  BY <1>1, RepliesLoop, RepliesStream, RepliesEnds DEF Next

\* Whatever keys, models, races and continuations a call goes through, Hermes
\* sees a reply: one text that grows, a tool call whole and last, one end, and
\* the turn given away with an empty screen only (transport.py:2400-3260).
THEOREM ReplyKept == ASSUME ~LateDrops PROVE Spec => KeepsPromise
<1>1. Init => Typed /\ Steady /\ Promise!Init
  BY TypedInitial, SteadyInitial DEF Init, Promise!Init, Grown
<1>2. Typed /\ Steady /\ [Next]_vars => Typed' /\ Steady'
  BY TypedStep, SteadyStep
<1>3. Typed /\ Steady /\ [Next]_vars => [Promise!Next]_(Promise!vars)
  BY RepliesStep
<1> QED
  BY <1>1, <1>2, <1>3, PTL DEF Spec, KeepsPromise, Promise!Spec
-----------------------------------------------------------------------------
(* While the screen is empty, the refusals that count are the last ones met  *)
(* on the model the call is on.                                              *)

Counted == Grown = 0 => \A k \in Keys : at.verdicts[k] \in PoolKinds =>
                            proof[k] = [model |-> at.model, kind |-> at.verdicts[k]]

Proven == (pc # "done" => Counted /\ why \notin PoolKinds) /\ RefusalProved

LEMMA ProvenKept ==
    ASSUME Typed, Proven, pc # "done", UNCHANGED proof, why' = why \/ why' \notin PoolKinds,
           Grown' = 0 => Grown = 0,
           at'.model = at.model /\ at'.verdicts = at.verdicts
    PROVE  Proven'
BY DEF Proven, Counted, RefusalProved, PoolKinds

LEMMA ProvenFresh ==
    ASSUME Typed, Proven, pc # "done", why' = why \/ why' \notin PoolKinds,
           \A k \in Keys : at'.verdicts[k] = "none"
    PROVE  Proven'
BY DEF Proven, Counted, RefusalProved, PoolKinds

LEMMA ProvenUnread ==
    ASSUME Proven, pc # "done", Grown' # 0, why' = why \/ why' \notin PoolKinds
    PROVE  Proven'
BY DEF Proven, Counted, RefusalProved, PoolKinds

LEMMA FreshVerdicts == \A m, k : k \in Keys => FreshAt(m).verdicts[k] = "none"
BY DEF FreshAt

LEMMA ProvenLoop == Typed /\ Steady /\ Proven /\ Loop => Proven'
<1> SUFFICES ASSUME Typed, Steady, Proven, Loop PROVE Proven'
  OBVIOUS
<1>1. CASE Ask
  <2>1. /\ pc = "loop" /\ why' = why /\ proof' = proof
        /\ said' = [said EXCEPT !.shown = 0, !.text = FALSE]
    BY <1>1 DEF Ask, Stay
  <2>2. said'.seen = said.seen /\ said'.shown = 0
    BY <2>1 DEF Typed, Saids
  <2>3. Grown' = Grown
    BY <2>1, <2>2, GrownType DEF Steady, Between, Grown
  <2>4. CASE at' = at
    BY <2>1, <2>3, <2>4, ProvenKept
  <2>5. CASE \E m \in Models : at' = [FreshAt(m) EXCEPT !.timeouts = at.timeouts]
    <3>1. \A k \in Keys : at'.verdicts[k] = "none"
      BY <2>5 DEF FreshAt
    <3> QED
      BY <2>1, <3>1, ProvenFresh
  <2>6. \E m \in Models : at' = at \/ at' = [FreshAt(m) EXCEPT !.timeouts = at.timeouts]
    BY <1>1 DEF Ask, Typed, Ats
  <2> QED
    BY <2>4, <2>5, <2>6
<1>2. CASE Start \/ Resting \/ StopAtTop \/ AuxLimit \/ Wake
  <2>1. UNCHANGED <<said, proof>> /\ pc # "done"
    BY <1>2 DEF Start, Resting, StopAtTop, AuxLimit, Wake, answer
  <2>2. Grown' = Grown
    BY <2>1 DEF Grown
  <2>3. why' = why \/ why' \in {"aux", "moved", "stop", "wait"}
    BY <1>2 DEF Start, Resting, StopAtTop, AuxLimit, Wake, EndAs, Stay
  <2>4. why' = why \/ why' \notin PoolKinds
    BY <2>3 DEF PoolKinds
  <2>5. CASE at' = at \/ at' = [at EXCEPT !.timeouts = 0]
    <3>1. at'.model = at.model /\ at'.verdicts = at.verdicts
      BY <2>5 DEF Typed, Ats
    <3> QED
      BY <2>1, <2>2, <2>4, <3>1, ProvenKept
  <2>6. CASE \E m \in Models : at' = FreshAt(m)
    BY <2>1, <2>4, <2>6, FreshVerdicts, ProvenFresh
  <2>7. at' = at \/ at' = [at EXCEPT !.timeouts = 0] \/ \E m \in Models : at' = FreshAt(m)
    BY <1>2, CandidateType DEF Start, Resting, StopAtTop, AuxLimit, Wake, route, MoveTo
  <2> QED
    BY <2>5, <2>6, <2>7
<1> QED
  BY <1>1, <1>2 DEF Loop

LEMMA ProvenStream == Typed /\ Proven /\ (Stream \/ Cancel) => Proven'
<1> SUFFICES ASSUME Typed, Proven, Stream \/ Cancel PROVE Proven'
  OBVIOUS
<1>1. pc # "done" /\ UNCHANGED <<at, proof>>
  BY DEF Stream, StopAtChunk, Text, ToolPart, Finish, Flowing, Cancel, route
<1>2. why' = why \/ why' = "stop"
  BY DEF Stream, StopAtChunk, Text, ToolPart, Finish, Cancel, Stay, EndAs
<1>3. Grown' = 0 => Grown = 0
  <2>1. CASE UNCHANGED said
    BY <2>1 DEF Grown
  <2>2. CASE \E n \in {0, 1} : \/ said' = [said EXCEPT !.shown = @ + n, !.text = TRUE]
                               \/ said' = [said EXCEPT !.shown = @ + n]
    <3>1. PICK n \in {0, 1} : said'.seen = said.seen /\ said'.shown = said.shown + n
      BY <2>2 DEF Typed, Saids
    <3> QED
      BY <3>1, GrownType DEF Grown
  <2> QED
    BY <2>1, <2>2 DEF Stream, StopAtChunk, Text, ToolPart, Finish, Cancel, answer
<1> QED
  BY <1>1, <1>2, <1>3, ProvenKept DEF PoolKinds

LEMMA ProvenFailedAtStart ==
    ASSUME Typed, Proven, pc = "open", NEW kind, NEW others \in SUBSET Keys,
           Grown = 0, FailedAtStart(kind, others)
    PROVE  Proven'
<1> DEFINE refused == others \cup {key}
           v == [k \in Keys |-> IF k \in refused THEN Verdict(kind) ELSE at.verdicts[k]]
           timeouts == IF kind \in TimeoutKinds THEN at.timeouts + 1 ELSE 0
           busy == at.busy \cup (IF kind \in BusyKinds THEN refused ELSE {})
           back == GivenBack(kind, v, timeouts, busy)
<1>1. Counted /\ why \notin PoolKinds
  BY DEF Proven
<1>2. \A k \in Keys : v[k] \in PoolKinds => proof'[k] = [model |-> at.model, kind |-> v[k]]
  <2>1. proof' = [k \in Keys |-> IF k \in refused THEN Refusal(kind) ELSE proof[k]]
    BY DEF FailedAtStart
  <2>2. Verdict(kind) \in PoolKinds => Refusal(kind) = [model |-> at.model, kind |-> Verdict(kind)]
    BY DEF Verdict, Refusal, PoolKinds
  <2> HIDE DEF refused
  <2> QED
    BY <1>1, <2>1, <2>2 DEF Counted
<1>3. back \in PoolKinds => back = kind /\ \A k \in Keys : v[k] = kind
  BY DEF GivenBack, PoolKinds
<1>4. \/ EndAs("handed", "moved") /\ UNCHANGED at
      \/ (\E m \in Models : MoveTo(m)) /\ UNCHANGED why
      \/ back # "no" /\ EndAs("dropped", back) /\ UNCHANGED at
      \/ /\ at' = [at EXCEPT !.verdicts = v, !.busy = busy,
                             !.timeouts = IF timeouts > 2 THEN 2 ELSE timeouts]
         /\ UNCHANGED why
  BY CandidateType DEF FailedAtStart, Stay
<1> HIDE DEF v, timeouts, busy, back
<1>5. CASE EndAs("handed", "moved") /\ UNCHANGED at
  BY <1>5 DEF EndAs, Proven, Counted, RefusalProved, PoolKinds
<1>6. CASE (\E m \in Models : MoveTo(m)) /\ UNCHANGED why
  BY <1>6, FreshVerdicts, ProvenFresh DEF MoveTo
<1>7. CASE back # "no" /\ EndAs("dropped", back) /\ UNCHANGED at
  BY <1>2, <1>3, <1>7 DEF EndAs, Proven, RefusalProved, PoolKinds
<1>8. CASE /\ at' = [at EXCEPT !.verdicts = v, !.busy = busy,
                              !.timeouts = IF timeouts > 2 THEN 2 ELSE timeouts]
           /\ UNCHANGED why
  <2>1. at'.verdicts = v /\ at'.model = at.model
    BY <1>8 DEF Typed, Ats
  <2> QED
    BY <1>1, <1>2, <1>8, <2>1 DEF Proven, Counted, RefusalProved, PoolKinds
<1> QED
  BY <1>4, <1>5, <1>6, <1>7, <1>8

LEMMA ProvenEnds == Typed /\ Proven /\ Ends => Proven'
<1> SUFFICES ASSUME Typed, Proven, Ends PROVE Proven'
  OBVIOUS
<1>0. pc = "open"
  BY DEF Ends, Answered, Closed, Fail
<1>1. CASE Answered
  <2>1. UNCHANGED <<said, at, proof>> /\ (why' = why \/ why' = "answer")
    BY <1>1 DEF Answered, EmptyAgain, GiveAnswer, Stay, EndAs, route
  <2> QED
    BY <1>0, <2>1, ProvenKept DEF Grown, PoolKinds
<1>2. ASSUME NEW tail \in Tails, NEW clean \in BOOLEAN, HalfCall(tail, clean) \/ CutAnswer(tail)
      PROVE  Proven'
  <2>1. UNCHANGED <<at, proof>> /\ said' = Said(tail)
    BY <1>2 DEF HalfCall, CutAnswer
  <2>2. why' = why \/ why' \in {"half", "cut short"}
    BY <1>2 DEF HalfCall, CutAnswer, Continue, Stay, EndAs
  <2>3. Grown' = 0 => Grown = 0
    BY <2>1, SaidGrows
  <2> QED
    BY <1>0, <2>1, <2>2, <2>3, ProvenKept DEF PoolKinds
<1>3. CASE Closed
  <2>1. CASE (EmptyAgain \/ GiveAnswer) /\ UNCHANGED <<at, proof>>
    <3>1. UNCHANGED said /\ (why' = why \/ why' = "answer")
      BY <2>1 DEF EmptyAgain, GiveAnswer, Stay, EndAs
    <3> QED
      BY <1>0, <2>1, <3>1, ProvenKept DEF Grown, PoolKinds
  <2> QED
    BY <1>2, <1>3, <2>1 DEF Closed
<1>4. CASE Fail
  <2>1. PICK kind \in Refusals, tail \in Tails :
          IF tool.held THEN HalfCall(tail, FALSE)
          ELSE /\ said' = Said(tail)
               /\ IF kind \in RaiseKinds THEN Raises(kind, tail)
                  ELSE IF Grown + tail > 0 THEN FailedMidAnswer(tail)
                  ELSE \E others \in SUBSET Keys : FailedAtStart(kind, others)
    BY <1>4 DEF Fail
  <2>2. CASE HalfCall(tail, FALSE)
    BY <1>2, <2>2
  <2>3. CASE said' = Said(tail) /\ kind \in RaiseKinds /\ Raises(kind, tail)
    <3>1. why' = why \/ why' = kind
      BY <2>3 DEF Raises, Stay, EndAs
    <3>2. kind \notin PoolKinds
      BY <2>3 DEF RaiseKinds, PoolKinds
    <3>3. (at' = at /\ proof' = proof) \/ at' = FreshAt(Home)
      BY <2>3 DEF Raises
    <3>4. Grown' = 0 => Grown = 0
      BY <2>3, SaidGrows
    <3>5. CASE at' = at /\ proof' = proof
      BY <1>0, <3>1, <3>2, <3>4, <3>5, ProvenKept
    <3>6. CASE at' = FreshAt(Home)
      BY <1>0, <3>1, <3>2, <3>6, FreshVerdicts, ProvenFresh
    <3> QED
      BY <3>3, <3>5, <3>6
  <2>4. CASE said' = Said(tail) /\ Grown + tail > 0 /\ FailedMidAnswer(tail)
    <3>1. Grown' # 0
      BY <2>4, SaidGrows
    <3>2. why' = why \/ why' = "cut short"
      BY <2>4 DEF FailedMidAnswer, Continue, Stay, EndAs
    <3> QED
      BY <1>0, <3>1, <3>2, ProvenUnread DEF PoolKinds
  <2>5. CASE ~(Grown + tail > 0) /\ \E others \in SUBSET Keys : FailedAtStart(kind, others)
    <3>1. Grown = 0
      BY <2>5, SaidType
    <3> QED
      BY <1>0, <2>5, <3>1, ProvenFailedAtStart
  <2> QED
    BY <2>1, <2>2, <2>3, <2>4, <2>5
<1> QED
  BY <1>1, <1>3, <1>4 DEF Ends

LEMMA ProvenInitial == Init => Proven
BY FreshVerdicts DEF Init, Proven, Counted, RefusalProved, PoolKinds

LEMMA ProvenStep == Typed /\ Steady /\ Proven /\ [Next]_vars => Proven'
<1> SUFFICES ASSUME Typed, Steady, Proven, [Next]_vars PROVE Proven'
  OBVIOUS
<1>1. CASE UNCHANGED vars
  BY <1>1 DEF vars, Proven, Counted, RefusalProved, Grown
<1> QED
  BY <1>1, ProvenLoop, ProvenStream, ProvenEnds DEF Next

\* A call is given back as refused by the whole pool only when every key of the
\* model it is on gave that refusal last (transport.py:1636-2288, 2400-3260).
THEOREM RefusalIsProved == Spec => []RefusalProved
<1>1. Init => Typed /\ Steady /\ Proven
  BY TypedInitial, SteadyInitial, ProvenInitial
<1>2. Typed /\ Steady /\ Proven /\ [Next]_vars => Typed' /\ Steady' /\ Proven'
  BY TypedStep, SteadyStep, ProvenStep
<1>3. Proven => RefusalProved
  BY DEF Proven
<1> QED
  BY <1>1, <1>2, <1>3, PTL DEF Spec
=============================================================================

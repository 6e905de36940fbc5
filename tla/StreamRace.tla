----------------------------- MODULE StreamRace -----------------------------
(***************************************************************************)
(* The race of one streamed reply (transport.py: KameTransport._race_stream,*)
(* _StreamLeg, _RaceStream).  The primary request, backup keys of the same *)
(* model and the next models of the user's list are read by one thread     *)
(* each into one queue; the caller's thread decides the race and then      *)
(* reads the winner from that queue.                                       *)
(*                                                                         *)
(* A chunk either carries the answer (text, a tool call, reasoning) or is  *)
(* quiet (a role, usage).  Times are left out: a trigger, a raced model's  *)
(* turn or the slow bound may come at any moment, in the order the code    *)
(* gives them, and whether a budget, a key or a claim is free is open.     *)
(***************************************************************************)
EXTENDS Integers, Sequences, FiniteSets

CONSTANTS
    Home,            \* the model the reply started on
    Raced,           \* cross: the next models, in the order they join
    Spare,           \* models that may still be added at the slow bound
    Probe,           \* the busy model asked again, first of Raced, or None
    None,
    MaxLegs,         \* max_legs: no backup opens when so many legs run
    Bounded,         \* whether the reply has a slow bound
    WidenMax,        \* _WIDEN_MAX, 0 in a burst
    Failures,        \* the failures told apart: busy is the provider's, no key's
    MaxChunks,       \* bound on the chunks of one leg
    MaxQueue         \* bound on the items waiting in the queue

Models == {Home} \cup Spare \cup {Raced[i] : i \in DOMAIN Raced}

ASSUME StreamRaceAssumption ==
    /\ Home \notin Spare \cup {Raced[i] : i \in DOMAIN Raced}
    /\ Raced \in Seq(Models) /\ \A i, j \in DOMAIN Raced : Raced[i] = Raced[j] => i = j
    /\ Probe # None => Raced # <<>> /\ Probe = Raced[1]
    /\ {MaxChunks, MaxQueue, WidenMax} \subseteq Nat /\ MaxLegs \in Nat \ {0}
    /\ Failures \subseteq {"busy", "refused"}
    /\ Bounded \in BOOLEAN

VARIABLES
    legs,            \* the legs in the order they opened; the first is primary
    queue,           \* race_q
    triggers,        \* triggers still to come
    cross,           \* raced models still to come
    armed,           \* slow_after is not None
    widened,
    notedSlow,       \* noted_slow
    pc,              \* where the caller's thread is
    winner,          \* the leg that won, 0 while there is none
    out              \* what the caller was given

\* What the rest of the program was told.
VARIABLES
    judged,          \* judged[i]: times leg i's failure went to _on_failure
    raised,          \* the leg whose failure was raised to the caller, or 0
    noted            \* noted[m]: times this race called _note_busy for m

told == <<judged, raised, noted>>
vars == <<legs, queue, triggers, cross, armed, widened, notedSlow, pc, winner, out, told>>

Leg(model) == [model |-> model, thread |-> "reading", stop |-> FALSE, done |-> FALSE,
               error |-> "none", buffer |-> <<>>, sent |-> 0]
Legs       == DOMAIN legs
Backups    == {i \in Legs : i # 1 /\ legs[i].model = Home}
Crossed    == {i \in Legs : legs[i].model # Home}

Aborted(ls, which) == [i \in DOMAIN ls |-> IF i \in which THEN [ls[i] EXCEPT !.stop = TRUE] ELSE ls[i]]
CountUp(tally, which) == [x \in DOMAIN tally |-> IF x \in which THEN tally[x] + 1 ELSE tally[x]]
-----------------------------------------------------------------------------
(* A leg's thread: _StreamLeg._pump, reading from the moment it connects.   *)
(* The look at stop and the put are one step; an item put after an abort    *)
(* would reach a queue in which only the winner's are still read.           *)

Reading == pc \in {"racing", "answering"}

\* What nobody will read is left out of the queue.
Put(i, kind) ==
    /\ Reading => Len(queue) < MaxQueue
    /\ queue' = IF Reading
                THEN Append(queue, [leg |-> i, kind |-> kind, n |-> legs'[i].sent])
                ELSE queue

LegReads(i, kind) ==
    /\ legs[i].thread = "reading" /\ legs[i].sent < MaxChunks
    /\ \/ /\ legs[i].stop
          /\ legs' = [legs EXCEPT ![i].thread = "over"]
          /\ UNCHANGED queue
       \/ /\ ~legs[i].stop
          /\ legs' = [legs EXCEPT ![i].sent = @ + 1]
          /\ Put(i, kind)
    /\ UNCHANGED <<triggers, cross, armed, widened, notedSlow, pc, winner, out, told>>

LegEnds(i) ==
    /\ legs[i].thread = "reading"
    /\ legs' = [legs EXCEPT ![i].thread = "over"]
    /\ Put(i, "end")
    /\ UNCHANGED <<triggers, cross, armed, widened, notedSlow, pc, winner, out, told>>

LegFails(i, failure) ==
    /\ legs[i].thread = "reading"
    /\ legs' = [legs EXCEPT ![i].thread = "over"]
    /\ IF legs[i].stop THEN UNCHANGED queue ELSE Put(i, failure)
    /\ UNCHANGED <<triggers, cross, armed, widened, notedSlow, pc, winner, out, told>>
-----------------------------------------------------------------------------
(* More legs join.  While the race runs some leg is not done.               *)

Joins(model) ==
    /\ legs' = Append(legs, Leg(model))
    /\ judged' = Append(judged, 0)
    /\ UNCHANGED <<raised, noted>>

\* A trigger has passed: a backup, when the budget and a key allow it.
OpenBackup ==
    /\ pc = "racing" /\ triggers > 0 /\ Len(legs) < MaxLegs
    /\ triggers' = triggers - 1
    /\ Joins(Home) \/ UNCHANGED <<legs, told>>
    /\ UNCHANGED <<queue, cross, armed, widened, notedSlow, pc, winner, out>>

\* The next model's turn to race, when it can be claimed and has a key.
OpenCross ==
    /\ pc = "racing" /\ cross # <<>>
    /\ cross' = Tail(cross)
    /\ Joins(Head(cross)) \/ UNCHANGED <<legs, told>>
    /\ UNCHANGED <<queue, triggers, armed, widened, notedSlow, pc, winner, out>>

\* The slow bound: every raced model's turn comes before it.
SlowBound == pc = "racing" /\ armed /\ cross = <<>>

\* One more model of the list joins, unless it has a leg already; the bound
\* moves on.
Widen(model) ==
    /\ SlowBound /\ widened < WidenMax
    /\ \A i \in Legs : legs[i].model # model
    /\ widened' = widened + 1
    /\ Joins(model)
    /\ UNCHANGED <<queue, triggers, cross, armed, notedSlow, pc, winner, out>>

\* Mutant of Remembered: the models noted slow are noted again at the end.
RememberedNot(models) == UNCHANGED notedSlow

Remembered(models) == notedSlow' = notedSlow \cup models

\* Nothing outside the race could answer: every model still silent is noted
\* slow, nothing is cut.
KeepWaiting ==
    LET slow == {Home} \cup {legs[i].model : i \in {j \in Crossed : ~legs[j].done}}
    IN  /\ SlowBound
        /\ armed' = FALSE
        /\ Remembered(slow)
        /\ noted' = CountUp(noted, slow)
        /\ UNCHANGED <<legs, queue, triggers, cross, widened, pc, winner, out, judged, raised>>

\* A model outside the race is free, but the reply cannot be handed over.
NoHandOver ==
    /\ SlowBound
    /\ armed' = FALSE
    /\ UNCHANGED <<legs, queue, triggers, cross, widened, notedSlow, pc, winner, out, told>>

\* The reply goes to Hermes' fallback: every leg is cut.
HandOver ==
    /\ SlowBound
    /\ legs' = Aborted(legs, Legs)
    /\ noted' = [m \in Models |-> noted[m] + (IF m = Home THEN 1 ELSE 0)
                                 + Cardinality({i \in Crossed : legs[i].model = m})]
    /\ pc' = "handed over" /\ queue' = <<>>
    /\ UNCHANGED <<triggers, cross, armed, widened, notedSlow, winner, out, judged, raised>>
-----------------------------------------------------------------------------
(* The next item of the queue, and what it decides.                         *)

\* Mutant of Silent: a primary that failed fails the race.
SilentPrimary(ls) == IF ls[1].error = "none" THEN 1 ELSE 0

\* The leg the answer is read from when every leg is done without a word.
Silent(ls) ==
    LET ended == {i \in DOMAIN ls : ls[i].error = "none"}
    IN  IF ended = {} THEN 0
        ELSE IF 1 \in ended THEN 1
        ELSE CHOOSE i \in ended : \A j \in ended : i <= j

Unheard(ls, i) == ls[i].model # Home /\ ls[i].buffer = <<>> /\ ls[i].model \notin notedSlow

\* Mutant of FailedLosers: the primary's failure is judged here as well.
FailedLosersAll(ls, w) == {i \in DOMAIN ls \ {w} : ls[i].error # "none"}

\* The failures the race hands on; when nobody won the primary's is raised.
FailedLosers(ls, w) == {i \in DOMAIN ls \ {w} : ls[i].error # "none" /\ (w # 0 \/ i # 1)}

\* The race is decided for w, or for nobody when w is 0.
Decide(ls, w) ==
    LET losers == DOMAIN ls \ {w}
        failed == FailedLosers(ls, w)
        again  == {Probe} \cap {ls[i].model : i \in {j \in failed : ls[j].error = "busy"}}
        stands == w # 0 /\ ls[w].model # Home
        left   == IF ~stands THEN {}
                  ELSE {i \in losers : Unheard(ls, i)}
        home   == IF stands /\ ls[w].model # Probe /\ Home \notin notedSlow THEN {Home} ELSE {}
    IN  /\ legs' = Aborted(ls, {i \in losers : ~ls[i].done})
        /\ judged' = CountUp(judged, failed)
        /\ noted' = [m \in Models |-> noted[m] + (IF m \in again THEN 1 ELSE 0)
                        + (IF m \in home THEN 1 ELSE 0)
                        + Cardinality({i \in left : ls[i].model = m})]
        /\ winner' = w
        /\ raised' = IF w = 0 THEN 1 ELSE 0
        /\ pc' = IF w = 0 THEN "failed" ELSE "answering"

Alone == Len(legs) = 1

\* Mutant of Over: a leg that ended without a word is waited for.
OverIfAllFailed(ls) == \A i \in DOMAIN ls : ls[i].error # "none"

Over(ls) == \A i \in DOMAIN ls : ls[i].done

Heard(item) ==
    LET i     == item.leg
        kept  == [legs EXCEPT ![i].buffer = Append(@, item)]
        ended == [legs EXCEPT ![i].done = TRUE,
                              ![i].error = IF item.kind \in Failures THEN item.kind ELSE "none"]
    IN  \/ item.kind = "word" /\ Decide(kept, i) /\ UNCHANGED out
        \/ /\ item.kind = "quiet"
           /\ IF Alone THEN out' = Append(out, item) /\ UNCHANGED legs
                       ELSE legs' = kept /\ UNCHANGED out
           /\ UNCHANGED <<pc, winner, told>>
        \/ /\ item.kind \in Failures \cup {"end"}
           /\ UNCHANGED out
           /\ \/ ~Over(ended) /\ legs' = ended /\ UNCHANGED <<pc, winner, told>>
              \/ Over(ended) /\ Decide(ended, Silent(ended))

Receive ==
    /\ pc = "racing" /\ queue # <<>>
    /\ Heard(Head(queue))
    /\ queue' = IF pc' = "failed" THEN <<>> ELSE Tail(queue)
    /\ UNCHANGED <<triggers, cross, armed, widened, notedSlow>>

\* Mutant of Stopped: the legs are left to themselves.
StoppedReadingOn ==
    /\ pc = "racing" /\ (queue = <<>> \/ Alone)
    /\ pc' = "stopped" /\ queue' = <<>>
    /\ UNCHANGED <<legs, triggers, cross, armed, widened, notedSlow, winner, out, told>>

\* A stop, seen while the queue is empty, or a reader that closes the reply
\* where it was given something.
Stopped ==
    /\ pc = "racing" /\ (queue = <<>> \/ Alone)
    /\ legs' = Aborted(legs, Legs)
    /\ pc' = "stopped" /\ queue' = <<>>
    /\ UNCHANGED <<triggers, cross, armed, widened, notedSlow, winner, out, told>>
-----------------------------------------------------------------------------
(* Reading the winner: _RaceStream.                                         *)

ReadHeld ==
    /\ pc = "answering" /\ legs[winner].buffer # <<>>
    /\ out' = out \o legs[winner].buffer
    /\ legs' = [legs EXCEPT ![winner].buffer = <<>>]
    /\ UNCHANGED <<queue, triggers, cross, armed, widened, notedSlow, pc, winner, told>>

\* The winner's failure is raised to the caller, who blames the winner's key.
Finished(error) ==
    /\ pc' = "finished"
    /\ raised' = IF error # "none" THEN winner ELSE raised

ReadDone ==
    /\ pc = "answering" /\ legs[winner].buffer = <<>> /\ legs[winner].done
    /\ Finished(legs[winner].error) /\ queue' = <<>>
    /\ UNCHANGED <<legs, triggers, cross, armed, widened, notedSlow, winner, out, judged,
                   noted>>

\* Mutant of ReadNext: whatever comes next is the answer.
ReadNextOfAny ==
    LET item == Head(queue)
    IN  /\ pc = "answering" /\ legs[winner].buffer = <<>> /\ ~legs[winner].done
        /\ queue # <<>>
        /\ \/ /\ item.kind \in {"quiet", "word"}
              /\ out' = Append(out, item)
              /\ UNCHANGED <<pc, raised>>
           \/ item.kind \notin {"quiet", "word"} /\ Finished("none") /\ UNCHANGED out
        /\ queue' = IF pc' = "finished" THEN <<>> ELSE Tail(queue)
        /\ UNCHANGED <<legs, triggers, cross, armed, widened, notedSlow, winner, judged, noted>>

ReadNext ==
    LET item == Head(queue)
    IN  /\ pc = "answering" /\ legs[winner].buffer = <<>> /\ ~legs[winner].done
        /\ queue # <<>>
        /\ \/ item.leg # winner /\ UNCHANGED <<pc, out, raised>>
           \/ /\ item.leg = winner /\ item.kind \in {"quiet", "word"}
              /\ out' = Append(out, item)
              /\ UNCHANGED <<pc, raised>>
           \/ item.leg = winner /\ item.kind = "end" /\ Finished("none") /\ UNCHANGED out
           \/ item.leg = winner /\ item.kind \in Failures /\ Finished(item.kind) /\ UNCHANGED out
        /\ queue' = IF pc' = "finished" THEN <<>> ELSE Tail(queue)
        /\ UNCHANGED <<legs, triggers, cross, armed, widened, notedSlow, winner, judged, noted>>

CloseReply ==
    /\ pc = "answering"
    /\ legs' = Aborted(legs, {winner})
    /\ pc' = "stopped" /\ queue' = <<>>
    /\ UNCHANGED <<triggers, cross, armed, widened, notedSlow, winner, out, told>>
-----------------------------------------------------------------------------
Init ==
    /\ legs = <<Leg(Home)>> /\ judged = <<0>>
    /\ queue = <<>> /\ out = <<>>
    /\ triggers = MaxLegs - 1
    /\ cross = Raced
    /\ armed = Bounded
    /\ widened = 0 /\ notedSlow = {}
    /\ pc = "racing" /\ winner = 0
    /\ raised = 0 /\ noted = [m \in Models |-> 0]

LegStep(i) ==
    \/ \E kind \in {"quiet", "word"} : LegReads(i, kind)
    \/ LegEnds(i)
    \/ \E failure \in Failures : LegFails(i, failure)

RaceStep == Receive \/ ReadHeld \/ ReadDone \/ ReadNext

Next ==
    \/ \E i \in Legs : LegStep(i)
    \/ OpenBackup \/ OpenCross
    \/ \E model \in Spare : Widen(model)
    \/ KeepWaiting \/ NoHandOver \/ HandOver
    \/ RaceStep
    \/ Stopped \/ CloseReply

Spec == Init /\ [][Next]_vars

\* Every request ends, by its provider or by its read timeout, and the
\* caller's thread goes on.
FairSpec ==
    /\ Spec
    /\ WF_vars(RaceStep)
    /\ WF_vars(\E i \in Legs : LegStep(i))
-----------------------------------------------------------------------------
(* Properties                                                               *)

Given(i, n) == \E k \in DOMAIN out : out[k].leg = i /\ out[k].n = n

(* One voice: once a chunk of the winner is given nothing but the winner's *)
(* follows; what was given before is the primary's and carries no word;    *)
(* and each of the two is given from its start, each chunk once and in     *)
(* order, the winner's to its end, across the hand-off from the race to    *)
(* the reply (transport.py:4043-4054, 5786-5803).                          *)
OneVoice ==
    /\ \A k \in DOMAIN out : out[k].leg # winner =>
          /\ out[k].leg = 1 /\ out[k].kind = "quiet"
          /\ \A j \in 1..k : out[j].leg # winner
    /\ \A j, k \in DOMAIN out : j < k /\ out[j].leg = out[k].leg => out[j].n < out[k].n
    /\ \A k \in DOMAIN out : \A n \in 1..out[k].n : Given(out[k].leg, n)
    /\ pc = "finished" => \A n \in 1..legs[winner].sent : Given(winner, n)

(* A leg that fails is judged on its own key, once: when the race itself   *)
(* is decided, every failure it took from the queue has gone to            *)
(* _on_failure or to the caller, and none to both (transport.py:3844-3847, *)
(* 4094-4096, 4105-4106).                                                  *)
JudgedOnce ==
    pc \in {"answering", "finished", "failed"} => \A i \in Legs :
        IF i = winner THEN judged[i] = 0
        ELSE judged[i] + (IF raised = i THEN 1 ELSE 0) = IF legs[i].error # "none" THEN 1 ELSE 0

(* The caller is told the request failed only when no leg could answer:    *)
(* all are done and none ended by itself (transport.py:4075-4080, 4106).   *)
FailsOnlyTogether ==
    pc = "failed" => \A i \in Legs : legs[i].done /\ legs[i].error # "none"

(* No model's busy window is opened, or doubled, twice by one race         *)
(* (transport.py:3872, 3990-3999, 4138-4143). The probe's is: the drain    *)
(* and the end of the race both note it (3750-3752, 4143).                 *)
NotedOnce == \A m \in Models \ {Probe} : noted[m] <= 1

(* No leg keeps reading - and billing - after the race is gone (transport. *)
(* py:4068-4071): once it is decided, given up or handed over, only the    *)
(* winner's thread takes another chunk, and none once the reply is over.   *)
NoLegReadsOn ==
    [][\A i \in Legs : pc # "racing" /\ ~(pc = "answering" /\ i = winner)
         => legs'[i].sent = legs[i].sent]_vars

(* A reply is never left hanging: every race is decided, and the answer    *)
(* read to its end, while every leg's request ends.                        *)
RaceEnds == Reading ~> ~Reading

=============================================================================

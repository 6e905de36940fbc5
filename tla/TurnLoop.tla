------------------------------ MODULE TurnLoop ------------------------------
(* One call of Hermes, driven by KameTransport._drive until it is answered *)
(* or given back: keys are tried in turn, a cut answer is continued on the *)
(* next key, a broken tool call is asked for again, every key resting is   *)
(* waited out, and the call may move to another model of the user's list.  *)
(* Where it may move is decided by FallbackLadder, how a streamed request  *)
(* is raced by StreamRace, one that is not by HedgedCall: here each is a   *)
(* choice among the outcomes those modules allow. So are the kind a        *)
(* refusal is read as, and the rest it gives a key (Carousel): at every    *)
(* turn of the loop a key may be free, or none is, whatever the call did   *)
(* to them before.                                                         *)
EXTENDS Naturals, FiniteSets

CONSTANTS
    Keys,          \* the keys of the provider: every model of the list has a pool of them
    NoKey,         \* no attempt is in flight
    Models,        \* the models of the user's list the call can be moved to
    Home,          \* the model Hermes asked for
    Channels,      \* who calls: "main", or a background job's class
    Refusals,      \* what a request can fail with: part of RotateKinds \cup RaiseKinds
    ResumeBudget,  \* stream_resume_limit
    Ongoing,       \* stream_resume_limit is unset: no limit
    EmptyBudget,   \* EMPTY_RETRY_BUDGET
    MaxAux,        \* aux_budget.LIMITS: requests of a background job
    Waits,         \* max_total_wait_seconds is set
    Stays,         \* the user said never to leave the model, and has a list of them
    LateDrops,     \* a provider may break the connection after its finish
    MaxText        \* bound: words of one answer

\* How _on_failure ends: with a verdict that lets another key try, or with
\* one that raises (before any key is marked).
\* A timeout the provider answered with ("gateway") also says it is busy.
TimeoutKinds == {"timeout", "gateway"}
BusyKinds == {"server", "gateway"}
RotateKinds == TimeoutKinds \cup BusyKinds \cup {"quota", "spent", "denied"}
RaiseKinds == {"shape", "prefill", "fatal"}
QuotaKinds == {"quota", "spent"}
\* What gives a call back when every key says it; of the other refusals a
\* verdict needs to show only that they are something else.
PoolKinds == {"denied", "spent"}
Verdict(kind) == IF kind \in PoolKinds THEN kind ELSE "none"

ASSUME LoopAssumption ==
    /\ IsFiniteSet(Keys) /\ Keys # {} /\ NoKey \notin Keys
    /\ Home \in Models
    /\ Channels \subseteq {"main", "cosmetic", "important"}
    /\ Refusals \subseteq RotateKinds \cup RaiseKinds
    /\ ResumeBudget \in Nat /\ Ongoing \in BOOLEAN /\ EmptyBudget \in Nat /\ MaxAux \in Nat \ {0}
    /\ Waits \in BOOLEAN /\ Stays \in BOOLEAN /\ LateDrops \in BOOLEAN
    /\ MaxText \in Nat

VARIABLES
    pc,       \* "start", "loop", "open", "wait" or "done"
    job,      \* [channel, stream]
    key,      \* the key of the attempt in flight
    at,       \* [model, verdicts, timeouts, busy]: what circle_to resets
    walk,     \* [visited, excluded, plain]: models left, models that refused the
              \* request's shape, models that refuse a prefill
    said,     \* [seen, shown, text]: shown before this attempt, in it, and whether
              \* the attempt carried words at all
    tool,     \* [held, carried, cut, replay]: parts held back, a part came in this
              \* attempt, keys that broke off inside a call, asking for it again
    stitch,   \* [resumes, stalled]: continuations, keys that added nothing
    empties,  \* what is left of the allowance for empty answers
    asked,    \* requests of a background job
    stop,     \* Hermes cancelled the call
    finished, \* a finish reason arrived in this attempt
    tools,    \* what Hermes has of a tool call
    ending,   \* "open", or how the call ended
    why,      \* history: the rule that ended it
    proof,    \* history: the last refusal of each key, and the model it came from
    idle      \* history: continuations since the text last grew

answer == <<said, tool, stitch, empties, finished, tools, idle>>
route == <<job, walk, at>>
vars == <<pc, job, key, at, walk, said, tool, stitch, empties, asked, stop, finished,
          tools, ending, why, proof, idle>>

Grown == said.seen + said.shown
Main == job.channel = "main"

\* The refusals RefusalProved tells apart, and none of them.
NoRefusal == [model |-> Home, kind |-> "none"]
Refusal(kind) == IF kind \in PoolKinds THEN [model |-> at.model, kind |-> kind] ELSE NoRefusal

FreshAt(m) == [model |-> m, verdicts |-> [k \in Keys |-> "none"], timeouts |-> 0, busy |-> {}]

\* Where _wrap_target, _stand_in_for and _maybe_hand_over may take a call:
\* a conversation's, with nothing of the answer on screen.
Movable == Main /\ said.seen = 0 /\ ~Stays
StandIns == IF Movable THEN Models \ ({at.model} \cup walk.visited \cup walk.excluded) ELSE {}
Circles == IF Movable THEN Models \ ({at.model} \cup walk.excluded) ELSE {}

Init ==
    /\ pc = "start"
    /\ job \in [channel : Channels, stream : BOOLEAN]
    /\ key = NoKey
    /\ at = FreshAt(Home)
    /\ walk = [visited |-> {}, excluded |-> {}, plain |-> {}]
    /\ said = [seen |-> 0, shown |-> 0, text |-> FALSE]
    /\ tool = [held |-> FALSE, carried |-> FALSE, cut |-> {}, replay |-> FALSE]
    /\ stitch = [resumes |-> 0, stalled |-> {}]
    /\ empties = EmptyBudget
    /\ asked = 0
    /\ stop = FALSE
    /\ finished = FALSE
    /\ tools = "none"
    /\ ending = "open"
    /\ why = "none"
    /\ proof = [k \in Keys |-> NoRefusal]
    /\ idle = 0

-----------------------------------------------------------------------------
\* How a call ends.
EndAs(e, w) == pc' = "done" /\ ending' = e /\ why' = w
Stay == UNCHANGED <<ending, why>>

\* Mutant of MoveTo: the refusals met on the model that was left still count.
MoveKeepingVerdicts(m) ==
    /\ at' = [at EXCEPT !.model = m]
    /\ walk' = [walk EXCEPT !.visited = @ \cup {at.model}]

\* circle_to.
MoveTo(m) ==
    /\ at' = FreshAt(m)
    /\ walk' = [walk EXCEPT !.visited = @ \cup {at.model}]

\* The call starts: a background job that cannot start well does not start;
\* a conversation's call on a model known busy starts elsewhere, or is handed on.
Start ==
    /\ pc = "start"
    /\ \/ pc' = "loop" /\ Stay /\ UNCHANGED <<at, walk>>
       \/ ~Main /\ EndAs("dropped", "aux") /\ UNCHANGED <<at, walk>>
       \/ Movable /\ EndAs("handed", "moved") /\ UNCHANGED <<at, walk>>
       \/ \E m \in StandIns : MoveTo(m) /\ pc' = "loop" /\ Stay
    /\ UNCHANGED <<job, key, answer, asked, stop, proof>>

\* Hermes asked for the end, read at the top of the loop.
StopAtTop ==
    /\ pc = "loop" /\ stop
    /\ EndAs(IF said.seen > 0 THEN "cut" ELSE "stopped", "stop")
    /\ UNCHANGED <<route, key, answer, asked, stop, proof>>

OverBudget == ~Main /\ said.seen = 0 /\ asked >= MaxAux

\* Its requests are used up, or its time is.
AuxLimit ==
    /\ pc = "loop" /\ ~stop
    /\ ~Main /\ said.seen = 0
    /\ EndAs("dropped", "aux")
    /\ UNCHANGED <<route, key, answer, asked, stop, proof>>

\* Mutant of Raced: an answer that is being continued is raced too.
RacedMidAnswer == Main /\ ~tool.replay

\* One attempt goes out. A fresh request of a conversation may be raced: the
\* leg that speaks first is another key's or another model's, and the rest of
\* the call is that model's.
Raced == Main /\ said.seen = 0 /\ ~tool.replay

Ask ==
    /\ pc = "loop" /\ ~stop /\ ~OverBudget
    /\ key' \in Keys
    /\ \E m \in IF Raced /\ job.stream THEN Models ELSE {at.model} :
         IF m = at.model THEN UNCHANGED at
         ELSE at' = [FreshAt(m) EXCEPT !.timeouts = at.timeouts]
    /\ pc' = "open"
    /\ asked' = IF Main \/ asked = MaxAux THEN asked ELSE asked + 1
    /\ said' = [said EXCEPT !.shown = 0, !.text = FALSE]
    /\ tool' = [tool EXCEPT !.held = FALSE, !.carried = FALSE]
    /\ finished' = FALSE
    /\ Stay
    /\ UNCHANGED <<job, walk, stitch, empties, stop, tools, proof, idle>>

\* Every key rests: a background job that may not wait stops, a call whose
\* wait is used up ends, one that may move does, and the rest wait.
Resting ==
    /\ pc = "loop" /\ ~stop /\ ~OverBudget
    /\ \/ ~Main /\ said.seen = 0 /\ EndAs("dropped", "aux") /\ UNCHANGED <<at, walk>>
       \/ /\ ~(job.channel = "cosmetic" /\ said.seen = 0)
          /\ \/ Waits /\ EndAs("expired", "wait") /\ UNCHANGED <<at, walk>>
             \/ Movable /\ EndAs("handed", "moved") /\ UNCHANGED <<at, walk>>
             \/ \E m \in Circles : MoveTo(m) /\ pc' = "loop" /\ Stay
             \/ pc' = "wait" /\ Stay /\ UNCHANGED <<at, walk>>
    /\ UNCHANGED <<job, key, answer, asked, stop, proof>>

\* _wait_for_recovery returns: a key is back, or the moment it was told to
\* look again. A stop is read once a second.
Wake ==
    /\ pc = "wait"
    /\ IF stop
       THEN /\ EndAs(IF said.seen > 0 THEN "cut" ELSE "stopped", "stop")
            /\ UNCHANGED at
       ELSE /\ at' = [at EXCEPT !.timeouts = 0]
            /\ \/ pc' = "loop" /\ Stay
               \/ ~Main /\ said.seen = 0 /\ EndAs("dropped", "aux")
    /\ UNCHANGED <<job, key, walk, answer, asked, stop, proof>>

-----------------------------------------------------------------------------
\* What a stream sends. A chunk that arrives after the stop ends the call.
Flowing == pc = "open" /\ job.stream /\ ~finished /\ ~stop

StopAtChunk ==
    /\ pc = "open" /\ job.stream /\ stop
    /\ EndAs("stopped", "stop") /\ key' = NoKey
    /\ UNCHANGED <<route, answer, asked, stop, proof>>

\* Words: trimmed to what is new by the stitcher of a continuation.
Text ==
    /\ Flowing
    /\ \E new \in IF said.seen > 0 THEN {0, 1} ELSE {1} :
         /\ Grown + new <= MaxText
         /\ said' = [said EXCEPT !.shown = @ + new, !.text = TRUE]
         /\ idle' = IF new > 0 THEN 0 ELSE idle
    /\ Stay
    /\ UNCHANGED <<pc, route, key, tool, stitch, empties, asked, stop,
                   finished, tools, proof>>

\* A part of a tool call: held until the call is whole.
ToolPart ==
    /\ Flowing
    /\ tool' = [tool EXCEPT !.held = TRUE, !.carried = TRUE]
    /\ Stay
    /\ UNCHANGED <<pc, route, key, said, stitch, empties, asked, stop,
                   finished, tools, proof, idle>>

\* Mutant of Finish: the held parts are sent but not dropped from the list.
FinishKeepingParts ==
    /\ Flowing
    /\ \E tail \in IF said.seen > 0 /\ Grown < MaxText THEN {0, 1} ELSE {0} :
         /\ said' = [said EXCEPT !.shown = @ + tail]
         /\ idle' = IF tail > 0 THEN 0 ELSE idle
    /\ finished' = TRUE
    /\ tools' = IF tool.held THEN "half" ELSE tools
    /\ tool' = [tool EXCEPT !.held = FALSE]
    /\ Stay
    /\ UNCHANGED <<pc, route, key, stitch, empties, asked, stop, proof>>

\* The finish: the stitcher's last words, the held call, then the finish.
Finish ==
    /\ Flowing
    /\ \E tail \in IF said.seen > 0 /\ Grown < MaxText THEN {0, 1} ELSE {0} :
         /\ said' = [said EXCEPT !.shown = @ + tail]
         /\ idle' = IF tail > 0 THEN 0 ELSE idle
    /\ finished' = TRUE
    /\ tools' = IF tool.held THEN "whole" ELSE tools
    /\ tool' = [tool EXCEPT !.held = FALSE]
    /\ Stay
    /\ UNCHANGED <<pc, route, key, stitch, empties, asked, stop, proof>>

-----------------------------------------------------------------------------
\* An empty answer is asked for again while the allowance lasts.
EmptyAgain ==
    /\ empties' = empties - 1
    /\ pc' = "loop" /\ Stay
    /\ UNCHANGED <<said, tool, stitch, idle>>

GiveAnswer ==
    /\ EndAs("given", "answer")
    /\ UNCHANGED <<said, tool, stitch, empties, idle>>

Nothing == ~said.text /\ ~tool.carried /\ Grown = 0

\* Mutant of Answered: an empty answer is always asked for again.
AnsweredAgain ==
    /\ pc = "open" /\ (job.stream => finished)
    /\ \E nothing \in IF job.stream THEN {Nothing} ELSE BOOLEAN :
         IF nothing THEN EmptyAgain ELSE GiveAnswer
    /\ key' = NoKey
    /\ UNCHANGED <<route, asked, stop, finished, tools, proof>>

\* The attempt came to its end: a finished stream, or a whole result.
Answered ==
    /\ pc = "open" /\ (job.stream => finished)
    /\ \E nothing \in IF job.stream THEN {Nothing} ELSE BOOLEAN :
         IF nothing /\ empties > 0 THEN EmptyAgain ELSE GiveAnswer
    /\ key' = NoKey
    /\ UNCHANGED <<route, asked, stop, finished, tools, proof>>

\* Mutant of Stalled: a continuation that added nothing wipes the marks.
StalledForgotten(s) == IF s > 0 THEN {} ELSE {}

\* The keys that added nothing since the text last grew.
Stalled(s) == IF s > 0 THEN {} ELSE stitch.stalled \cup {key}

CanResume == Ongoing \/ stitch.resumes < ResumeBudget

Continue(s) ==
    /\ stitch' = [resumes |-> IF Ongoing THEN stitch.resumes ELSE stitch.resumes + 1,
                  stalled |-> Stalled(s)]
    /\ idle' = IF s > 0 THEN 0 ELSE idle + 1
    /\ pc' = "loop" /\ Stay

\* The words the stitcher still held when the attempt ended.
Tails == IF said.seen > 0 /\ Grown < MaxText THEN {0, 1} ELSE {0}
Said(tail) == [seen |-> Grown + tail, shown |-> 0, text |-> FALSE]

\* The stream stopped inside a tool call. It has not run: the same request
\* goes to another key once for each key, and after that the half is given.
HalfCall(tail, clean) ==
    /\ said' = Said(tail)
    /\ IF key \notin tool.cut /\ \E k \in Keys : k \notin tool.cut \cup {key}
       THEN /\ tool' = [tool EXCEPT !.held = FALSE, !.cut = @ \cup {key}, !.replay = TRUE]
            /\ pc' = "loop" /\ Stay
            /\ UNCHANGED tools
       ELSE /\ tool' = [tool EXCEPT !.held = FALSE, !.cut = @ \cup {key}]
            /\ tools' = "half"
            /\ EndAs(IF clean THEN "given" ELSE "dropped", "half")
    /\ idle' = IF said.shown + tail > 0 THEN 0 ELSE idle
    /\ UNCHANGED <<at, walk, stitch, empties, proof>>

\* The provider closed the stream without a finish: what was shown is
\* continued on another key while continuations add something.
CutAnswer(tail) ==
    /\ said' = Said(tail)
    /\ LET more == said.shown + tail IN
       IF /\ Grown + tail > 0
          /\ more > 0 \/ key \notin stitch.stalled
          /\ CanResume
       THEN Continue(more)
       ELSE /\ EndAs("given", "cut short")
            /\ stitch' = [stitch EXCEPT !.stalled = Stalled(more)]
            /\ idle' = IF more > 0 THEN 0 ELSE idle
    /\ UNCHANGED <<at, walk, tool, empties, tools, proof>>

Closed ==
    /\ pc = "open" /\ job.stream /\ ~finished
    /\ \E tail \in Tails :
         \/ tool.held /\ HalfCall(tail, TRUE)
         \/ ~tool.held /\ (said.text \/ Grown + tail > 0) /\ CutAnswer(tail)
         \/ /\ ~tool.held /\ ~said.text /\ Grown + tail = 0
            /\ IF empties > 0 THEN EmptyAgain ELSE GiveAnswer
            /\ UNCHANGED <<at, walk, tools, proof>>
    /\ key' = NoKey
    /\ UNCHANGED <<job, asked, stop, finished>>

-----------------------------------------------------------------------------
\* Text on screen: the answer is continued, unless the budget is spent or
\* this key added nothing twice; then the call ends with the answer so far.
FailedMidAnswer(tail) ==
    LET more == said.shown + tail IN
    /\ IF CanResume /\ (more > 0 \/ key \notin stitch.stalled)
       THEN Continue(more)
       ELSE /\ EndAs("cut", "cut short")
            /\ idle' = IF more > 0 THEN 0 ELSE idle
            /\ UNCHANGED stitch
    /\ UNCHANGED <<at, walk>>

\* _on_failure raised. A model moved to that refuses the shape of Hermes'
\* request is left out and the call goes home; a prefill refused for the
\* first time is asked for in another way; anything else is the ending.
Raises(kind, tail) ==
    /\ IF kind = "shape" /\ Grown = 0 /\ walk.visited # {} /\ at.model # Home
       THEN /\ at' = FreshAt(Home)
            /\ walk' = [walk EXCEPT !.visited = @ \cup {at.model}, !.excluded = @ \cup {at.model}]
            /\ pc' = "loop" /\ Stay
       ELSE IF kind = "prefill" /\ said.seen > 0 /\ at.model \notin walk.plain
            THEN /\ walk' = [walk EXCEPT !.plain = @ \cup {at.model}]
                 /\ pc' = "loop" /\ Stay /\ UNCHANGED at
            ELSE /\ EndAs(IF Grown + tail > 0 THEN "cut" ELSE "dropped", kind)
                 /\ UNCHANGED <<at, walk>>
    /\ idle' = IF said.shown + tail > 0 THEN 0 ELSE idle
    /\ UNCHANGED <<stitch, proof>>

\* One busy key is enough while the model is known busy, two always are.
BusyNow(b) == IF Cardinality(b) >= 2 THEN {TRUE} ELSE IF b = {} THEN {FALSE} ELSE BOOLEAN

\* The rules that give a refused call back, in the code's order. others: the
\* keys of the raced legs refused beside this one.
GivenBack(kind, v, timeouts, busy) ==
    IF ~Main /\ (Cardinality(busy) >= 2 \/ (job.channel = "cosmetic" /\ kind \in QuotaKinds))
    THEN "aux"
    ELSE IF timeouts >= 2 /\ Main /\ ~Stays THEN "slow"
    ELSE IF kind \in PoolKinds /\ \A k \in Keys : v[k] = kind THEN kind
    ELSE "no"

\* Nothing on screen: the refusal counts against this model's keys, and the
\* call moves, is given back, or tries the next key.
FailedAtStart(kind, others) ==
    LET refused == others \cup {key}
        v == [k \in Keys |-> IF k \in refused THEN Verdict(kind) ELSE at.verdicts[k]]
        timeouts == IF kind \in TimeoutKinds THEN at.timeouts + 1 ELSE 0
        busy == at.busy \cup (IF kind \in BusyKinds THEN refused ELSE {})
        back == GivenBack(kind, v, timeouts, busy)
    IN /\ \/ Movable /\ EndAs("handed", "moved") /\ UNCHANGED <<at, walk>>
          \/ /\ ~tool.replay
             /\ \/ \E m \in StandIns : MoveTo(m)
                \/ TRUE \in BusyNow(busy) /\ \E m \in Circles : MoveTo(m)
             /\ pc' = "loop" /\ Stay
          \/ back # "no" /\ EndAs("dropped", back) /\ UNCHANGED <<at, walk>>
          \/ /\ back = "no"
             /\ at' = [at EXCEPT !.verdicts = v, !.busy = busy,
                                 !.timeouts = IF timeouts > 2 THEN 2 ELSE timeouts]
             /\ pc' = "loop" /\ Stay /\ UNCHANGED walk
       /\ proof' = [k \in Keys |-> IF k \in refused THEN Refusal(kind) ELSE proof[k]]
       /\ UNCHANGED <<stitch, idle>>

\* The attempt failed. Mid-answer, in a tool call, or before any of it.
Fail ==
    /\ pc = "open" /\ (finished => LateDrops)
    /\ \E kind \in Refusals, tail \in Tails :
         /\ IF tool.held THEN HalfCall(tail, FALSE)
            ELSE /\ said' = Said(tail)
                 /\ IF kind \in RaiseKinds THEN Raises(kind, tail)
                    ELSE IF Grown + tail > 0
                    THEN /\ FailedMidAnswer(tail)
                         /\ proof' = [proof EXCEPT ![key] = Refusal(kind)]
                    ELSE \E others \in IF Main THEN SUBSET (Keys \ {key}) ELSE {{}} :
                            FailedAtStart(kind, others)
                 /\ UNCHANGED <<tool, empties, tools>>
    /\ key' = NoKey
    /\ UNCHANGED <<job, asked, stop, finished>>

-----------------------------------------------------------------------------
\* Hermes cancels the call, at any moment.
Cancel ==
    /\ pc # "done" /\ ~stop
    /\ stop' = TRUE
    /\ Stay
    /\ UNCHANGED <<pc, route, key, answer, asked, proof>>

Loop == Start \/ StopAtTop \/ AuxLimit \/ Ask \/ Resting \/ Wake
Stream == StopAtChunk \/ Text \/ ToolPart \/ Finish
Ends == Answered \/ Closed \/ Fail

Next == Loop \/ Stream \/ Ends \/ Cancel

Spec == Init /\ [][Next]_vars

-----------------------------------------------------------------------------
TypeOK ==
    /\ pc \in {"start", "loop", "open", "wait", "done"}
    /\ job \in [channel : Channels, stream : BOOLEAN]
    /\ key \in Keys \cup {NoKey}
    /\ at \in [model : Models, verdicts : [Keys -> PoolKinds \cup {"none"}],
               timeouts : 0..2, busy : SUBSET Keys]
    /\ walk \in [visited : SUBSET Models, excluded : SUBSET Models, plain : SUBSET Models]
    /\ said \in [seen : Nat, shown : Nat, text : BOOLEAN]
    /\ tool \in [held : BOOLEAN, carried : BOOLEAN, cut : SUBSET Keys, replay : BOOLEAN]
    /\ stitch \in [resumes : Nat, stalled : SUBSET Keys]
    /\ empties \in Nat
    /\ asked \in 0..MaxAux
    /\ stop \in BOOLEAN /\ finished \in BOOLEAN
    /\ tools \in {"none", "whole", "half"}
    /\ ending \in {"open", "given", "cut", "dropped", "handed", "stopped", "expired"}
    /\ proof \in [Keys -> [model : Models, kind : PoolKinds \cup {"none"}]]
    /\ idle \in Nat

\* What Hermes sees is a reply: whatever keys, models and continuations the
\* loop goes through, text only grows, a tool call arrives whole once or as
\* the last thing, nothing follows the finish, and the turn is given to
\* somebody else only with an empty screen.
\* (An empty stream's finish is passed on and does not close the answer: the
\* next key is asked.)
Promise == INSTANCE Reply WITH text <- Grown, closed <- finished /\ ~Nothing
KeepsPromise == Promise!Spec

\* An answer belongs to one model: once a word of it is on screen no race,
\* stand-in, circle back or shape refusal moves the call to another.
OneModelAnswers == [][Grown > 0 => at'.model = at.model]_vars

\* Continuations end: between two words of an answer every key is asked to
\* go on at most once, so a reply nobody can complete is handed back.
NoEndlessResume == idle <= Cardinality(Keys)

\* A call is given back as refused by the whole pool only when every key of
\* the model it is on gave that refusal as its last one in this call:
\* refusals met on a model the call has left are not counted.
RefusalProved ==
    why \in {"denied", "spent"} => \A k \in Keys : proof[k] = [model |-> at.model, kind |-> why]
=============================================================================

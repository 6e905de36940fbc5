--------------------------- MODULE FallbackLadder ---------------------------
(* Which model of the user's list a reply is asked on. Every reply starts   *)
(* on the model Hermes asked for; a model that says it is busy is left for  *)
(* a window of time and looked at again every ProbeEvery; a reply moves to  *)
(* a sibling in place (stand-in, circle back) or is handed to Hermes, whose *)
(* own walk only goes down the list. Conversations share what is known of a *)
(* model, and decide without a lock: only a look at a busy model is claimed *)
(* under one. Clocks are kept as the time left or gone by.                  *)
(* Not here: "Never switch" and a background job, where every one of these  *)
(* steps returns at once, and the race for the first word (StreamRace).     *)
EXTENDS Integers, Sequences

CONSTANTS
    Order,       \* [main] + fallback_providers
    Siblings,    \* the entries on the main model's provider and endpoint
    Convs,       \* conversations
    Pick,        \* conversation -> the model its replies start on
    ProbeEvery,  \* _PROBE_EVERY_S
    BusyFirst,   \* _BUSY_FIRST_S
    BusyMax,     \* _BUSY_MAX_S
    Memo,        \* _HANDOVER_MEMO_S
    Permit,      \* _WALK_PERMIT_S
    Resting,     \* bound: the entries whose keys may all be resting
    Stormy,      \* bound: the entries that may say they are busy
    PassedOn,    \* bound: the entries whose failures may be passed on to Hermes
    Watched,     \* bound: the entries whose looks and circles are timed
    Nobody       \* no entry

Entries == {Order[i] : i \in DOMAIN Order}
Main == Order[1]

ASSUME LadderAssumption ==
    /\ Order # <<>> /\ \A i, j \in DOMAIN Order : Order[i] = Order[j] => i = j
    /\ Siblings \subseteq Entries /\ Nobody \notin Entries
    /\ Resting \cup Stormy \cup PassedOn \cup Watched \subseteq Entries
    /\ Pick \in [Convs -> Entries]
    /\ ProbeEvery \in Nat \ {0} /\ Memo \in Nat \ {0} /\ Permit \in Nat \ {0}
    /\ BusyFirst \in Nat \ {0} /\ BusyMax \in Nat /\ BusyFirst <= BusyMax

VARIABLES
    well,    \* the entries with a key that is not resting
    busy,    \* entry -> _busy_until, as the time left; below 0, the time since
    window,  \* entry -> _busy_window
    asked,   \* entry -> the time since _probed_at
    memo,    \* conversation -> entry -> [left, later]: _handover_until, _handover_later
    permit,  \* KAME's and Hermes' table of entry -> [left, origin]: _walk_permits, _HOST_WALK_PERMITS
    call,    \* conversation -> its call
    seen     \* history: what the properties compare

shared == <<well, busy, window, asked, memo, permit>>
vars == <<well, busy, window, asked, memo, permit, call, seen>>

-----------------------------------------------------------------------------
Rank == [e \in Entries |-> CHOOSE i \in DOMAIN Order : Order[i] = e]

\* On the ladder of a reply that started on o, o comes first and the rest in
\* the user's order: e is above f.
Above(o, e, f) == f # o /\ (e = o \/ Rank[e] < Rank[f])

After(o, p) == {e \in Entries : Above(o, p, e)}

FirstIn(o, S) ==
    LET first == {e \in S : \A f \in S \ {e} : Above(o, e, f)}
    IN  IF first = {} THEN Nobody ELSE CHOOSE e \in first : TRUE

\* _later; _hermes_later: Hermes' walk never goes to the main model.
Later(c) == After(call[c].origin, call[c].pos)

Hand(c) == Later(c) \ {Main}

\* What Hermes' own walk still has before it, whatever KAME knows of the reply.
Ahead(c) == After(Pick[c], call[c].pos) \ {Main}

SiblingsOf(e) == IF e \in Siblings THEN Siblings ELSE {e}

Busy(e) == busy[e] > 0

Due(e) == asked[e] >= ProbeEvery

Free(e) == e \in well /\ (~Busy(e) \/ Due(e))

FreeEntries == {e \in Entries : Free(e)}

IsBusy(c) ==
    \/ call[c].tired >= 2
    \/ call[c].tired = 1 /\ busy[call[c].at] > -BusyFirst

Least(a, b) == IF a < b THEN a ELSE b

Most(a, b) == IF a > b THEN a ELSE b

\* Caught again within a window of the last one: twice as long.
NextWindow(e) ==
    IF window[e] > 0 /\ busy[e] > -Most(BusyFirst, window[e])
    THEN Least(BusyMax, 2 * window[e]) ELSE BusyFirst

NoteBusy(e) ==
    /\ window' = [window EXCEPT ![e] = NextWindow(e)]
    /\ busy' = [busy EXCEPT ![e] = NextWindow(e)]
    /\ asked' = [asked EXCEPT ![e] = 0]

-----------------------------------------------------------------------------
NoCall == [pc |-> "idle", pos |-> Nobody, at |-> Nobody, origin |-> Nobody, visited |-> {},
           excluded |-> {}, tired |-> 0, noted |-> FALSE, why |-> "none", aim |-> Nobody,
           beside |-> Nobody]

NoPermits == [e \in Entries |-> [left |-> 0, origin |-> Nobody]]

Init ==
    /\ well = Entries
    /\ busy = [e \in Entries |-> -BusyMax]
    /\ window = [e \in Entries |-> 0]
    /\ asked = [e \in Entries |-> ProbeEvery]
    /\ memo = [c \in Convs |-> [e \in Entries |-> [left |-> 0, later |-> {}]]]
    /\ permit = [kame |-> NoPermits, host |-> NoPermits]
    /\ call = [c \in Convs |-> NoCall]
    /\ seen = [look |-> [e \in Watched |-> ProbeEvery], early |-> FALSE,
               circled |-> [c \in Convs |-> [e \in Watched |-> ProbeEvery]], quick |-> FALSE,
               stayed |-> [c \in Convs |-> FALSE]]

Goto(c, pc) == call' = [call EXCEPT ![c] = [@ EXCEPT !.pc = pc]]

\* Where to go on: at the start, with every key resting, or after a failure.
Consider(c, why) ==
    call' = [call EXCEPT ![c] = [@ EXCEPT !.pc = "decide", !.why = why, !.aim = Nobody]]

\* circle_to.
MovedTo(c, e) ==
    [call[c] EXCEPT !.pc = "ask", !.at = e, !.visited = @ \cup {call[c].at}, !.tired = 0,
                    !.noted = FALSE, !.aim = Nobody, !.why = "none"]

\* history: a claimed look at the busy models L, and a circle of c to e.
Looked(L, c, e) ==
    seen' = [seen EXCEPT !.look = [x \in Watched |-> IF x \in L THEN 0 ELSE @[x]],
                         !.early = @ \/ \E x \in L \cap Watched : seen.look[x] < ProbeEvery,
                         !.circled[c] = [x \in Watched |-> IF x = e THEN 0 ELSE @[x]],
                         !.quick = @ \/ (e \in Watched /\ seen.circled[c][e] < ProbeEvery)]

-----------------------------------------------------------------------------
\* A live permit names a start that is not this conversation's.
Misleads(c) ==
    \E e \in Entries : \E p \in {permit.kame[e], permit.host[e]} : p.left > 0 /\ p.origin # Pick[c]

\* A reply starts on the model its conversation is set to.
Turn(c) ==
    /\ call[c].pc = "idle"
    /\ call' = [call EXCEPT ![c] = [@ EXCEPT !.pc = "begin", !.pos = Pick[c]]]
    /\ seen' = [seen EXCEPT !.stayed[c] = @ /\ Misleads(c)]
    /\ UNCHANGED shared

\* Mutant of OriginOf: where the call arrives is where its reply started.
OriginForgotten(p) == p

\* _permit_origin: the first table with a live permit tells.
PermitOrigin(p, first, second) ==
    IF first[p].left > 0 THEN first[p].origin
    ELSE IF second[p].left > 0 THEN second[p].origin ELSE p

\* The main model, and a model no walk is permitted to, start a reply.
OriginOf(p) == IF p = Main THEN p ELSE PermitOrigin(p, permit.kame, permit.host)

\* The call outlived its permit: none tells any more on whose walk it is.
Uncovered(c) ==
    LET p == call[c].pos
    IN  p # Pick[c] /\ permit.kame[p].left = 0 /\ permit.host[p].left = 0

\* The call arrives: a hand-over that pointed here is over, whoever's it was.
Begin(c) ==
    /\ call[c].pc = "begin"
    /\ LET p == call[c].pos IN
       /\ memo' = [d \in Convs |-> [e \in Entries |->
                      IF p \in memo[d][e].later THEN [left |-> 0, later |-> {}] ELSE memo[d][e]]]
       /\ call' = [call EXCEPT ![c] = [NoCall EXCEPT !.pc = "start", !.pos = p, !.at = p,
                                                     !.origin = OriginOf(p)]]
    /\ seen' = [seen EXCEPT !.circled[c] = [e \in Watched |-> ProbeEvery]]
    /\ UNCHANGED <<well, busy, window, asked, permit>>

\* The model the plan would start on: the first free one, if a sibling.
PlanTarget(c) ==
    LET t == FirstIn(call[c].origin, Later(c) \cap FreeEntries) IN
    IF t \in SiblingsOf(call[c].at) THEN t ELSE Nobody

\* Mutant of Start: a reply that finds the model busy opens its window again.
StartNotingAgain(c) ==
    /\ call[c].pc = "start"
    /\ IF ~Busy(call[c].at) THEN Goto(c, "ask") /\ UNCHANGED <<busy, window, asked>>
       ELSE Consider(c, "start") /\ NoteBusy(call[c].at)
    /\ UNCHANGED <<well, memo, permit, seen>>

\* A model known busy is not asked by itself. Only a streamed reply plans to
\* ask it beside the next one.
Start(c) ==
    /\ call[c].pc = "start"
    /\ IF ~Busy(call[c].at) THEN Goto(c, "ask")
       ELSE \/ /\ PlanTarget(c) # Nobody
               /\ call' = [call EXCEPT ![c] = [@ EXCEPT !.pc = "plan", !.aim = PlanTarget(c)]]
            \/ Consider(c, "start")
    /\ UNCHANGED <<shared, seen>>

\* Mutant of Plan: the target chosen before the lock is not looked at again.
PlanUnchecked(c) ==
    /\ call[c].pc = "plan"
    /\ LET from == call[c].at
           to == call[c].aim
           looks == {from} \cup {e \in {to} : Busy(e)} IN
       /\ asked' = [e \in Entries |-> IF e \in looks THEN 0 ELSE asked[e]]
       /\ call' = [call EXCEPT ![c] = [MovedTo(c, to) EXCEPT !.beside = from]]
       /\ Looked(looks, c, Nobody)
    /\ UNCHANGED <<well, busy, window, memo, permit>>

\* Under the lock: both models are looked at once in ProbeEvery.
Plan(c) ==
    /\ call[c].pc = "plan"
    /\ LET from == call[c].at
           to == call[c].aim
           looks == {from} \cup {e \in {to} : Busy(e)} IN
       IF \A e \in looks : Due(e)
       THEN /\ asked' = [e \in Entries |-> IF e \in looks THEN 0 ELSE asked[e]]
            /\ call' = [call EXCEPT ![c] = [MovedTo(c, to) EXCEPT !.beside = from]]
            /\ Looked(looks, c, Nobody)
       ELSE Consider(c, "start") /\ UNCHANGED <<asked, seen>>
    /\ UNCHANGED <<well, busy, window, memo, permit>>

\* A key of the model is free: the request goes out. Every key rests: moved,
\* handed over, or waited for.
Ask(c) ==
    /\ call[c].pc = "ask"
    /\ IF call[c].at \in well THEN Goto(c, "open") ELSE Consider(c, "rest")
    /\ UNCHANGED <<shared, seen>>

\* The first free model after Hermes' position that this call has not left.
StandIn(c) ==
    LET left == {call[c].at} \cup call[c].visited \cup call[c].excluded
        t == FirstIn(call[c].origin, (Later(c) \cap FreeEntries) \ left)
    IN  IF t \in SiblingsOf(call[c].at) THEN t ELSE Nobody

\* _maybe_hand_over up to the stand-in. A busy model is left at once; for
\* another reason only when the user has waited long enough.
Decide(c) ==
    /\ call[c].pc = "decide"
    /\ LET may == \E e \in Later(c) : Free(e)
           must == call[c].why = "start" \/ IsBusy(c) IN
       \/ /\ may /\ StandIn(c) # Nobody
          /\ call' = [call EXCEPT ![c] = [@ EXCEPT !.pc = "claim", !.aim = StandIn(c)]]
       \/ may /\ StandIn(c) = Nobody /\ Goto(c, "hand")
       \/ (may => ~must) /\ Goto(c, "wrap")
    /\ UNCHANGED <<shared, seen>>

\* _claim_probe: nothing to claim, a look claimed, or somebody else was first.
Claim(c) ==
    /\ call[c].pc = "claim"
    /\ LET e == call[c].aim IN
       IF ~Busy(e) \/ Due(e)
       THEN /\ asked' = IF Busy(e) THEN [asked EXCEPT ![e] = 0] ELSE asked
            /\ call' = [call EXCEPT ![c] = MovedTo(c, e)]
            /\ Looked({x \in {e} : Busy(x)}, c, Nobody)
       ELSE /\ call' = [call EXCEPT ![c] = [@ EXCEPT !.pc = "hand", !.aim = Nobody]]
            /\ UNCHANGED <<asked, seen>>
    /\ UNCHANGED <<well, busy, window, memo, permit>>

\* The rest of _maybe_hand_over. Hermes rebuilds the call on a later model of
\* its own list, asks the same one again when it can use none, or gives up; its
\* hook passes over KAME's own error.
HandOver(c) ==
    /\ call[c].pc = "hand"
    /\ LET from == call[c].at
           hand == Hand(c)
           back == IF IsBusy(c) \/ call[c].why = "start" THEN Most(window[from], BusyFirst)
                   ELSE Memo IN
       IF (\E e \in hand : Free(e)) /\ memo[c][from].left = 0
       THEN /\ memo' = [memo EXCEPT ![c][from] = [left |-> Least(back, Memo), later |-> hand]]
            /\ permit' = [permit EXCEPT !.kame = [e \in Entries |->
                              IF e \in hand THEN [left |-> Permit, origin |-> call[c].origin]
                              ELSE @[e]]]
            /\ \/ \E p \in Ahead(c) \cup {call[c].pos} :
                    /\ call' = [call EXCEPT ![c] = [NoCall EXCEPT !.pc = "begin", !.pos = p]]
                    /\ seen' = [seen EXCEPT !.stayed[c] = @ \/ (p = call[c].pos /\ Uncovered(c))]
               \/ call' = [call EXCEPT ![c] = NoCall] /\ UNCHANGED seen
       ELSE Goto(c, "wrap") /\ UNCHANGED <<memo, permit, seen>>
    /\ UNCHANGED <<well, busy, window, asked>>

\* Mutant of Circle: a model left in this call is taken back once its window
\* has lapsed.
CircleBackAnyway(c) ==
    LET at == call[c].at
        some == {e \in SiblingsOf(at) \ call[c].excluded :
                   /\ e \in well
                   /\ Busy(e) => Due(e)
                   /\ e # at \/ call[c].why = "start"} IN
    IF \E e \in Hand(c) : Free(e) THEN Nobody ELSE FirstIn(call[c].origin, some)

\* _wrap_target: the best sibling that may be asked, when Hermes can be
\* handed nothing.
Circle(c) ==
    LET at == call[c].at
        some == {e \in SiblingsOf(at) \ call[c].excluded :
                   /\ e \in well
                   /\ Busy(e) \/ e \in call[c].visited => Due(e)
                   /\ e # at \/ call[c].why = "start"} IN
    IF \E e \in Hand(c) : Free(e) THEN Nobody ELSE FirstIn(call[c].origin, some)

Wrap(c) ==
    /\ call[c].pc = "wrap"
    /\ LET at == call[c].at
           e == IF call[c].why = "failed" /\ ~IsBusy(c) THEN Nobody ELSE Circle(c)
           left == IF call[c].why = "start" THEN {} ELSE {at} IN
       IF e = Nobody
       THEN /\ call' = [call EXCEPT ![c] = [@ EXCEPT
                              !.pc = IF call[c].why = "rest" THEN "wait" ELSE "ask", !.why = "none"]]
            /\ UNCHANGED <<asked, seen>>
       ELSE /\ asked' = [x \in Entries |-> IF x \in {e} \cup left THEN 0 ELSE asked[x]]
            /\ call' = [call EXCEPT ![c] = IF e = at THEN [@ EXCEPT !.pc = "ask", !.why = "none"]
                                           ELSE MovedTo(c, e)]
            /\ Looked({x \in {e} : Busy(x)}, c, e)
    /\ UNCHANGED <<well, busy, window, memo, permit>>

Wake(c) ==
    /\ call[c].pc = "wait"
    /\ Goto(c, "ask")
    /\ UNCHANGED <<shared, seen>>

-----------------------------------------------------------------------------
\* Nothing is known of e any more.
Cleared(e) ==
    /\ busy' = [busy EXCEPT ![e] = -BusyMax]
    /\ window' = [window EXCEPT ![e] = 0]
    /\ asked' = [asked EXCEPT ![e] = ProbeEvery]
    /\ seen' = [seen EXCEPT
           !.look = [x \in Watched |-> IF x = e THEN ProbeEvery ELSE @[x]],
           !.circled = [d \in Convs |-> [x \in Watched |-> IF x = e THEN ProbeEvery ELSE @[d][x]]]]

\* What comes back. The answer names its model: the one asked, or the busy
\* one beside it.
AnswerBy(c, e) ==
    /\ call[c].pc = "open"
    /\ e \in {call[c].at, call[c].beside}
    /\ Cleared(e)
    /\ call' = [call EXCEPT ![c] = NoCall]
    /\ UNCHANGED <<well, memo, permit>>

Answer(c) == \E e \in Entries : AnswerBy(c, e)

\* The busy model asked beside says so again.
StillBusy(c) ==
    /\ call[c].pc = "open" /\ call[c].beside # Nobody
    /\ NoteBusy(call[c].beside)
    /\ call' = [call EXCEPT ![c] = [@ EXCEPT !.beside = Nobody]]
    /\ UNCHANGED <<well, memo, permit, seen>>

\* n keys of its model said so: two prove it, and so does one just after a
\* window, while the call has not moved.
ProvesBusy(c, n) ==
    \/ n = 2
    \/ call[c].visited = {} /\ ~Busy(call[c].at) /\ busy[call[c].at] > -BusyFirst

\* The provider says it is busy. A call notes that once.
BusyFailure(c) ==
    /\ call[c].pc = "open" /\ call[c].at \in Stormy
    /\ \E n \in {Most(call[c].tired, 1), Least(call[c].tired + 1, 2)} :
         LET noted == call[c].noted \/ ProvesBusy(c, n) IN
         /\ call' = [call EXCEPT ![c] = [@ EXCEPT !.pc = "decide", !.why = "failed", !.tired = n,
                                                  !.noted = noted, !.beside = Nobody]]
         /\ IF noted /\ ~call[c].noted THEN NoteBusy(call[c].at) ELSE UNCHANGED <<busy, window, asked>>
    /\ UNCHANGED <<well, memo, permit, seen>>

\* Another refusal, and the loop goes on.
OtherFailure(c) ==
    /\ call[c].pc = "open"
    /\ call' = [call EXCEPT ![c] = [@ EXCEPT !.pc = "decide", !.why = "failed", !.beside = Nobody]]
    /\ UNCHANGED <<shared, seen>>

\* note_host_fallback: a permit that is live is not written again.
NoteHostFallback(p) ==
    LET o == IF p = Main THEN p ELSE PermitOrigin(p, permit.host, permit.kame) IN
    permit' = [permit EXCEPT !.host = [e \in Entries |->
                   IF e \in After(o, p) \ {Main} /\ @[e].left = 0
                   THEN [left |-> Permit, origin |-> o] ELSE @[e]]]

\* One that is passed on (TurnLoop) goes to Hermes' hook; Hermes walks on by
\* itself, asks the same model again, or gives up.
Surfaced(c) ==
    /\ call[c].pc = "open" /\ call[c].at \in PassedOn
    /\ NoteHostFallback(call[c].pos)
    /\ seen' = [seen EXCEPT !.stayed[c] = @ \/ Uncovered(c)]
    /\ \/ \E p \in Ahead(c) \cup {call[c].pos} :
            call' = [call EXCEPT ![c] = [NoCall EXCEPT !.pc = "begin", !.pos = p]]
       \/ call' = [call EXCEPT ![c] = NoCall]
    /\ UNCHANGED <<well, busy, window, asked, memo>>

\* A model moved to refuses the shape of Hermes' request: home, without a claim.
ShapeRefused(c) ==
    /\ call[c].pc = "open"
    /\ call[c].visited # {} /\ call[c].at # call[c].pos
    /\ call' = [call EXCEPT ![c] = [MovedTo(c, call[c].pos) EXCEPT
                                       !.excluded = @ \cup {call[c].at}, !.beside = Nobody]]
    /\ UNCHANGED <<shared, seen>>

Refused(c) == BusyFailure(c) \/ OtherFailure(c) \/ Surfaced(c) \/ ShapeRefused(c) \/ StillBusy(c)

Step(c) ==
    \/ Turn(c) \/ Begin(c) \/ Start(c) \/ Plan(c) \/ Ask(c) \/ Decide(c) \/ Claim(c)
    \/ HandOver(c) \/ Wrap(c) \/ Wake(c) \/ Answer(c) \/ Refused(c)

\* The panel's "Try this model now", shown for a busy model.
ForgetBusy(e) ==
    /\ Busy(e)
    /\ Cleared(e)
    /\ memo' = [c \in Convs |-> [memo[c] EXCEPT ![e] = [left |-> 0, later |-> {}]]]
    /\ UNCHANGED <<well, permit, call>>

\* Keys come back, or the last one rests.
Keys(e) ==
    /\ well' = IF e \in well THEN well \ {e} ELSE well \cup {e}
    /\ UNCHANGED <<busy, window, asked, memo, permit, call, seen>>

Older(table) ==
    [e \in Entries |-> IF table[e].left <= 1 THEN [left |-> 0, origin |-> Nobody]
                       ELSE [table[e] EXCEPT !.left = @ - 1]]

\* Time passes, but not between a failure and the call Hermes rebuilds. A
\* window over for as long as it lasted is as good as none.
Tick ==
    /\ \A c \in Convs : call[c].pc # "begin"
    /\ LET over == {e \in Entries : busy[e] - 1 <= -Most(BusyFirst, window[e])} IN
       /\ busy' = [e \in Entries |-> IF e \in over THEN -BusyMax ELSE busy[e] - 1]
       /\ window' = [e \in Entries |-> IF e \in over THEN 0 ELSE window[e]]
    /\ asked' = [e \in Entries |-> Least(asked[e] + 1, ProbeEvery)]
    /\ memo' = [c \in Convs |-> [e \in Entries |->
                  IF memo[c][e].left <= 1 THEN [left |-> 0, later |-> {}]
                  ELSE [memo[c][e] EXCEPT !.left = @ - 1]]]
    /\ permit' = [kame |-> Older(permit.kame), host |-> Older(permit.host)]
    /\ seen' = [seen EXCEPT
           !.look = [e \in Watched |-> Least(@[e] + 1, ProbeEvery)],
           !.circled = [c \in Convs |-> [e \in Watched |-> Least(@[c][e] + 1, ProbeEvery)]]]
    /\ UNCHANGED <<well, call>>

Next == (\E c \in Convs : Step(c)) \/ (\E e \in Resting : Keys(e)) \/ Tick
        \/ \E e \in Entries : ForgetBusy(e)

Spec == Init /\ [][Next]_vars

\* Conversations go on, every step of a call is taken, and time passes however
\* often a call is about to arrive.
FairSpec == Spec /\ SF_vars(Tick) /\ \A c \in Convs : WF_vars(Step(c))

-----------------------------------------------------------------------------
Somebody == Entries \cup {Nobody}

TypeOK ==
    /\ well \subseteq Entries
    /\ busy \in [Entries -> -BusyMax..BusyMax]
    /\ window \in [Entries -> 0..BusyMax]
    /\ asked \in [Entries -> 0..ProbeEvery]
    /\ memo \in [Convs -> [Entries -> [left : 0..Memo, later : SUBSET Entries]]]
    /\ permit \in LET table == [Entries -> [left : 0..Permit, origin : Somebody]]
                  IN  [kame : table, host : table]
    /\ call \in [Convs -> [
           pc : {"idle", "begin", "start", "plan", "ask", "decide", "claim", "hand", "wrap",
                 "wait", "open"},
           pos : Somebody, at : Somebody, origin : Somebody, visited : SUBSET Entries,
           excluded : SUBSET Entries, tired : 0..2, noted : BOOLEAN,
           why : {"none", "start", "rest", "failed"}, aim : Somebody, beside : Somebody]]

\* Two conversations that see the same busy model due for a look do not both
\* take it: between two claimed looks, unless it answered or
\* the user asked for it, ProbeEvery passes.
LooksSpaced == ~seen.early

\* One call does not trade a reply between two models at the speed of a
\* round trip: it circles to the same model once in ProbeEvery, unless the
\* model answered somebody or the user asked for it, whatever keys and windows do meanwhile.
CirclesSpaced == ~seen.quick

\* However far a reply has come down the list, by KAME's hand-overs and by the
\* walks Hermes takes by itself, it knows the model it started on: that model's
\* ladder is the one it goes down, and the name the user's selector is put back
\* to. Left out are the replies that lost their permit, by a call on a model of
\* the walk that outlived it and then failed, or that start while what such a
\* one wrote is still live; and conversations that start apart (see the README).
OriginKept == \A c \in Convs : seen.stayed[c] \/ call[c].origin \in {Nobody, Pick[c]}

\* When the storm is over (nobody refuses any more: every call that comes back
\* is answered, and keys are back) the model the user asked for answers again:
\* no window renews itself.
BestModelIsFound ==
    \A c \in Convs :
      (<>[](well = Entries) /\ <>[][\A d \in Convs : Refused(d) => Answer(d)]_vars)
         => []<><<AnswerBy(c, Pick[c])>>_vars
=============================================================================

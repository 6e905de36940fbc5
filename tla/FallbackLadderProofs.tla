------------------------ MODULE FallbackLadderProofs ------------------------
(* For any list of models, any number of conversations and any intervals:   *)
(* FallbackLadder's type invariant; that what several conversations do with *)
(* one busy model stays spaced: claimed looks, and the circles of one call; *)
(* and when a reply handed down the list knows where it started.            *)
EXTENDS FallbackLadder, TLAPS

Spans == 0..ProbeEvery
Calls == [pc : {"idle", "begin", "start", "plan", "ask", "decide", "claim", "hand", "wrap", "wait",
                "open"},
          pos : Somebody, at : Somebody, origin : Somebody, visited : SUBSET Entries,
          excluded : SUBSET Entries, tired : 0..2, noted : BOOLEAN,
          why : {"none", "start", "rest", "failed"}, aim : Somebody, beside : Somebody]

Memos == [Convs -> [Entries -> [left : 0..Memo, later : SUBSET Entries]]]
Table == [Entries -> [left : 0..Permit, origin : Somebody]]
Permits == [kame : Table, host : Table]
Histories == [look : [Watched -> Spans], early : BOOLEAN, circled : [Convs -> [Watched -> Spans]],
              quick : BOOLEAN, stayed : [Convs -> BOOLEAN]]

\* A call under way is somewhere on the list, and so is where it wants to go.
Under(r) == r.pc \notin {"idle", "begin"}

Placed(r) ==
    /\ r.pc # "idle" => r.pos \in Entries
    /\ Under(r) => r.at \in Entries
    /\ r.pc \in {"plan", "claim"} => r.aim \in Entries

World == /\ well \subseteq Entries
         /\ busy \in [Entries -> -BusyMax..BusyMax] /\ window \in [Entries -> 0..BusyMax]
         /\ asked \in [Entries -> Spans] /\ memo \in Memos /\ permit \in Permits
         /\ seen \in Histories

Typed == World /\ call \in [Convs -> Calls] /\ \A c \in Convs : Placed(call[c])

LEMMA TypedIsTypeOK == Typed => TypeOK
BY DEF Typed, World, TypeOK, Calls, Spans, Memos, Permits, Table

LEMMA Constants ==
    /\ Watched \subseteq Entries /\ Nobody \notin Entries /\ Nobody \notin Watched
    /\ Pick \in [Convs -> Entries]
    /\ ProbeEvery \in Nat \ {0} /\ Memo \in Nat \ {0} /\ Permit \in Nat \ {0}
    /\ BusyFirst \in Nat \ {0} /\ BusyMax \in Nat /\ BusyFirst <= BusyMax
BY LadderAssumption

LEMMA FirstInType ==
    ASSUME NEW o, NEW S
    PROVE  FirstIn(o, S) = Nobody \/ FirstIn(o, S) \in S
<1> DEFINE first == {e \in S : \A f \in S \ {e} : Above(o, e, f)}
<1>1. CASE first = {}
  BY <1>1 DEF FirstIn
<1>2. CASE first # {}
  <2>1. FirstIn(o, S) = CHOOSE e \in first : TRUE
    BY <1>2 DEF FirstIn
  <2> QED
    BY <1>2, <2>1
<1> QED
  BY <1>1, <1>2

\* Whom a call can be moved to is on the list, and has the keys and the leave
\* to be asked.
LEMMA PlanTargetType == \A c \in Convs : PlanTarget(c) = Nobody \/ PlanTarget(c) \in Entries
<1> SUFFICES ASSUME NEW c \in Convs PROVE PlanTarget(c) = Nobody \/ PlanTarget(c) \in Entries
  OBVIOUS
<1> DEFINE t == FirstIn(call[c].origin, Later(c) \cap FreeEntries)
<1>1. t = Nobody \/ t \in Later(c) \cap FreeEntries
  BY FirstInType
<1>2. PlanTarget(c) \in {t, Nobody}
  BY DEF PlanTarget
<1> QED
  BY <1>1, <1>2 DEF FreeEntries

LEMMA StandInType == \A c \in Convs : StandIn(c) = Nobody \/ StandIn(c) \in Entries
<1> SUFFICES ASSUME NEW c \in Convs PROVE StandIn(c) = Nobody \/ StandIn(c) \in Entries
  OBVIOUS
<1> DEFINE left == {call[c].at} \cup call[c].visited \cup call[c].excluded
           t == FirstIn(call[c].origin, (Later(c) \cap FreeEntries) \ left)
<1>1. t = Nobody \/ t \in (Later(c) \cap FreeEntries) \ left
  BY FirstInType
<1>2. StandIn(c) \in {t, Nobody}
  BY DEF StandIn
<1> QED
  BY <1>1, <1>2 DEF FreeEntries

LEMMA CircleChoice ==
    ASSUME NEW c \in Convs, Typed
    PROVE  LET e == Circle(c) IN
           \/ e = Nobody
           \/ /\ e \in Entries
              /\ (Busy(e) \/ e \in call[c].visited) => Due(e)
              /\ e # call[c].at \/ call[c].why = "start"
<1> DEFINE at == call[c].at
           some == {e \in SiblingsOf(at) \ call[c].excluded :
                      /\ e \in well
                      /\ Busy(e) \/ e \in call[c].visited => Due(e)
                      /\ e # at \/ call[c].why = "start"}
           t == FirstIn(call[c].origin, some)
<1>1. t = Nobody \/ t \in some
  BY FirstInType
<1>2. Circle(c) \in {t, Nobody}
  BY DEF Circle
<1>3. \A e \in some : e \in Entries
  BY DEF Typed, World
<1> HIDE DEF t
<1> QED
  BY <1>1, <1>2, <1>3

LEMMA WindowType == ASSUME Typed, NEW e \in Entries PROVE NextWindow(e) \in 0..BusyMax
BY Constants DEF Typed, World, NextWindow, Least

LEMMA NoteBusyType ==
    ASSUME Typed, NEW e \in Entries, NoteBusy(e)
    PROVE  /\ busy' \in [Entries -> -BusyMax..BusyMax] /\ window' \in [Entries -> 0..BusyMax]
           /\ asked' \in [Entries -> Spans]
<1>1. NextWindow(e) \in 0..BusyMax /\ 0 \in Spans
  BY WindowType, Constants DEF Spans
<1>2. NextWindow(e) \in -BusyMax..BusyMax
  BY <1>1, Constants
<1> QED
  BY <1>1, <1>2 DEF NoteBusy, Typed, World

LEMMA ClearedType ==
    ASSUME Typed, NEW e \in Entries, Cleared(e)
    PROVE  /\ busy' \in [Entries -> -BusyMax..BusyMax] /\ window' \in [Entries -> 0..BusyMax]
           /\ asked' \in [Entries -> Spans] /\ seen' \in Histories
<1>1. -BusyMax \in -BusyMax..BusyMax /\ 0 \in 0..BusyMax /\ ProbeEvery \in Spans
  BY Constants DEF Spans
<1> DEFINE look == [x \in Watched |-> IF x = e THEN ProbeEvery ELSE seen.look[x]]
           circled == [d \in Convs |-> [x \in Watched |->
                          IF x = e THEN ProbeEvery ELSE seen.circled[d][x]]]
<1>2. seen' \in Histories
  <2>1. look \in [Watched -> Spans] /\ circled \in [Convs -> [Watched -> Spans]]
    BY <1>1 DEF Typed, World, Histories
  <2>2. seen' = [seen EXCEPT !.look = look, !.circled = circled]
    BY DEF Cleared
  <2> HIDE DEF look, circled
  <2> QED
    BY <2>1, <2>2 DEF Typed, World, Histories
<1> HIDE DEF look, circled
<1> QED
  BY <1>1, <1>2 DEF Cleared, Typed, World

LEMMA LookedType ==
    ASSUME Typed, NEW L, NEW c \in Convs, NEW e, Looked(L, c, e)
    PROVE  seen' \in Histories
<1>1. 0 \in Spans
  BY Constants DEF Spans
<1> DEFINE early == seen.early \/ \E x \in L \cap Watched : seen.look[x] < ProbeEvery
           quick == seen.quick \/ (e \in Watched /\ seen.circled[c][e] < ProbeEvery)
<1>2. early \in BOOLEAN /\ quick \in BOOLEAN
  BY DEF Typed, World, Histories
<1> DEFINE look == [x \in Watched |-> IF x \in L THEN 0 ELSE seen.look[x]]
           mine == [x \in Watched |-> IF x = e THEN 0 ELSE seen.circled[c][x]]
<1>3. seen' = [seen EXCEPT !.look = look, !.early = early, !.circled[c] = mine, !.quick = quick]
  BY DEF Looked
<1>4. look \in [Watched -> Spans] /\ mine \in [Watched -> Spans]
  BY <1>1 DEF Typed, World, Histories
<1> HIDE DEF early, quick, look, mine
<1> QED
  BY <1>2, <1>3, <1>4 DEF Typed, World, Histories

LEMMA MovedToType ==
    ASSUME Typed, NEW c \in Convs, Under(call[c]), NEW e \in Entries
    PROVE  /\ MovedTo(c, e) \in Calls /\ Placed(MovedTo(c, e))
           /\ MovedTo(c, e).pc = "ask" /\ MovedTo(c, e).at = e /\ MovedTo(c, e).why = "none"
           /\ MovedTo(c, e).visited = call[c].visited \cup {call[c].at}
<1>1. PICK q \in Calls : q = call[c]
  BY DEF Typed
<1> DEFINE V == q.visited \cup {q.at}
           r == [q EXCEPT !.pc = "ask", !.at = e, !.visited = V, !.tired = 0,
                          !.noted = FALSE, !.aim = Nobody, !.why = "none"]
<1>2. q.at \in Entries /\ q.pos \in Entries
  BY <1>1 DEF Typed, Placed, Under
<1>3. e \in Somebody /\ Nobody \in Somebody /\ 0 \in 0..2 /\ V \in SUBSET Entries
  BY <1>2 DEF Somebody, Calls
<1>4. MovedTo(c, e) = r
  BY <1>1 DEF MovedTo
<1> HIDE DEF V
<1>5. r \in Calls
  BY <1>3 DEF Calls
<1>6. r.pc = "ask" /\ r.at = e /\ r.why = "none"
  BY DEF Calls
<1>7. r.pos = q.pos /\ r.visited = V
  BY DEF Calls
<1> HIDE DEF r
<1> QED
  BY <1>1, <1>2, <1>4, <1>5, <1>6, <1>7 DEF Placed, Under, V

LEMMA NoCallType == NoCall \in Calls /\ Placed(NoCall) /\ NoCall.pc = "idle"
BY DEF NoCall, Calls, Placed, Under, Somebody

\* One call changes, to r; nothing else of the calls does.
LEMMA OneCall ==
    ASSUME Typed, NEW c \in Convs, NEW r \in Calls, Placed(r), call' = [call EXCEPT ![c] = r], World'
    PROVE  Typed'
BY DEF Typed

-----------------------------------------------------------------------------
(* What an action does with its call: r is the call after it.               *)

Places == {"idle", "begin", "start", "plan", "ask", "decide", "claim", "hand", "wrap", "wait", "open"}
Reasons == {"none", "start", "rest", "failed"}

\* r is q at another point of its reply: nothing of where it has been changes.
Along(r, q) == r \in Calls /\ r.pos = q.pos /\ r.at = q.at /\ r.visited = q.visited

\* c's call becomes r, and nothing is known of r's conversation that was not.
Becomes(c, r) == r \in Calls /\ Placed(r) /\ call' = [call EXCEPT ![c] = r]

LEMMA GoesTo ==
    ASSUME Typed, NEW c \in Convs, NEW p \in {"ask", "open", "hand", "wrap"}, Under(call[c]),
           Goto(c, p)
    PROVE  \E r : Becomes(c, r) /\ Along(r, call[c]) /\ r.pc = p /\ r.why = call[c].why
<1>1. PICK q \in Calls : q = call[c]
  BY DEF Typed
<1>2. Nobody \in Somebody /\ Placed(q) /\ Under(q)
  BY <1>1 DEF Somebody, Typed
<1>3. PICK r : call' = [call EXCEPT ![c] = r] /\ r = [q EXCEPT !.pc = p]
  BY <1>1 DEF Goto
<1>4. Along(r, q) /\ r.pc = p /\ r.why = q.why
  BY <1>2, <1>3 DEF Along, Calls, Reasons
<1>5. Placed(r)
  BY <1>2, <1>4 DEF Placed, Under, Along
<1>6. Becomes(c, r)
  BY <1>3, <1>4, <1>5 DEF Becomes, Along
<1> QED
  BY <1>1, <1>4, <1>6

LEMMA Considers ==
    ASSUME Typed, NEW c \in Convs, NEW w \in Reasons, Under(call[c]),
           Consider(c, w)
    PROVE  \E r : Becomes(c, r) /\ Along(r, call[c]) /\ r.pc = "decide" /\ r.why = w
<1>1. PICK q \in Calls : q = call[c]
  BY DEF Typed
<1>2. Nobody \in Somebody /\ Placed(q) /\ Under(q)
  BY <1>1 DEF Somebody, Typed
<1>3. PICK r : call' = [call EXCEPT ![c] = r] /\ r = [q EXCEPT !.pc = "decide", !.why = w, !.aim = Nobody]
  BY <1>1 DEF Consider
<1>4. Along(r, q) /\ r.pc = "decide" /\ r.why = w
  BY <1>2, <1>3 DEF Along, Calls, Reasons
<1>5. Placed(r)
  BY <1>2, <1>4 DEF Placed, Under, Along
<1>6. Becomes(c, r)
  BY <1>3, <1>4, <1>5 DEF Becomes, Along
<1> QED
  BY <1>1, <1>4, <1>6

LEMMA GoesOnFailed ==
    ASSUME Typed, NEW c \in Convs, Under(call[c]),
           call' = [call EXCEPT ![c] = [@ EXCEPT !.pc = "decide", !.why = "failed", !.beside = Nobody]]
    PROVE  \E r : Becomes(c, r) /\ Along(r, call[c]) /\ r.pc = "decide" /\ r.why = "failed"
<1>1. PICK q \in Calls : q = call[c]
  BY DEF Typed
<1>2. Nobody \in Somebody /\ Placed(q) /\ Under(q)
  BY <1>1 DEF Somebody, Typed
<1>3. PICK r : call' = [call EXCEPT ![c] = r] /\ r = [q EXCEPT !.pc = "decide", !.why = "failed", !.beside = Nobody]
  BY <1>1
<1>4. Along(r, q) /\ r.pc = "decide" /\ r.why = "failed"
  BY <1>2, <1>3 DEF Along, Calls, Reasons
<1>5. Placed(r)
  BY <1>2, <1>4 DEF Placed, Under, Along
<1>6. Becomes(c, r)
  BY <1>3, <1>4, <1>5 DEF Becomes, Along
<1> QED
  BY <1>1, <1>4, <1>6

LEMMA GivesUpLook ==
    ASSUME Typed, NEW c \in Convs, Under(call[c]),
           call' = [call EXCEPT ![c] = [@ EXCEPT !.pc = "hand", !.aim = Nobody]]
    PROVE  \E r : Becomes(c, r) /\ Along(r, call[c]) /\ r.pc = "hand" /\ r.why = call[c].why
<1>1. PICK q \in Calls : q = call[c]
  BY DEF Typed
<1>2. Nobody \in Somebody /\ Placed(q) /\ Under(q)
  BY <1>1 DEF Somebody, Typed
<1>3. PICK r : call' = [call EXCEPT ![c] = r] /\ r = [q EXCEPT !.pc = "hand", !.aim = Nobody]
  BY <1>1
<1>4. Along(r, q) /\ r.pc = "hand" /\ r.why = q.why
  BY <1>2, <1>3 DEF Along, Calls, Reasons
<1>5. Placed(r)
  BY <1>2, <1>4 DEF Placed, Under, Along
<1>6. Becomes(c, r)
  BY <1>3, <1>4, <1>5 DEF Becomes, Along
<1> QED
  BY <1>1, <1>4, <1>6

LEMMA Stays ==
    ASSUME Typed, NEW c \in Convs, NEW p \in {"wait", "ask"}, Under(call[c]),
           call' = [call EXCEPT ![c] = [@ EXCEPT !.pc = p, !.why = "none"]]
    PROVE  \E r : Becomes(c, r) /\ Along(r, call[c]) /\ r.pc = p /\ r.why = "none"
<1>1. PICK q \in Calls : q = call[c]
  BY DEF Typed
<1>2. Nobody \in Somebody /\ Placed(q) /\ Under(q)
  BY <1>1 DEF Somebody, Typed
<1>3. PICK r : call' = [call EXCEPT ![c] = r] /\ r = [q EXCEPT !.pc = p, !.why = "none"]
  BY <1>1
<1>4. Along(r, q) /\ r.pc = p /\ r.why = "none"
  BY <1>2, <1>3 DEF Along, Calls, Reasons
<1>5. Placed(r)
  BY <1>2, <1>4 DEF Placed, Under, Along
<1>6. Becomes(c, r)
  BY <1>3, <1>4, <1>5 DEF Becomes, Along
<1> QED
  BY <1>1, <1>4, <1>6

LEMMA AimsAt ==
    ASSUME Typed, NEW c \in Convs, NEW p \in {"plan", "claim"}, NEW e \in Entries, Under(call[c]),
           call' = [call EXCEPT ![c] = [@ EXCEPT !.pc = p, !.aim = e]]
    PROVE  \E r : Becomes(c, r) /\ Along(r, call[c]) /\ r.pc = p /\ r.why = call[c].why
<1>1. PICK q \in Calls : q = call[c]
  BY DEF Typed
<1>2. /\ e \in Somebody /\ 0 \in 0..2 /\ TRUE \in BOOLEAN /\ Placed(q) /\ Under(q) /\ p \in Places
      /\ "none" \in Reasons
  BY <1>1 DEF Somebody, Typed, Places, Reasons
<1>3. PICK r : call' = [call EXCEPT ![c] = r] /\ r = [q EXCEPT !.pc = p, !.aim = e]
  BY <1>1
<1>4. Along(r, q) /\ r.pc = p /\ r.why = q.why /\ r.aim = e
  BY <1>2, <1>3 DEF Along, Calls, Places
<1> QED
  BY <1>1, <1>2, <1>3, <1>4 DEF Becomes, Placed, Under, Along

-----------------------------------------------------------------------------
(* The invariant. A time asked is no longer ago than a time claimed, and a   *)
(* model circled to is the one the call is on, or one it has left: so a      *)
(* circle to it waits until it may be looked at.                             *)

Spaced ==
    /\ ~seen.early /\ ~seen.quick
    /\ \A e \in Watched : /\ asked[e] <= seen.look[e]
                          /\ \A c \in Convs : asked[e] <= seen.circled[c][e]

Fresh(r, circled) ==
    \A e \in Watched : circled[e] < ProbeEvery =>
        r.pc \notin {"start", "plan"} /\ r.why # "start" /\ (r.at = e \/ e \in r.visited)

Walked == \A c \in Convs : Under(call[c]) => Fresh(call[c], seen.circled[c])

IInv == Typed /\ Spaced /\ Walked

LEMMA SeenType ==
    ASSUME Typed
    PROVE  /\ \A e \in Watched : asked[e] \in Spans /\ seen.look[e] \in Spans
           /\ \A c \in Convs, e \in Watched : seen.circled[c][e] \in Spans
           /\ \A n \in Spans : n \in Nat /\ n <= ProbeEvery
           /\ ProbeEvery \in Nat
BY Constants DEF Typed, World, Histories, Spans

LEMMA SpacedKept ==
    ASSUME Typed, Spaced, Typed', UNCHANGED seen,
           \A e \in Watched : asked'[e] \in {0, asked[e]}
    PROVE  Spaced'
BY SeenType DEF Spaced, Spans

LEMMA WalkedKept ==
    ASSUME Typed, Walked, Typed', NEW c \in Convs, NEW r, Becomes(c, r),
           \A d \in Convs \ {c}, e \in Watched : seen.circled[d][e] <= seen'.circled[d][e],
           Under(r) => Fresh(r, seen'.circled[c])
    PROVE  Walked'
<1> SUFFICES ASSUME NEW d \in Convs, Under(call'[d])
             PROVE  Fresh(call'[d], seen'.circled[d])
  BY DEF Walked
<1>1. CASE d = c
  BY <1>1 DEF Becomes, Typed
<1>2. CASE d # c
  <2>1. call'[d] = call[d]
    BY <1>2 DEF Becomes, Typed
  <2>2. Fresh(call[d], seen.circled[d])
    BY <2>1 DEF Walked
  <2>3. \A e \in Watched : seen'.circled[d][e] < ProbeEvery => seen.circled[d][e] < ProbeEvery
    <3>1. \A e \in Watched : seen.circled[d][e] <= seen'.circled[d][e]
      BY <1>2
    <3>2. \A e \in Watched : seen.circled[d][e] \in Nat
      BY SeenType
    <3>3. \A e \in Watched : seen'.circled[d][e] \in Nat
      BY SeenType, Constants DEF Typed, World, Histories, Spans
    <3> QED
      BY <3>1, <3>2, <3>3, SeenType
  <2> QED
    BY <2>1, <2>2, <2>3 DEF Fresh
<1> QED
  BY <1>1, <1>2

\* A call goes on where it is.
LEMMA OnTheSpot ==
    ASSUME IInv, NEW c \in Convs, NEW r, Becomes(c, r), Under(call[c]), Along(r, call[c]),
           UNCHANGED <<well, memo, permit, seen>>,
           busy' \in [Entries -> -BusyMax..BusyMax], window' \in [Entries -> 0..BusyMax],
           asked' \in [Entries -> Spans], \A e \in Watched : asked'[e] \in {0, asked[e]},
           r.pc \in {"start", "plan"} \/ r.why = "start" =>
              call[c].pc \in {"start", "plan"} \/ call[c].why = "start"
    PROVE  IInv'
<1>1. Typed'
  BY OneCall DEF IInv, Typed, World, Becomes
<1>2. Spaced'
  BY <1>1, SpacedKept DEF IInv
<1>3. Fresh(r, seen'.circled[c])
  BY DEF IInv, Walked, Fresh, Along
<1>4. \A d \in Convs \ {c}, e \in Watched : seen.circled[d][e] <= seen'.circled[d][e]
  BY SeenType DEF IInv
<1>5. Walked'
  BY <1>1, <1>3, <1>4, WalkedKept DEF IInv
<1> QED
  BY <1>1, <1>2, <1>5 DEF IInv

LEMMA Quiet ==
    ASSUME Typed, UNCHANGED <<busy, window, asked>>
    PROVE  /\ busy' \in [Entries -> -BusyMax..BusyMax] /\ window' \in [Entries -> 0..BusyMax]
           /\ asked' \in [Entries -> Spans] /\ \A e \in Watched : asked'[e] \in {0, asked[e]}
BY DEF Typed, World

LEMMA Noted ==
    ASSUME Typed, NEW e \in Entries, NoteBusy(e)
    PROVE  /\ busy' \in [Entries -> -BusyMax..BusyMax] /\ window' \in [Entries -> 0..BusyMax]
           /\ asked' \in [Entries -> Spans] /\ \A x \in Watched : asked'[x] \in {0, asked[x]}
<1>1. \A x \in Watched : asked'[x] \in {0, asked[x]}
  BY Constants DEF NoteBusy, Typed, World
<1> QED
  BY <1>1, NoteBusyType

LEMMA TypedCall == ASSUME Typed, NEW c \in Convs PROVE call[c] \in Calls /\ Placed(call[c])
BY DEF Typed

LEMMA StartKeeps == ASSUME IInv, NEW c \in Convs, Start(c) PROVE IInv'
<1>1. Typed /\ Under(call[c]) /\ UNCHANGED <<well, busy, window, asked, memo, permit, seen>>
  BY DEF IInv, Start, Under, shared
<1>2. CASE Goto(c, "ask")
  <2>1. PICK r : Becomes(c, r) /\ Along(r, call[c]) /\ r.pc = "ask" /\ r.why = call[c].why
    BY <1>1, <1>2, GoesTo
  <2> QED
    BY <1>1, <2>1, Quiet, OnTheSpot
<1>3. CASE PlanTarget(c) # Nobody /\ call' = [call EXCEPT ![c] = [@ EXCEPT !.pc = "plan", !.aim = PlanTarget(c)]]
  <2>1. PlanTarget(c) \in Entries
    BY <1>3, PlanTargetType
  <2>2. PICK r : Becomes(c, r) /\ Along(r, call[c]) /\ r.pc = "plan" /\ r.why = call[c].why
    BY <1>1, <1>3, <2>1, AimsAt
  <2>3. call[c].pc = "start"
    BY DEF Start
  <2> QED
    BY <1>1, <2>2, <2>3, Quiet, OnTheSpot
<1>4. CASE Consider(c, "start")
  <2>1. PICK r : Becomes(c, r) /\ Along(r, call[c]) /\ r.pc = "decide" /\ r.why = "start"
    BY <1>1, <1>4, Considers DEF Reasons
  <2>2. call[c].pc = "start"
    BY DEF Start
  <2> QED
    BY <1>1, <2>1, <2>2, Quiet, OnTheSpot
<1> QED
  BY <1>2, <1>3, <1>4 DEF Start

LEMMA AskKeeps == ASSUME IInv, NEW c \in Convs, Ask(c) PROVE IInv'
<1>1. Typed /\ Under(call[c]) /\ UNCHANGED <<well, busy, window, asked, memo, permit, seen>>
  BY DEF IInv, Ask, Under, shared
<1>2. CASE Goto(c, "open")
  <2>1. PICK r : Becomes(c, r) /\ Along(r, call[c]) /\ r.pc = "open" /\ r.why = call[c].why
    BY <1>1, <1>2, GoesTo
  <2> QED
    BY <1>1, <2>1, Quiet, OnTheSpot
<1>3. CASE Consider(c, "rest")
  <2>1. PICK r : Becomes(c, r) /\ Along(r, call[c]) /\ r.pc = "decide" /\ r.why = "rest"
    BY <1>1, <1>3, Considers DEF Reasons
  <2> QED
    BY <1>1, <2>1, Quiet, OnTheSpot
<1> QED
  BY <1>2, <1>3 DEF Ask

LEMMA WakeKeeps == ASSUME IInv, NEW c \in Convs, Wake(c) PROVE IInv'
<1>1. Typed /\ Under(call[c]) /\ UNCHANGED <<well, busy, window, asked, memo, permit, seen>>
  BY DEF IInv, Wake, Under, shared
<1>2. PICK r : Becomes(c, r) /\ Along(r, call[c]) /\ r.pc = "ask" /\ r.why = call[c].why
  BY <1>1, GoesTo DEF Wake
<1> QED
  BY <1>1, <1>2, Quiet, OnTheSpot

LEMMA DecideKeeps == ASSUME IInv, NEW c \in Convs, Decide(c) PROVE IInv'
<1>1. Typed /\ Under(call[c]) /\ UNCHANGED <<well, busy, window, asked, memo, permit, seen>>
  BY DEF IInv, Decide, Under, shared
<1>2. CASE Goto(c, "hand") \/ Goto(c, "wrap")
  <2>1. PICK p \in {"hand", "wrap"} : Goto(c, p)
    BY <1>2
  <2>2. PICK r : Becomes(c, r) /\ Along(r, call[c]) /\ r.pc = p /\ r.why = call[c].why
    BY <1>1, <2>1, GoesTo
  <2> QED
    BY <1>1, <2>2, Quiet, OnTheSpot
<1>3. CASE StandIn(c) # Nobody /\ call' = [call EXCEPT ![c] = [@ EXCEPT !.pc = "claim", !.aim = StandIn(c)]]
  <2>1. StandIn(c) \in Entries
    BY <1>3, StandInType
  <2>2. PICK r : Becomes(c, r) /\ Along(r, call[c]) /\ r.pc = "claim" /\ r.why = call[c].why
    BY <1>1, <1>3, <2>1, AimsAt
  <2> QED
    BY <1>1, <2>2, Quiet, OnTheSpot
<1> QED
  BY <1>2, <1>3 DEF Decide

LEMMA StillBusyKeeps == ASSUME IInv, NEW c \in Convs, StillBusy(c) PROVE IInv'
<1>1. /\ Typed /\ Under(call[c]) /\ UNCHANGED <<well, memo, permit, seen>>
      /\ call[c].beside # Nobody /\ NoteBusy(call[c].beside)
      /\ call' = [call EXCEPT ![c] = [@ EXCEPT !.beside = Nobody]]
  BY DEF IInv, StillBusy, Under
<1>2. PICK q \in Calls : q = call[c] /\ Placed(q)
  BY <1>1, TypedCall
<1>3. PICK r : r = [q EXCEPT !.beside = Nobody] /\ call' = [call EXCEPT ![c] = r]
  BY <1>1, <1>2
<1>4. Along(r, q) /\ r.pc = q.pc /\ r.why = q.why /\ r.aim = q.aim
  BY <1>3 DEF Along, Calls, Somebody
<1>5. Becomes(c, r)
  BY <1>2, <1>3, <1>4 DEF Becomes, Placed, Under, Along
<1>6. call[c].beside \in Entries
  BY <1>1, <1>2 DEF Calls, Somebody
<1> QED
  BY <1>1, <1>2, <1>4, <1>5, <1>6, Noted, OnTheSpot

LEMMA BusyFailureKeeps == ASSUME IInv, NEW c \in Convs, BusyFailure(c) PROVE IInv'
<1>1. Typed /\ Under(call[c]) /\ UNCHANGED <<well, memo, permit, seen>>
  BY DEF IInv, BusyFailure, Under
<1>2. PICK q \in Calls : q = call[c] /\ Placed(q) /\ Under(q)
  BY <1>1, TypedCall
<1>3. PICK n \in {Most(q.tired, 1), Least(q.tired + 1, 2)}, b \in BOOLEAN :
        /\ call' = [call EXCEPT ![c] = [@ EXCEPT !.pc = "decide", !.why = "failed", !.tired = n,
                                                 !.noted = b, !.beside = Nobody]]
        /\ NoteBusy(q.at) \/ UNCHANGED <<busy, window, asked>>
  <2>1. PICK n \in {Most(q.tired, 1), Least(q.tired + 1, 2)} :
          LET noted == q.noted \/ ProvesBusy(c, n) IN
          /\ call' = [call EXCEPT ![c] = [@ EXCEPT !.pc = "decide", !.why = "failed", !.tired = n,
                                                   !.noted = noted, !.beside = Nobody]]
          /\ IF noted /\ ~q.noted THEN NoteBusy(q.at) ELSE UNCHANGED <<busy, window, asked>>
    BY <1>2 DEF BusyFailure
  <2>2. PICK b \in BOOLEAN : b = (q.noted \/ ProvesBusy(c, n))
    BY <1>2 DEF Calls
  <2>3. call' = [call EXCEPT ![c] = [@ EXCEPT !.pc = "decide", !.why = "failed", !.tired = n,
                                              !.noted = b, !.beside = Nobody]]
    BY <2>1, <2>2
  <2>4. NoteBusy(q.at) \/ UNCHANGED <<busy, window, asked>>
    BY <2>1
  <2> QED
    BY <2>3, <2>4
<1>4. n \in 0..2
  BY DEF Most, Least, Calls
<1>5. PICK r : /\ r = [q EXCEPT !.pc = "decide", !.why = "failed", !.tired = n, !.noted = b,
                                !.beside = Nobody]
               /\ call' = [call EXCEPT ![c] = r]
  BY <1>2, <1>3
<1>6. r \in Calls
  BY <1>4, <1>5 DEF Calls, Somebody
<1>7. r.pc = "decide" /\ r.why = "failed"
  BY <1>5 DEF Calls
<1>8. r.pos = q.pos /\ r.at = q.at /\ r.visited = q.visited
  BY <1>5 DEF Calls
<1>9. Becomes(c, r) /\ Along(r, q)
  BY <1>2, <1>5, <1>6, <1>7, <1>8 DEF Becomes, Placed, Under, Along
<1>10. q.at \in Entries
  BY <1>2 DEF Placed
<1> QED
  BY <1>1, <1>2, <1>3, <1>7, <1>9, <1>10, Noted, Quiet, OnTheSpot

-----------------------------------------------------------------------------
(* A call begins, ends, or is given to another conversation's knowledge.     *)

\* A call that is over, or about to begin, leaves nothing to remember.
LEMMA Elsewhere ==
    ASSUME IInv, NEW c \in Convs, NEW r, Becomes(c, r), ~Under(r), World',
           \A d \in Convs, e \in Watched : seen.circled[d][e] <= seen'.circled[d][e],
           Spaced'
    PROVE  IInv'
<1>1. Typed'
  BY OneCall DEF IInv, Becomes
<1>2. Walked'
  BY <1>1, WalkedKept DEF IInv
<1> QED
  BY <1>1, <1>2 DEF IInv

LEMMA SeenKept ==
    ASSUME Typed, UNCHANGED seen
    PROVE  \A d \in Convs, e \in Watched : seen.circled[d][e] <= seen'.circled[d][e]
BY SeenType

LEMMA CircledKept ==
    ASSUME Typed, seen'.circled = seen.circled
    PROVE  \A d \in Convs, e \in Watched : seen.circled[d][e] <= seen'.circled[d][e]
BY SeenType

LEMMA StayedType ==
    ASSUME Typed, NEW c \in Convs, NEW b \in BOOLEAN, seen' = [seen EXCEPT !.stayed[c] = b]
    PROVE  /\ seen' \in Histories /\ seen'.look = seen.look /\ seen'.circled = seen.circled
           /\ seen'.early = seen.early /\ seen'.quick = seen.quick
BY DEF Typed, World, Histories

LEMMA TurnKeeps == ASSUME IInv, NEW c \in Convs, Turn(c) PROVE IInv'
<1>1. /\ Typed /\ UNCHANGED <<well, busy, window, asked, memo, permit>>
      /\ seen' = [seen EXCEPT !.stayed[c] = @ /\ Misleads(c)]
      /\ call' = [call EXCEPT ![c] = [@ EXCEPT !.pc = "begin", !.pos = Pick[c]]]
  BY DEF IInv, Turn, shared
<1>0. PICK b \in BOOLEAN : b = (seen.stayed[c] /\ Misleads(c))
  BY <1>1 DEF Typed, World, Histories
<1>2. PICK q \in Calls : q = call[c]
  BY <1>1, TypedCall
<1>3. Pick[c] \in Entries /\ Pick[c] \in Somebody
  BY Constants DEF Somebody
<1>4. PICK r : call' = [call EXCEPT ![c] = r] /\ r = [q EXCEPT !.pc = "begin", !.pos = Pick[c]]
  BY <1>1, <1>2
<1>5. r \in Calls /\ r.pc = "begin" /\ r.pos = Pick[c]
  BY <1>3, <1>4 DEF Calls
<1>6. Becomes(c, r) /\ ~Under(r)
  BY <1>3, <1>4, <1>5 DEF Becomes, Placed, Under
<1>7. /\ seen' \in Histories /\ seen'.look = seen.look /\ seen'.circled = seen.circled
      /\ seen'.early = seen.early /\ seen'.quick = seen.quick
  BY <1>0, <1>1, StayedType
<1>8. World'
  BY <1>1, <1>7 DEF Typed, World
<1>9. Spaced'
  BY <1>1, <1>7 DEF IInv, Spaced
<1>10. \A d \in Convs, e \in Watched : seen.circled[d][e] <= seen'.circled[d][e]
  BY <1>1, <1>7, SeenType
<1> QED
  BY <1>6, <1>8, <1>9, <1>10, Elsewhere

LEMMA PermitOriginType ==
    ASSUME NEW p \in Entries, NEW first \in Table, NEW second \in Table
    PROVE  PermitOrigin(p, first, second) \in Somebody
BY DEF PermitOrigin, Table, Somebody

LEMMA BeginKeeps == ASSUME IInv, NEW c \in Convs, Begin(c) PROVE IInv'
<1>1. /\ Typed /\ UNCHANGED <<well, busy, window, asked, permit>> /\ call[c].pc = "begin"
      /\ seen' = [seen EXCEPT !.circled[c] = [e \in Watched |-> ProbeEvery]]
  BY DEF IInv, Begin
<1> DEFINE p == call[c].pos
           r == [NoCall EXCEPT !.pc = "start", !.pos = p, !.at = p, !.origin = OriginOf(p)]
<1>2. p \in Entries /\ p \in Somebody
  BY <1>1, TypedCall DEF Placed, Somebody
<1>3. OriginOf(p) \in Somebody
  <2>1. permit.kame \in Table /\ permit.host \in Table
    BY <1>1 DEF Typed, World, Permits
  <2> HIDE DEF p
  <2> QED
    BY <1>2, <2>1, PermitOriginType DEF OriginOf
<1>4. call' = [call EXCEPT ![c] = r]
  BY DEF Begin
<1>5. memo' \in Memos
  <2>1. memo' = [d \in Convs |-> [e \in Entries |->
                   IF p \in memo[d][e].later THEN [left |-> 0, later |-> {}] ELSE memo[d][e]]]
    BY DEF Begin
  <2> HIDE DEF p
  <2> QED
    BY <1>1, <2>1, Constants DEF Typed, World, Memos
<1> HIDE DEF p
<1>6. r \in Calls /\ r.pc = "start" /\ r.pos = p /\ r.at = p /\ r.why = "none"
  <2>1. PICK q \in Calls : q = NoCall /\ q.why = "none"
    BY NoCallType DEF NoCall
  <2>2. PICK o \in Somebody : o = OriginOf(p)
    BY <1>3
  <2>3. r = [q EXCEPT !.pc = "start", !.pos = p, !.at = p, !.origin = o]
    BY <2>1, <2>2
  <2> HIDE DEF r
  <2> QED
    BY <1>2, <2>1, <2>3 DEF Calls
<1> HIDE DEF r
<1>7. Becomes(c, r)
  BY <1>2, <1>4, <1>6 DEF Becomes, Placed, Under
<1>8. ProbeEvery \in Spans
  BY Constants DEF Spans
<1>9. /\ seen' \in Histories /\ seen'.look = seen.look /\ seen'.early = seen.early
      /\ seen'.quick = seen.quick
  BY <1>1, <1>8 DEF Typed, World, Histories
<1>10. \A d \in Convs, e \in Watched :
         seen'.circled[d][e] = IF d = c THEN ProbeEvery ELSE seen.circled[d][e]
  BY <1>1 DEF Typed, World, Histories
<1>11. World'
  BY <1>1, <1>5, <1>9 DEF Typed, World
<1>12. Typed'
  BY <1>1, <1>7, <1>11, OneCall DEF Becomes
<1>13. Spaced'
  BY <1>1, <1>9, <1>10, SeenType DEF IInv, Spaced
<1>14. Walked'
  <2>1. \A d \in Convs \ {c}, e \in Watched : seen.circled[d][e] <= seen'.circled[d][e]
    BY <1>1, <1>10, SeenType
  <2>2. Fresh(r, seen'.circled[c])
    BY <1>1, <1>10, SeenType DEF Fresh
  <2> QED
    BY <1>7, <1>12, <2>1, <2>2, WalkedKept DEF IInv
<1> QED
  BY <1>12, <1>13, <1>14 DEF IInv

-----------------------------------------------------------------------------
(* Looks and circles.                                                        *)

LEMMA LookedFacts ==
    ASSUME Typed, NEW L, NEW c \in Convs, NEW e, Looked(L, c, e)
    PROVE  /\ \A x \in Watched : seen'.look[x] = IF x \in L THEN 0 ELSE seen.look[x]
           /\ \A x \in Watched : seen'.circled[c][x] = IF x = e THEN 0 ELSE seen.circled[c][x]
           /\ \A d \in Convs \ {c} : seen'.circled[d] = seen.circled[d]
           /\ seen'.early = (seen.early \/ \E x \in L \cap Watched : seen.look[x] < ProbeEvery)
           /\ seen'.quick = (seen.quick \/ (e \in Watched /\ seen.circled[c][e] < ProbeEvery))
<1> DEFINE early == seen.early \/ \E x \in L \cap Watched : seen.look[x] < ProbeEvery
           quick == seen.quick \/ (e \in Watched /\ seen.circled[c][e] < ProbeEvery)
           look == [x \in Watched |-> IF x \in L THEN 0 ELSE seen.look[x]]
           mine == [x \in Watched |-> IF x = e THEN 0 ELSE seen.circled[c][x]]
<1>1. PICK a \in BOOLEAN, b \in BOOLEAN : a = early /\ b = quick
  BY DEF Typed, World, Histories
<1>2. seen' = [seen EXCEPT !.look = look, !.early = early, !.circled[c] = mine, !.quick = quick]
  BY DEF Looked
<1> HIDE DEF early, quick, look, mine
<1>3. seen' = [seen EXCEPT !.look = look, !.early = a, !.circled[c] = mine, !.quick = b]
  BY <1>1, <1>2
<1>4. seen'.look = look /\ seen'.circled = [seen.circled EXCEPT ![c] = mine]
  BY <1>3 DEF Typed, World, Histories
<1>5. seen'.early = a /\ seen'.quick = b
  BY <1>3 DEF Typed, World, Histories
<1>6. seen'.circled[c] = mine /\ \A d \in Convs \ {c} : seen'.circled[d] = seen.circled[d]
  BY <1>4 DEF Typed, World, Histories
<1>7. \A x \in Watched : look[x] = IF x \in L THEN 0 ELSE seen.look[x]
  BY DEF look
<1>8. \A x \in Watched : mine[x] = IF x = e THEN 0 ELSE seen.circled[c][x]
  BY DEF mine
<1> QED
  BY <1>1, <1>4, <1>5, <1>6, <1>7, <1>8 DEF early, quick

\* A look at L and a circle to e, when both are due, keep the invariant.
LEMMA LooksAgain ==
    ASSUME IInv, NEW c \in Convs, NEW r, Becomes(c, r), Under(call[c]), NEW L, NEW e, Looked(L, c, e),
           UNCHANGED <<well, busy, window, memo, permit>>, asked' \in [Entries -> Spans],
           \A x \in Watched : asked'[x] \in {0, asked[x]} /\ (x \in L \/ x = e => asked'[x] = 0),
           \A x \in L \cap Watched : Due(x),
           e \in Watched => ~(seen.circled[c][e] < ProbeEvery) /\ r.at = e,
           r.pc = "ask", r.why = "none",
           \/ r.at = call[c].at /\ r.visited = call[c].visited
           \/ r.visited = call[c].visited \cup {call[c].at}
    PROVE  IInv'
<1>1. Typed /\ seen' \in Histories
  BY LookedType DEF IInv
<1>2. World'
  BY <1>1 DEF Typed, World
<1>3. Typed'
  BY <1>1, <1>2, OneCall DEF Becomes
<1>4. /\ \A x \in Watched : seen'.look[x] = IF x \in L THEN 0 ELSE seen.look[x]
      /\ \A x \in Watched : seen'.circled[c][x] = IF x = e THEN 0 ELSE seen.circled[c][x]
      /\ \A d \in Convs \ {c} : seen'.circled[d] = seen.circled[d]
      /\ seen'.early = (seen.early \/ \E x \in L \cap Watched : seen.look[x] < ProbeEvery)
      /\ seen'.quick = (seen.quick \/ (e \in Watched /\ seen.circled[c][e] < ProbeEvery))
  BY <1>1, LookedFacts
<1>5. \A x \in L \cap Watched : ~(seen.look[x] < ProbeEvery)
  BY <1>1, SeenType DEF IInv, Spaced, Due
<1>6. ~seen'.early /\ ~seen'.quick
  BY <1>4, <1>5 DEF IInv, Spaced
<1>7. \A x \in Watched : asked'[x] <= seen'.look[x]
  BY <1>1, <1>4, SeenType DEF IInv, Spaced
<1>8. \A x \in Watched : asked'[x] <= seen'.circled[c][x]
  BY <1>1, <1>4, SeenType DEF IInv, Spaced
<1>9. \A x \in Watched, d \in Convs \ {c} : asked'[x] <= seen'.circled[d][x]
  BY <1>1, <1>4, SeenType DEF IInv, Spaced
<1>10. Spaced'
  BY <1>6, <1>7, <1>8, <1>9 DEF Spaced
<1>11. Fresh(r, seen'.circled[c])
  <2>1. Fresh(call[c], seen.circled[c])
    BY DEF IInv, Walked
  <2> QED
    BY <1>4, <2>1 DEF Fresh
<1>12. \A d \in Convs \ {c}, x \in Watched : seen.circled[d][x] <= seen'.circled[d][x]
  BY <1>1, <1>4, SeenType
<1>13. Walked'
  BY <1>3, <1>11, <1>12, WalkedKept DEF IInv
<1> QED
  BY <1>3, <1>10, <1>13 DEF IInv

LEMMA PlanKeeps == ASSUME IInv, NEW c \in Convs, Plan(c) PROVE IInv'
<1> DEFINE from == call[c].at
           to == call[c].aim
           looks == {from} \cup {e \in {to} : Busy(e)}
<1>1. /\ Typed /\ Under(call[c]) /\ call[c].pc = "plan" /\ UNCHANGED <<well, busy, window, memo, permit>>
  BY DEF IInv, Plan, Under
<1>2. to \in Entries
  BY <1>1, TypedCall DEF Placed
<1>3. CASE \A e \in looks : Due(e)
  <2>1. /\ asked' = [e \in Entries |-> IF e \in looks THEN 0 ELSE asked[e]]
        /\ call' = [call EXCEPT ![c] = [MovedTo(c, to) EXCEPT !.beside = from]]
        /\ Looked(looks, c, Nobody)
    BY <1>3 DEF Plan
  <2>2. PICK q \in Calls : /\ q = MovedTo(c, to) /\ Placed(q) /\ q.pc = "ask" /\ q.at = to /\ q.why = "none"
                           /\ q.visited = call[c].visited \cup {call[c].at}
    BY <1>1, <1>2, MovedToType
  <2>3. PICK r : r = [q EXCEPT !.beside = from] /\ call' = [call EXCEPT ![c] = r]
    BY <2>1, <2>2
  <2>4. from \in Somebody
    BY <1>1, TypedCall DEF Placed, Somebody
  <2> HIDE DEF from, to, looks
  <2>5. Along(r, q) /\ r.pc = q.pc /\ r.why = q.why
    BY <2>3, <2>4 DEF Along, Calls
  <2>6. Becomes(c, r)
    BY <2>2, <2>3, <2>5 DEF Becomes, Along, Placed, Under
  <2>7. asked' \in [Entries -> Spans]
    BY <1>1, <2>1, Constants DEF Typed, World, Spans
  <2>8. \A x \in Watched : asked'[x] \in {0, asked[x]} /\ (x \in looks \/ x = Nobody => asked'[x] = 0)
    BY <2>1, Constants
  <2>9. r.pc = "ask" /\ r.why = "none" /\ r.visited = call[c].visited \cup {call[c].at}
    BY <2>2, <2>5 DEF Along
  <2> QED
    BY <1>1, <1>3, <2>1, <2>6, <2>7, <2>8, <2>9, Constants, LooksAgain
<1>4. CASE ~(\A e \in looks : Due(e))
  <2>1. Consider(c, "start") /\ UNCHANGED <<asked, seen>>
    BY <1>4 DEF Plan
  <2>2. PICK r : Becomes(c, r) /\ Along(r, call[c]) /\ r.pc = "decide" /\ r.why = "start"
    BY <1>1, <2>1, Considers DEF Reasons
  <2> QED
    BY <1>1, <2>1, <2>2, Quiet, OnTheSpot
<1> QED
  BY <1>3, <1>4

LEMMA ClaimKeeps == ASSUME IInv, NEW c \in Convs, Claim(c) PROVE IInv'
<1> DEFINE e == call[c].aim
           looks == {x \in {e} : Busy(x)}
<1>1. /\ Typed /\ Under(call[c]) /\ call[c].pc = "claim" /\ UNCHANGED <<well, busy, window, memo, permit>>
  BY DEF IInv, Claim, Under
<1>2. e \in Entries
  BY <1>1, TypedCall DEF Placed
<1>3. CASE ~Busy(e) \/ Due(e)
  <2>1. /\ asked' = IF Busy(e) THEN [asked EXCEPT ![e] = 0] ELSE asked
        /\ call' = [call EXCEPT ![c] = MovedTo(c, e)]
        /\ Looked(looks, c, Nobody)
    BY <1>3 DEF Claim
  <2>2. PICK r \in Calls : /\ r = MovedTo(c, e) /\ Placed(r) /\ r.pc = "ask" /\ r.why = "none"
                           /\ r.visited = call[c].visited \cup {call[c].at}
    BY <1>1, <1>2, MovedToType
  <2>3. Becomes(c, r)
    BY <2>1, <2>2 DEF Becomes
  <2>4. asked' \in [Entries -> Spans]
    <3>1. 0 \in Spans /\ asked \in [Entries -> Spans]
      BY <1>1, Constants DEF Typed, World, Spans
    <3>2. asked' = [asked EXCEPT ![e] = 0] \/ asked' = asked
      BY <2>1
    <3> QED
      BY <3>1, <3>2
  <2>5. \A x \in Watched : asked'[x] \in {0, asked[x]} /\ (x \in looks \/ x = Nobody => asked'[x] = 0)
    BY <1>1, <2>1, Constants DEF Typed, World
  <2>6. \A x \in looks : Due(x)
    BY <1>3
  <2> HIDE DEF e, looks
  <2> QED
    BY <1>1, <2>1, <2>2, <2>3, <2>4, <2>5, <2>6, Constants, LooksAgain
<1>4. CASE ~(~Busy(e) \/ Due(e))
  <2>1. /\ call' = [call EXCEPT ![c] = [@ EXCEPT !.pc = "hand", !.aim = Nobody]]
        /\ UNCHANGED <<asked, seen>>
    BY <1>4 DEF Claim
  <2>2. PICK r : Becomes(c, r) /\ Along(r, call[c]) /\ r.pc = "hand" /\ r.why = call[c].why
    BY <1>1, <2>1, GivesUpLook
  <2> QED
    BY <1>1, <2>1, <2>2, Quiet, OnTheSpot
<1> QED
  BY <1>3, <1>4

LEMMA WrapKeeps == ASSUME IInv, NEW c \in Convs, Wrap(c) PROVE IInv'
<1>1. Typed /\ Under(call[c]) /\ UNCHANGED <<well, busy, window, memo, permit>>
  BY DEF IInv, Wrap, Under
<1> DEFINE at == call[c].at
           e == IF call[c].why = "failed" /\ ~IsBusy(c) THEN Nobody ELSE Circle(c)
           left == IF call[c].why = "start" THEN {} ELSE {at}
           looks == {x \in {e} : Busy(x)}
<1>2. CASE e = Nobody
  <2>1. /\ call' = [call EXCEPT ![c] = [@ EXCEPT !.pc = IF call[c].why = "rest" THEN "wait" ELSE "ask",
                                                 !.why = "none"]]
        /\ UNCHANGED <<asked, seen>>
    BY <1>2 DEF Wrap
  <2>2. PICK p \in {"wait", "ask"} : p = IF call[c].why = "rest" THEN "wait" ELSE "ask"
    OBVIOUS
  <2>3. call' = [call EXCEPT ![c] = [@ EXCEPT !.pc = p, !.why = "none"]]
    BY <2>1, <2>2
  <2>4. PICK r : Becomes(c, r) /\ Along(r, call[c]) /\ r.pc = p /\ r.why = "none"
    BY <1>1, <2>3, Stays
  <2> QED
    BY <1>1, <2>1, <2>4, Quiet, OnTheSpot
<1>3. CASE e # Nobody
  <2>1. /\ asked' = [x \in Entries |-> IF x \in {e} \cup left THEN 0 ELSE asked[x]]
        /\ call' = [call EXCEPT ![c] = IF e = at THEN [@ EXCEPT !.pc = "ask", !.why = "none"]
                                      ELSE MovedTo(c, e)]
        /\ Looked(looks, c, e)
    BY <1>3 DEF Wrap
  <2>2. /\ e \in Entries /\ (Busy(e) \/ e \in call[c].visited => Due(e))
        /\ e # at \/ call[c].why = "start"
    BY <1>1, <1>3, CircleChoice
  <2>3. asked' \in [Entries -> Spans]
    BY <1>1, <2>1, Constants DEF Typed, World, Spans
  <2>4. \A x \in Watched : asked'[x] \in {0, asked[x]} /\ (x \in looks \/ x = e => asked'[x] = 0)
    BY <2>1, Constants
  <2>5. e \in Watched => ~(seen.circled[c][e] < ProbeEvery)
    <3>1. SUFFICES ASSUME e \in Watched, seen.circled[c][e] < ProbeEvery PROVE FALSE
      OBVIOUS
    <3>2. call[c].why # "start" /\ (at = e \/ e \in call[c].visited)
      BY <1>1, <3>1 DEF IInv, Walked, Fresh
    <3>3. Due(e)
      BY <2>2, <3>2
    <3>4. asked[e] <= seen.circled[c][e]
      BY <3>1 DEF IInv, Spaced
    <3> HIDE DEF e
    <3> QED
      BY <1>1, <3>1, <3>3, <3>4, SeenType DEF Due
  <2>6. \A x \in looks \cap Watched : Due(x)
    BY <2>2
  <2> HIDE DEF e, looks, left
  <2>7. CASE e = at
    <3>1. call' = [call EXCEPT ![c] = [@ EXCEPT !.pc = "ask", !.why = "none"]]
      BY <2>1, <2>7
    <3>2. PICK p \in {"wait", "ask"} : p = "ask"
      OBVIOUS
    <3>3. PICK r : Becomes(c, r) /\ Along(r, call[c]) /\ r.pc = p /\ r.why = "none"
      BY <1>1, <3>1, <3>2, Stays
    <3>4. r.at = e /\ r.at = call[c].at /\ r.visited = call[c].visited /\ r.pc = "ask"
      BY <2>7, <3>2, <3>3 DEF Along
    <3> HIDE DEF at
    <3> QED
      BY <1>1, <2>1, <2>3, <2>4, <2>5, <2>6, <3>3, <3>4, LooksAgain
  <2>8. CASE e # at
    <3>1. PICK r \in Calls : /\ r = MovedTo(c, e) /\ Placed(r) /\ r.pc = "ask" /\ r.why = "none"
                             /\ r.at = e /\ r.visited = call[c].visited \cup {call[c].at}
      BY <1>1, <2>2, MovedToType
    <3>2. Becomes(c, r)
      BY <2>1, <2>8, <3>1 DEF Becomes
    <3> HIDE DEF at
    <3> QED
      BY <1>1, <2>1, <2>3, <2>4, <2>5, <2>6, <3>1, <3>2, LooksAgain
  <2> QED
    BY <2>7, <2>8
<1> QED
  BY <1>2, <1>3

LEMMA ClearedFacts ==
    ASSUME Typed, NEW e \in Entries, Cleared(e)
    PROVE  /\ \A x \in Watched : seen'.look[x] = IF x = e THEN ProbeEvery ELSE seen.look[x]
           /\ \A d \in Convs, x \in Watched :
                 seen'.circled[d][x] = IF x = e THEN ProbeEvery ELSE seen.circled[d][x]
           /\ \A x \in Watched : asked'[x] = IF x = e THEN ProbeEvery ELSE asked[x]
           /\ seen'.early = seen.early /\ seen'.quick = seen.quick
<1> DEFINE look == [x \in Watched |-> IF x = e THEN ProbeEvery ELSE seen.look[x]]
           circled == [d \in Convs |-> [x \in Watched |->
                          IF x = e THEN ProbeEvery ELSE seen.circled[d][x]]]
<1>1. seen' = [seen EXCEPT !.look = look, !.circled = circled]
  BY DEF Cleared
<1> HIDE DEF look, circled
<1>2. /\ seen'.look = look /\ seen'.circled = circled
      /\ seen'.early = seen.early /\ seen'.quick = seen.quick
  BY <1>1 DEF Typed, World, Histories
<1>3. \A x \in Watched : asked'[x] = IF x = e THEN ProbeEvery ELSE asked[x]
  BY Constants DEF Cleared, Typed, World
<1> QED
  BY <1>2, <1>3 DEF look, circled

\* A model that answered, or that the user asked for, is like new for everyone.
LEMMA ClearedKeeps ==
    ASSUME IInv, NEW e \in Entries, Cleared(e)
    PROVE  /\ seen' \in Histories /\ Spaced'
           /\ \A d \in Convs, x \in Watched : seen.circled[d][x] <= seen'.circled[d][x]
<1>1. Typed
  BY DEF IInv
<1>2. /\ \A x \in Watched : seen'.look[x] = IF x = e THEN ProbeEvery ELSE seen.look[x]
      /\ \A d \in Convs, x \in Watched :
            seen'.circled[d][x] = IF x = e THEN ProbeEvery ELSE seen.circled[d][x]
      /\ \A x \in Watched : asked'[x] = IF x = e THEN ProbeEvery ELSE asked[x]
      /\ seen'.early = seen.early /\ seen'.quick = seen.quick
  BY <1>1, ClearedFacts
<1>3. Spaced'
  BY <1>1, <1>2, SeenType DEF IInv, Spaced
<1>4. \A d \in Convs, x \in Watched : seen.circled[d][x] <= seen'.circled[d][x]
  BY <1>1, <1>2, SeenType
<1> QED
  BY <1>1, <1>3, <1>4, ClearedType

LEMMA AnswerKeeps == ASSUME IInv, NEW c \in Convs, NEW e \in Entries, AnswerBy(c, e) PROVE IInv'
<1>1. /\ Typed /\ Cleared(e) /\ UNCHANGED <<well, memo, permit>>
      /\ call' = [call EXCEPT ![c] = NoCall]
  BY DEF IInv, AnswerBy
<1>2. Becomes(c, NoCall) /\ ~Under(NoCall)
  BY <1>1, NoCallType DEF Becomes, Under
<1>3. World'
  BY <1>1, ClearedType DEF Typed, World
<1> QED
  BY <1>1, <1>2, <1>3, ClearedKeeps, Elsewhere

\* Nothing of the calls changes.
LEMMA CallsStay ==
    ASSUME IInv, UNCHANGED call, World', Spaced',
           \A d \in Convs, x \in Watched : seen.circled[d][x] <= seen'.circled[d][x]
    PROVE  IInv'
<1>1. Typed'
  BY DEF IInv, Typed
<1>2. Walked'
  <2> SUFFICES ASSUME NEW d \in Convs, Under(call[d]) PROVE Fresh(call[d], seen'.circled[d])
    BY DEF Walked
  <2>1. Fresh(call[d], seen.circled[d])
    BY DEF IInv, Walked
  <2>2. \A x \in Watched : seen'.circled[d][x] \in Nat /\ seen.circled[d][x] \in Nat
    BY SeenType, Constants DEF IInv, Typed, World, Histories, Spans
  <2>3. \A x \in Watched : seen'.circled[d][x] < ProbeEvery => seen.circled[d][x] < ProbeEvery
    BY <2>2, Constants
  <2> QED
    BY <2>1, <2>3 DEF Fresh
<1> QED
  BY <1>1, <1>2 DEF IInv

LEMMA ForgetBusyKeeps == ASSUME IInv, NEW e \in Entries, ForgetBusy(e) PROVE IInv'
<1>1. Typed /\ Cleared(e) /\ UNCHANGED <<well, permit, call>>
  BY DEF IInv, ForgetBusy
<1>2. memo' \in Memos
  <2>1. memo' = [c \in Convs |-> [memo[c] EXCEPT ![e] = [left |-> 0, later |-> {}]]]
    BY DEF ForgetBusy
  <2>2. [left |-> 0, later |-> {}] \in [left : 0..Memo, later : SUBSET Entries]
    BY Constants
  <2>3. memo \in Memos
    BY <1>1 DEF Typed, World
  <2> QED
    BY <2>1, <2>2, <2>3 DEF Memos
<1>3. World'
  BY <1>1, <1>2, ClearedType DEF Typed, World
<1> QED
  BY <1>1, <1>3, ClearedKeeps, CallsStay

LEMMA KeysKeeps == ASSUME IInv, NEW e \in Resting, Keys(e) PROVE IInv'
<1>1. Typed /\ UNCHANGED <<busy, window, asked, memo, permit, call, seen>> /\ e \in Entries
  BY LadderAssumption DEF IInv, Keys
<1>2. World'
  BY <1>1 DEF Keys, Typed, World
<1>3. Spaced'
  BY <1>1 DEF IInv, Spaced
<1> QED
  BY <1>1, <1>2, <1>3, SeenKept, CallsStay

LEMMA OtherFailureKeeps == ASSUME IInv, NEW c \in Convs, OtherFailure(c) PROVE IInv'
<1>1. Typed /\ Under(call[c]) /\ UNCHANGED <<well, busy, window, asked, memo, permit, seen>>
  BY DEF IInv, OtherFailure, Under, shared
<1>2. PICK r : Becomes(c, r) /\ Along(r, call[c]) /\ r.pc = "decide" /\ r.why = "failed"
  BY <1>1, GoesOnFailed DEF OtherFailure
<1> QED
  BY <1>1, <1>2, Quiet, OnTheSpot

LEMMA ShapeRefusedKeeps == ASSUME IInv, NEW c \in Convs, ShapeRefused(c) PROVE IInv'
<1>1. /\ Typed /\ Under(call[c]) /\ UNCHANGED <<well, busy, window, asked, memo, permit, seen>>
      /\ call' = [call EXCEPT ![c] = [MovedTo(c, call[c].pos) EXCEPT
                                        !.excluded = @ \cup {call[c].at}, !.beside = Nobody]]
  BY DEF IInv, ShapeRefused, Under, shared
<1>2. call[c].pos \in Entries /\ call[c].at \in Entries
  BY <1>1, TypedCall DEF Placed, Under
<1>3. PICK q \in Calls : /\ q = MovedTo(c, call[c].pos) /\ Placed(q) /\ q.pc = "ask" /\ q.why = "none"
                         /\ q.visited = call[c].visited \cup {call[c].at}
  BY <1>1, <1>2, MovedToType
<1>4. PICK r : /\ r = [q EXCEPT !.excluded = @ \cup {call[c].at}, !.beside = Nobody]
               /\ call' = [call EXCEPT ![c] = r]
  BY <1>1, <1>3
<1>5. Along(r, q) /\ r.pc = q.pc /\ r.why = q.why
  BY <1>2, <1>4 DEF Along, Calls, Somebody
<1>6. Becomes(c, r)
  BY <1>3, <1>4, <1>5 DEF Becomes, Along, Placed, Under
<1>7. World'
  BY <1>1 DEF Typed, World
<1>8. Typed'
  BY <1>1, <1>6, <1>7, OneCall DEF Becomes
<1>9. Spaced'
  BY <1>1 DEF IInv, Spaced
<1>10. Fresh(r, seen'.circled[c])
  <2>1. Fresh(call[c], seen.circled[c])
    BY <1>1 DEF IInv, Walked
  <2>2. r.pc = "ask" /\ r.why = "none" /\ r.visited = call[c].visited \cup {call[c].at}
    BY <1>3, <1>5 DEF Along
  <2> QED
    BY <1>1, <2>1, <2>2 DEF Fresh
<1>11. Walked'
  BY <1>1, <1>6, <1>8, <1>10, SeenKept, WalkedKept DEF IInv
<1> QED
  BY <1>8, <1>9, <1>11 DEF IInv

\* Hermes has the call again: it is over, or on its way to p.
LEMMA MovesOn ==
    ASSUME IInv, NEW c \in Convs, NEW b \in BOOLEAN, seen' = [seen EXCEPT !.stayed[c] = b],
           UNCHANGED <<well, busy, window, asked>>, memo' \in Memos, permit' \in Permits,
           \/ call' = [call EXCEPT ![c] = NoCall]
           \/ \E p \in Entries :
                 call' = [call EXCEPT ![c] = [NoCall EXCEPT !.pc = "begin", !.pos = p]]
    PROVE  IInv'
<1>1. Typed
  BY DEF IInv
<1>2. \E r : Becomes(c, r) /\ ~Under(r)
  <2>1. CASE call' = [call EXCEPT ![c] = NoCall]
    BY <2>1, NoCallType DEF Becomes, Under
  <2>2. ASSUME NEW p \in Entries,
               call' = [call EXCEPT ![c] = [NoCall EXCEPT !.pc = "begin", !.pos = p]]
        PROVE  \E r : Becomes(c, r) /\ ~Under(r)
    <3>1. PICK q \in Calls : q = NoCall
      BY NoCallType
    <3>2. PICK r : r = [q EXCEPT !.pc = "begin", !.pos = p] /\ call' = [call EXCEPT ![c] = r]
      BY <2>2, <3>1
    <3>3. r \in Calls /\ r.pc = "begin" /\ r.pos = p
      BY <3>2 DEF Calls, Somebody
    <3> QED
      BY <3>2, <3>3 DEF Becomes, Placed, Under
  <2> QED
    BY <2>1, <2>2
<1>3. /\ seen' \in Histories /\ seen'.look = seen.look /\ seen'.circled = seen.circled
      /\ seen'.early = seen.early /\ seen'.quick = seen.quick
  BY <1>1, StayedType
<1>4. World'
  BY <1>1, <1>3 DEF Typed, World
<1>5. Spaced'
  BY <1>3 DEF IInv, Spaced
<1>6. \A d \in Convs, e \in Watched : seen.circled[d][e] <= seen'.circled[d][e]
  BY <1>1, <1>3, CircledKept
<1> QED
  BY <1>2, <1>4, <1>5, <1>6, Elsewhere

LEMMA HandOverKeeps == ASSUME IInv, NEW c \in Convs, HandOver(c) PROVE IInv'
<1>1. Typed /\ Under(call[c]) /\ UNCHANGED <<well, busy, window, asked>>
  BY DEF IInv, HandOver, Under
<1> DEFINE from == call[c].at
           hand == Hand(c)
           back == IF IsBusy(c) \/ call[c].why = "start" THEN Most(window[from], BusyFirst) ELSE Memo
<1>2. from \in Entries /\ call[c].pos \in Entries /\ call[c].origin \in Somebody
  <2>1. call[c] \in Calls /\ Placed(call[c])
    BY <1>1, TypedCall
  <2> QED
    BY <1>1, <2>1 DEF Placed, Calls, Under
<1>3. hand \subseteq Entries /\ Ahead(c) \subseteq Entries
  BY DEF Hand, Later, After, Ahead
<1>4. CASE Goto(c, "wrap") /\ UNCHANGED <<memo, permit, seen>>
  <2>1. PICK r : Becomes(c, r) /\ Along(r, call[c]) /\ r.pc = "wrap" /\ r.why = call[c].why
    BY <1>1, <1>4, GoesTo
  <2> QED
    BY <1>1, <1>4, <2>1, Quiet, OnTheSpot
<1>5. CASE (\E e \in hand : Free(e)) /\ memo[c][from].left = 0
  <2>1. /\ memo' = [memo EXCEPT ![c][from] = [left |-> Least(back, Memo), later |-> hand]]
        /\ permit' = [permit EXCEPT !.kame = [e \in Entries |->
               IF e \in hand THEN [left |-> Permit, origin |-> call[c].origin] ELSE @[e]]]
        /\ \/ \E p \in Ahead(c) \cup {call[c].pos} :
                /\ call' = [call EXCEPT ![c] = [NoCall EXCEPT !.pc = "begin", !.pos = p]]
                /\ seen' = [seen EXCEPT !.stayed[c] = @ \/ (p = call[c].pos /\ Uncovered(c))]
           \/ call' = [call EXCEPT ![c] = NoCall] /\ UNCHANGED seen
    BY <1>5 DEF HandOver
  <2>2. Least(back, Memo) \in 0..Memo
    <3>1. window[from] \in Nat
      BY <1>1, <1>2, Constants DEF Typed, World
    <3>2. back \in Nat
      BY <3>1, Constants DEF Most
    <3> HIDE DEF back
    <3> QED
      BY <3>2, Constants DEF Least
  <2> HIDE DEF hand, from, back
  <2>3. memo' \in Memos
    <3>1. [left |-> Least(back, Memo), later |-> hand] \in [left : 0..Memo, later : SUBSET Entries]
      BY <1>3, <2>2
    <3>2. memo \in Memos
      BY <1>1 DEF Typed, World
    <3> QED
      BY <1>2, <2>1, <3>1, <3>2 DEF Memos
  <2>4. permit' \in Permits
    <3>1. [left |-> Permit, origin |-> call[c].origin] \in [left : 0..Permit, origin : Somebody]
      BY <1>2, Constants
    <3>2. permit \in Permits
      BY <1>1 DEF Typed, World
    <3> QED
      BY <2>1, <3>1, <3>2 DEF Permits, Table
  <2>5. CASE call' = [call EXCEPT ![c] = NoCall] /\ UNCHANGED seen
    <3>1. PICK b \in BOOLEAN : b = seen.stayed[c]
      BY <1>1 DEF Typed, World, Histories
    <3>2. seen' = [seen EXCEPT !.stayed[c] = b]
      BY <1>1, <2>5, <3>1 DEF Typed, World, Histories
    <3> QED
      BY <1>1, <2>3, <2>4, <2>5, <3>2, MovesOn
  <2>6. ASSUME NEW p \in Ahead(c) \cup {call[c].pos},
               call' = [call EXCEPT ![c] = [NoCall EXCEPT !.pc = "begin", !.pos = p]],
               seen' = [seen EXCEPT !.stayed[c] = @ \/ (p = call[c].pos /\ Uncovered(c))]
        PROVE  IInv'
    <3>1. p \in Entries
      BY <1>2, <1>3
    <3>2. PICK b \in BOOLEAN : b = (seen.stayed[c] \/ (p = call[c].pos /\ Uncovered(c)))
      BY <1>1 DEF Typed, World, Histories
    <3>3. seen' = [seen EXCEPT !.stayed[c] = b]
      BY <2>6, <3>2
    <3> QED
      BY <1>1, <2>3, <2>4, <2>6, <3>1, <3>3, MovesOn
  <2> QED
    BY <2>1, <2>5, <2>6
<1> QED
  BY <1>4, <1>5 DEF HandOver

LEMMA SurfacedKeeps == ASSUME IInv, NEW c \in Convs, Surfaced(c) PROVE IInv'
<1>1. /\ Typed /\ Under(call[c]) /\ UNCHANGED <<well, busy, window, asked, memo>>
      /\ seen' = [seen EXCEPT !.stayed[c] = @ \/ Uncovered(c)]
  BY DEF IInv, Surfaced, Under
<1>2. call[c].pos \in Entries /\ Ahead(c) \subseteq Entries
  BY <1>1, TypedCall DEF Placed, Under, Ahead, After
<1>3. permit \in Permits /\ permit.kame \in Table /\ permit.host \in Table
  BY <1>1 DEF Typed, World, Permits
<1>4. permit' \in Permits
  <2>1. PICK o \in Somebody :
           permit' = [permit EXCEPT !.host = [e \in Entries |->
                         IF e \in After(o, call[c].pos) \ {Main} /\ @[e].left = 0
                         THEN [left |-> Permit, origin |-> o] ELSE @[e]]]
    <3>1. PermitOrigin(call[c].pos, permit.host, permit.kame) \in Somebody
      BY <1>2, <1>3, PermitOriginType
    <3> QED
      BY <1>2, <3>1 DEF Surfaced, NoteHostFallback, Somebody
  <2>2. [left |-> Permit, origin |-> o] \in [left : 0..Permit, origin : Somebody]
    BY Constants
  <2> QED
    BY <1>3, <2>1, <2>2 DEF Permits, Table
<1>5. PICK b \in BOOLEAN : b = (seen.stayed[c] \/ Uncovered(c))
  BY <1>1 DEF Typed, World, Histories
<1>6. seen' = [seen EXCEPT !.stayed[c] = b]
  BY <1>1, <1>5
<1>7. memo' \in Memos
  BY <1>1 DEF Typed, World
<1>8. \/ call' = [call EXCEPT ![c] = NoCall]
      \/ \E p \in Entries : call' = [call EXCEPT ![c] = [NoCall EXCEPT !.pc = "begin", !.pos = p]]
  BY <1>2 DEF Surfaced
<1> QED
  BY <1>1, <1>4, <1>6, <1>7, <1>8, MovesOn

\* What a tick leaves of a table of permits.
LEMMA OlderType ==
    ASSUME NEW table \in Table
    PROVE  /\ Older(table) \in Table
           /\ \A e \in Entries : Older(table)[e].left > 0 =>
                 table[e].left > 0 /\ Older(table)[e].origin = table[e].origin
<1>1. ASSUME NEW p \in [left : 0..Permit, origin : Somebody], ~(p.left <= 1)
      PROVE  /\ [p EXCEPT !.left = @ - 1] \in [left : 0..Permit, origin : Somebody]
             /\ [p EXCEPT !.left = @ - 1].origin = p.origin /\ p.left > 0
  BY <1>1, Constants
<1>2. [left |-> 0, origin |-> Nobody] \in [left : 0..Permit, origin : Somebody]
  BY Constants DEF Somebody
<1>3. ASSUME NEW e \in Entries
      PROVE  /\ Older(table)[e] \in [left : 0..Permit, origin : Somebody]
             /\ Older(table)[e].left > 0 =>
                   table[e].left > 0 /\ Older(table)[e].origin = table[e].origin
  <2>1. PICK p \in [left : 0..Permit, origin : Somebody] : p = table[e]
    BY DEF Table
  <2>2. Older(table)[e] = IF p.left <= 1 THEN [left |-> 0, origin |-> Nobody]
                                         ELSE [p EXCEPT !.left = @ - 1]
    BY <2>1 DEF Older
  <2> QED
    BY <1>1, <1>2, <2>1, <2>2
<1>4. Older(table) \in Table
  BY <1>3 DEF Older, Table
<1> QED
  BY <1>3, <1>4

LEMMA TickKeeps == ASSUME IInv, Tick PROVE IInv'
<1>1. Typed /\ UNCHANGED <<well, call>>
  BY DEF IInv, Tick
<1> DEFINE over == {e \in Entries : busy[e] - 1 <= -Most(BusyFirst, window[e])}
           look == [e \in Watched |-> Least(seen.look[e] + 1, ProbeEvery)]
           circled == [c \in Convs |-> [e \in Watched |-> Least(seen.circled[c][e] + 1, ProbeEvery)]]
<1>2. busy' \in [Entries -> -BusyMax..BusyMax] /\ window' \in [Entries -> 0..BusyMax]
  <2>1. /\ busy' = [e \in Entries |-> IF e \in over THEN -BusyMax ELSE busy[e] - 1]
        /\ window' = [e \in Entries |-> IF e \in over THEN 0 ELSE window[e]]
    BY DEF Tick
  <2>2. \A e \in Entries : busy[e] \in -BusyMax..BusyMax /\ window[e] \in 0..BusyMax
    BY <1>1 DEF Typed, World
  <2>3. \A e \in Entries : Most(BusyFirst, window[e]) \in 0..BusyMax
    BY <2>2, Constants DEF Most
  <2>4. \A e \in Entries \ over : busy[e] - 1 \in -BusyMax..BusyMax
    BY <2>2, <2>3, Constants
  <2> HIDE DEF over
  <2> QED
    BY <2>1, <2>2, <2>4, Constants
<1>3. asked' \in [Entries -> Spans] /\ \A e \in Entries : asked'[e] = Least(asked[e] + 1, ProbeEvery)
  <2>1. asked' = [e \in Entries |-> Least(asked[e] + 1, ProbeEvery)]
    BY DEF Tick
  <2>2. \A e \in Entries : Least(asked[e] + 1, ProbeEvery) \in Spans
    BY <1>1, Constants DEF Typed, World, Spans, Least
  <2> QED
    BY <2>1, <2>2
<1>4. memo' \in Memos
  <2>1. memo' = [c \in Convs |-> [e \in Entries |->
                   IF memo[c][e].left <= 1 THEN [left |-> 0, later |-> {}]
                   ELSE [memo[c][e] EXCEPT !.left = @ - 1]]]
    BY DEF Tick
  <2>2. \A c \in Convs, e \in Entries : memo[c][e] \in [left : 0..Memo, later : SUBSET Entries]
    BY <1>1 DEF Typed, World, Memos
  <2>3. \A m \in [left : 0..Memo, later : SUBSET Entries] :
          ~(m.left <= 1) => [m EXCEPT !.left = @ - 1] \in [left : 0..Memo, later : SUBSET Entries]
    BY Constants
  <2>4. [left |-> 0, later |-> {}] \in [left : 0..Memo, later : SUBSET Entries]
    BY Constants
  <2> QED
    BY <2>1, <2>2, <2>3, <2>4 DEF Memos
<1>5. permit' \in Permits
  <2>1. permit.kame \in Table /\ permit.host \in Table
    BY <1>1 DEF Typed, World, Permits
  <2> QED
    BY <2>1, OlderType DEF Tick, Permits
<1>6. /\ look \in [Watched -> Spans] /\ circled \in [Convs -> [Watched -> Spans]]
      /\ \A e \in Watched : look[e] = Least(seen.look[e] + 1, ProbeEvery)
      /\ \A c \in Convs, e \in Watched : circled[c][e] = Least(seen.circled[c][e] + 1, ProbeEvery)
  BY <1>1, Constants DEF Typed, World, Histories, Spans, Least
<1>7. seen' = [seen EXCEPT !.look = look, !.circled = circled]
  BY DEF Tick
<1> HIDE DEF look, circled
<1>8. /\ seen' \in Histories /\ seen'.look = look /\ seen'.circled = circled
      /\ seen'.early = seen.early /\ seen'.quick = seen.quick
  BY <1>1, <1>6, <1>7 DEF Typed, World, Histories
<1>9. World'
  BY <1>1, <1>2, <1>3, <1>4, <1>5, <1>8 DEF Typed, World
<1>10. Spaced'
  <2>1. \A e \in Watched : e \in Entries
    BY Constants
  <2>2. \A m \in Spans, n \in Spans : m <= n => Least(m + 1, ProbeEvery) <= Least(n + 1, ProbeEvery)
    BY Constants DEF Spans, Least
  <2>3. ~seen'.early /\ ~seen'.quick
    BY <1>8 DEF IInv, Spaced
  <2>4. ASSUME NEW e \in Watched PROVE asked'[e] <= seen'.look[e]
    <3>1. asked[e] \in Spans /\ seen.look[e] \in Spans /\ asked[e] <= seen.look[e]
      BY <1>1, SeenType DEF IInv, Spaced
    <3>2. asked'[e] = Least(asked[e] + 1, ProbeEvery)
      BY <1>3, <2>1
    <3>3. seen'.look[e] = Least(seen.look[e] + 1, ProbeEvery)
      BY <1>6, <1>8
    <3> QED
      BY <2>2, <3>1, <3>2, <3>3
  <2>5. ASSUME NEW e \in Watched, NEW c \in Convs PROVE asked'[e] <= seen'.circled[c][e]
    <3>1. asked[e] \in Spans /\ seen.circled[c][e] \in Spans /\ asked[e] <= seen.circled[c][e]
      BY <1>1, SeenType DEF IInv, Spaced
    <3>2. asked'[e] = Least(asked[e] + 1, ProbeEvery)
      BY <1>3, <2>1
    <3>3. seen'.circled[c][e] = Least(seen.circled[c][e] + 1, ProbeEvery)
      BY <1>6, <1>8
    <3> QED
      BY <2>2, <3>1, <3>2, <3>3
  <2> QED
    BY <2>3, <2>4, <2>5 DEF Spaced
<1>11. \A d \in Convs, e \in Watched : seen.circled[d][e] <= seen'.circled[d][e]
  BY <1>1, <1>6, <1>8, SeenType DEF Least
<1> QED
  BY <1>1, <1>9, <1>10, <1>11, CallsStay

LEMMA Initially == Init => IInv
<1> SUFFICES ASSUME Init PROVE IInv
  OBVIOUS
<1>1. /\ 0 \in Spans /\ ProbeEvery \in Spans /\ -BusyMax \in -BusyMax..BusyMax /\ 0 \in 0..BusyMax
      /\ ProbeEvery <= ProbeEvery /\ ~(ProbeEvery < ProbeEvery)
  BY Constants DEF Spans
<1>2. memo \in Memos /\ permit \in Permits
  BY Constants DEF Init, Memos, Permits, Table, NoPermits, Somebody
<1>3. seen \in Histories
  BY <1>1 DEF Init, Histories
<1>4. World
  BY <1>1, <1>2, <1>3 DEF Init, World
<1>5. Typed
  BY <1>4, NoCallType DEF Init, Typed
<1>6. Spaced
  BY <1>1, Constants DEF Init, Spaced
<1>7. Walked
  BY NoCallType DEF Init, Walked, Under
<1> QED
  BY <1>5, <1>6, <1>7 DEF IInv

LEMMA InvariantStep == IInv /\ [Next]_vars => IInv'
<1> SUFFICES ASSUME IInv, [Next]_vars PROVE IInv'
  OBVIOUS
<1>1. CASE UNCHANGED vars
  BY <1>1 DEF vars, shared, IInv, Typed, World, Spaced, Walked
<1>2. CASE \E c \in Convs : Step(c)
  <2>1. PICK c \in Convs : Step(c)
    BY <1>2
  <2>2. CASE Answer(c)
    BY <2>2, AnswerKeeps DEF Answer
  <2>3. CASE Refused(c)
    BY <2>3, BusyFailureKeeps, OtherFailureKeeps, SurfacedKeeps, ShapeRefusedKeeps, StillBusyKeeps
    DEF Refused
  <2> QED
    BY <2>1, <2>2, <2>3, TurnKeeps, BeginKeeps, StartKeeps, PlanKeeps, AskKeeps, DecideKeeps,
       ClaimKeeps, HandOverKeeps, WrapKeeps, WakeKeeps DEF Step
<1>3. CASE \E e \in Resting : Keys(e)
  BY <1>3, KeysKeeps
<1>4. CASE \E e \in Entries : ForgetBusy(e)
  BY <1>4, ForgetBusyKeeps
<1> QED
  BY <1>1, <1>2, <1>3, <1>4, TickKeeps DEF Next

LEMMA Invariant == Spec => []IInv
BY Initially, InvariantStep, PTL DEF Spec

\* Type correctness of the ladder, for every list, every number of
\* conversations and every interval (transport.py:4645-5470).
THEOREM LadderTypeCorrect == Spec => []TypeOK
<1>1. IInv => TypeOK
  BY TypedIsTypeOK DEF IInv
<1> QED
  BY <1>1, Invariant, PTL

\* However many conversations see the same busy models due, claimed looks at
\* one of them are ProbeEvery apart (transport.py:4711-4754).
THEOREM LooksAreSpaced == Spec => []LooksSpaced
<1>1. IInv => LooksSpaced
  BY DEF IInv, Spaced, LooksSpaced
<1> QED
  BY <1>1, Invariant, PTL

\* One call never circles to the same model twice within ProbeEvery
\* (transport.py:4960-5080).
THEOREM CirclesAreSpaced == Spec => []CirclesSpaced
<1>1. IInv => CirclesSpaced
  BY DEF IInv, Spaced, CirclesSpaced
<1> QED
  BY <1>1, Invariant, PTL
-----------------------------------------------------------------------------
(* Where a reply started. The tables of permits are everybody's, so what a   *)
(* walk is told of its start is its own only as far as nobody else wrote     *)
(* another start there.                                                      *)

\* c's call goes on knowing the same start, or is over.
GoesOn(c) ==
    /\ Under(call[c]) /\ permit' = permit /\ seen'.stayed = seen.stayed
    /\ \E r : /\ call' = [call EXCEPT ![c] = r]
              /\ r = NoCall \/ (Under(r) /\ r.origin = call[c].origin)

LEMMA SameStart ==
    ASSUME Typed, NEW c \in Convs, Under(call[c]), permit' = permit, seen'.stayed = seen.stayed,
           \/ Goto(c, "ask") \/ Goto(c, "open") \/ Goto(c, "hand") \/ Goto(c, "wrap")
           \/ \E w : Consider(c, w)
           \/ \E p \in {"plan", "claim", "hand"} : \E e :
                 call' = [call EXCEPT ![c] = [@ EXCEPT !.pc = p, !.aim = e]]
           \/ \E p \in {"ask", "wait"} :
                 call' = [call EXCEPT ![c] = [@ EXCEPT !.pc = p, !.why = "none"]]
           \/ call' = [call EXCEPT ![c] = [@ EXCEPT !.beside = Nobody]]
           \/ call' = [call EXCEPT ![c] = [@ EXCEPT !.pc = "decide", !.why = "failed",
                                                    !.beside = Nobody]]
    PROVE  GoesOn(c)
<1>1. PICK q \in Calls : q = call[c] /\ Under(q)
  BY DEF Typed
<1>2. \E r : /\ call' = [call EXCEPT ![c] = r] /\ Under(r) /\ r.origin = q.origin
  <2>1. CASE \E p \in {"ask", "open", "hand", "wrap"} : Goto(c, p)
    <3>1. PICK p \in {"ask", "open", "hand", "wrap"} :
             call' = [call EXCEPT ![c] = [q EXCEPT !.pc = p]]
      BY <1>1, <2>1 DEF Goto
    <3>2. [q EXCEPT !.pc = p].origin = q.origin /\ [q EXCEPT !.pc = p].pc = p
      BY DEF Calls
    <3> QED
      BY <3>1, <3>2 DEF Under
  <2>2. CASE \E w : Consider(c, w)
    <3>1. PICK w : call' = [call EXCEPT ![c] = [q EXCEPT !.pc = "decide", !.why = w,
                                                         !.aim = Nobody]]
      BY <1>1, <2>2 DEF Consider
    <3> DEFINE r == [q EXCEPT !.pc = "decide", !.why = w, !.aim = Nobody]
    <3>2. r.origin = q.origin /\ r.pc = "decide"
      BY DEF Calls
    <3> QED
      BY <3>1, <3>2 DEF Under
  <2>3. CASE \E p \in {"plan", "claim", "hand"} : \E e :
               call' = [call EXCEPT ![c] = [@ EXCEPT !.pc = p, !.aim = e]]
    <3>1. PICK p \in {"plan", "claim", "hand"} :
             \E e : call' = [call EXCEPT ![c] = [q EXCEPT !.pc = p, !.aim = e]]
      BY <1>1, <2>3
    <3>2. PICK e : call' = [call EXCEPT ![c] = [q EXCEPT !.pc = p, !.aim = e]]
      BY <3>1
    <3> DEFINE r == [q EXCEPT !.pc = p, !.aim = e]
    <3>3. r.origin = q.origin /\ r.pc = p
      BY DEF Calls
    <3> QED
      BY <3>2, <3>3 DEF Under
  <2>4. CASE \E p \in {"ask", "wait"} :
               call' = [call EXCEPT ![c] = [@ EXCEPT !.pc = p, !.why = "none"]]
    <3>1. PICK p \in {"ask", "wait"} :
             call' = [call EXCEPT ![c] = [q EXCEPT !.pc = p, !.why = "none"]]
      BY <1>1, <2>4
    <3> DEFINE r == [q EXCEPT !.pc = p, !.why = "none"]
    <3>2. r.origin = q.origin /\ r.pc = p
      BY DEF Calls
    <3> QED
      BY <3>1, <3>2 DEF Under
  <2>5. CASE call' = [call EXCEPT ![c] = [@ EXCEPT !.beside = Nobody]]
    <3> DEFINE r == [q EXCEPT !.beside = Nobody]
    <3>1. r.origin = q.origin /\ r.pc = q.pc
      BY DEF Calls
    <3> QED
      BY <1>1, <2>5, <3>1 DEF Under
  <2>6. CASE call' = [call EXCEPT ![c] = [@ EXCEPT !.pc = "decide", !.why = "failed",
                                                   !.beside = Nobody]]
    <3> DEFINE r == [q EXCEPT !.pc = "decide", !.why = "failed", !.beside = Nobody]
    <3>1. r.origin = q.origin /\ r.pc = "decide"
      BY DEF Calls
    <3> QED
      BY <1>1, <2>6, <3>1 DEF Under
  <2> QED
    BY <2>1, <2>2, <2>3, <2>4, <2>5, <2>6
<1> QED
  BY <1>1, <1>2 DEF GoesOn

LEMMA IsOver ==
    ASSUME NEW c \in Convs, Under(call[c]), permit' = permit, seen'.stayed = seen.stayed,
           call' = [call EXCEPT ![c] = NoCall]
    PROVE  GoesOn(c)
BY DEF GoesOn

LEMMA MovedKnowing ==
    ASSUME Typed, NEW c \in Convs, NEW e
    PROVE  MovedTo(c, e).origin = call[c].origin /\ MovedTo(c, e).pc = "ask"
<1>1. PICK q \in Calls : q = call[c]
  BY DEF Typed
<1> DEFINE V == q.visited \cup {q.at}
<1>2. MovedTo(c, e) = [q EXCEPT !.pc = "ask", !.at = e, !.visited = V, !.tired = 0,
                                !.noted = FALSE, !.aim = Nobody, !.why = "none"]
  BY <1>1 DEF MovedTo
<1> HIDE DEF V
<1> QED
  BY <1>1, <1>2 DEF Calls

LEMMA LookedStayed ==
    ASSUME Typed, NEW L, NEW c \in Convs, NEW e, Looked(L, c, e)
    PROVE  seen'.stayed = seen.stayed
<1> DEFINE early == seen.early \/ \E x \in L \cap Watched : seen.look[x] < ProbeEvery
           quick == seen.quick \/ (e \in Watched /\ seen.circled[c][e] < ProbeEvery)
           look == [x \in Watched |-> IF x \in L THEN 0 ELSE seen.look[x]]
           mine == [x \in Watched |-> IF x = e THEN 0 ELSE seen.circled[c][x]]
<1>1. seen' = [seen EXCEPT !.look = look, !.early = early, !.circled[c] = mine, !.quick = quick]
  BY DEF Looked
<1> HIDE DEF early, quick, look, mine
<1> QED
  BY <1>1 DEF Typed, World, Histories

LEMMA ClearedStayed ==
    ASSUME Typed, NEW e \in Entries, Cleared(e)
    PROVE  seen'.stayed = seen.stayed
<1> DEFINE look == [x \in Watched |-> IF x = e THEN ProbeEvery ELSE seen.look[x]]
           circled == [d \in Convs |-> [x \in Watched |->
                          IF x = e THEN ProbeEvery ELSE seen.circled[d][x]]]
<1>1. seen' = [seen EXCEPT !.look = look, !.circled = circled]
  BY DEF Cleared
<1> HIDE DEF look, circled
<1> QED
  BY <1>1 DEF Typed, World, Histories

\* Between its arrival and its hand-over a call knows one start.
LEMMA StartKnown ==
    ASSUME Typed, NEW c \in Convs,
           \/ Start(c) \/ Plan(c) \/ Ask(c) \/ Decide(c) \/ Claim(c) \/ Wrap(c) \/ Wake(c)
           \/ Answer(c) \/ BusyFailure(c) \/ OtherFailure(c) \/ ShapeRefused(c) \/ StillBusy(c)
    PROVE  GoesOn(c)
<1>1. CASE Start(c)
  <2>1. Under(call[c]) /\ permit' = permit /\ seen'.stayed = seen.stayed
    BY <1>1 DEF Start, Under, shared
  <2>2. \/ Goto(c, "ask") \/ Consider(c, "start")
        \/ call' = [call EXCEPT ![c] = [@ EXCEPT !.pc = "plan", !.aim = PlanTarget(c)]]
    BY <1>1 DEF Start
  <2> QED
    BY <2>1, <2>2, SameStart
<1>2. CASE Plan(c)
  <2> DEFINE from == call[c].at
             to == call[c].aim
             looks == {from} \cup {e \in {to} : Busy(e)}
  <2>1. Under(call[c]) /\ permit' = permit
    BY <1>2 DEF Plan, Under
  <2>2. \/ /\ call' = [call EXCEPT ![c] = [MovedTo(c, to) EXCEPT !.beside = from]]
           /\ Looked(looks, c, Nobody)
        \/ Consider(c, "start") /\ UNCHANGED seen
    BY <1>2 DEF Plan
  <2> HIDE DEF from, to, looks
  <2>3. CASE Consider(c, "start") /\ UNCHANGED seen
    BY <2>1, <2>3, SameStart
  <2>4. CASE /\ call' = [call EXCEPT ![c] = [MovedTo(c, to) EXCEPT !.beside = from]]
             /\ Looked(looks, c, Nobody)
    <3>1. PICK q : q = MovedTo(c, to) /\ q.origin = call[c].origin /\ q.pc = "ask"
      BY MovedKnowing
    <3>2. PICK r : r = [q EXCEPT !.beside = from] /\ call' = [call EXCEPT ![c] = r]
      BY <2>4, <3>1
    <3>3. r.origin = q.origin /\ r.pc = q.pc
      BY <3>2
    <3>4. seen'.stayed = seen.stayed
      BY <2>4, LookedStayed
    <3> QED
      BY <2>1, <3>1, <3>2, <3>3, <3>4 DEF GoesOn, Under
  <2> QED
    BY <2>2, <2>3, <2>4
<1>3. CASE Ask(c)
  <2>1. Under(call[c]) /\ permit' = permit /\ seen'.stayed = seen.stayed
    BY <1>3 DEF Ask, Under, shared
  <2> QED
    BY <1>3, <2>1, SameStart DEF Ask
<1>4. CASE Decide(c)
  <2>1. Under(call[c]) /\ permit' = permit /\ seen'.stayed = seen.stayed
    BY <1>4 DEF Decide, Under, shared
  <2>2. \/ Goto(c, "hand") \/ Goto(c, "wrap")
        \/ call' = [call EXCEPT ![c] = [@ EXCEPT !.pc = "claim", !.aim = StandIn(c)]]
    BY <1>4 DEF Decide
  <2> QED
    BY <2>1, <2>2, SameStart
<1>5. CASE Claim(c)
  <2>1. Under(call[c]) /\ permit' = permit
    BY <1>5 DEF Claim, Under
  <2>2. \/ /\ call' = [call EXCEPT ![c] = MovedTo(c, call[c].aim)]
           /\ Looked({x \in {call[c].aim} : Busy(x)}, c, Nobody)
        \/ /\ call' = [call EXCEPT ![c] = [@ EXCEPT !.pc = "hand", !.aim = Nobody]]
           /\ UNCHANGED seen
    BY <1>5 DEF Claim
  <2>3. CASE /\ call' = [call EXCEPT ![c] = MovedTo(c, call[c].aim)]
             /\ Looked({x \in {call[c].aim} : Busy(x)}, c, Nobody)
    BY <2>1, <2>3, MovedKnowing, LookedStayed DEF GoesOn, Under
  <2>4. CASE /\ call' = [call EXCEPT ![c] = [@ EXCEPT !.pc = "hand", !.aim = Nobody]]
             /\ UNCHANGED seen
    BY <2>1, <2>4, SameStart
  <2> QED
    BY <2>2, <2>3, <2>4
<1>6. CASE Wrap(c)
  <2> DEFINE at == call[c].at
             e == IF call[c].why = "failed" /\ ~IsBusy(c) THEN Nobody ELSE Circle(c)
  <2>1. Under(call[c]) /\ permit' = permit
    BY <1>6 DEF Wrap, Under
  <2>2. CASE e = Nobody
    <3>1. /\ call' = [call EXCEPT ![c] = [@ EXCEPT
                         !.pc = IF call[c].why = "rest" THEN "wait" ELSE "ask", !.why = "none"]]
          /\ UNCHANGED seen
      BY <1>6, <2>2 DEF Wrap
    <3>2. PICK p \in {"ask", "wait"} : p = IF call[c].why = "rest" THEN "wait" ELSE "ask"
      OBVIOUS
    <3> QED
      BY <2>1, <3>1, <3>2, SameStart
  <2>3. CASE e # Nobody
    <3>1. /\ call' = [call EXCEPT ![c] = IF e = at THEN [@ EXCEPT !.pc = "ask", !.why = "none"]
                                        ELSE MovedTo(c, e)]
          /\ Looked({x \in {e} : Busy(x)}, c, e)
      BY <1>6, <2>3 DEF Wrap
    <3> HIDE DEF e
    <3>2. seen'.stayed = seen.stayed
      BY <3>1, LookedStayed
    <3>3. CASE e = at
      <4>1. call' = [call EXCEPT ![c] = [@ EXCEPT !.pc = "ask", !.why = "none"]]
        BY <3>1, <3>3
      <4> QED
        BY <2>1, <3>2, <4>1, SameStart
    <3>4. CASE e # at
      <4>1. call' = [call EXCEPT ![c] = MovedTo(c, e)]
        BY <3>1, <3>4
      <4> QED
        BY <2>1, <3>2, <4>1, MovedKnowing DEF GoesOn, Under
    <3> QED
      BY <3>3, <3>4
  <2> QED
    BY <2>2, <2>3
<1>7. CASE Wake(c)
  <2>1. Under(call[c]) /\ permit' = permit /\ seen'.stayed = seen.stayed /\ Goto(c, "ask")
    BY <1>7 DEF Wake, Under, shared
  <2> QED
    BY <2>1, SameStart
<1>8. CASE Answer(c)
  <2>1. PICK e \in Entries : AnswerBy(c, e)
    BY <1>8 DEF Answer
  <2>2. /\ Under(call[c]) /\ permit' = permit /\ Cleared(e)
        /\ call' = [call EXCEPT ![c] = NoCall]
    BY <2>1 DEF AnswerBy, Under
  <2> QED
    BY <2>2, ClearedStayed, IsOver
<1>9. CASE StillBusy(c)
  <2>1. /\ Under(call[c]) /\ permit' = permit /\ seen' = seen
        /\ call' = [call EXCEPT ![c] = [@ EXCEPT !.beside = Nobody]]
    BY <1>9 DEF StillBusy, Under
  <2> QED
    BY <2>1, SameStart
<1>10. CASE BusyFailure(c)
  <2>1. Under(call[c]) /\ permit' = permit /\ seen' = seen
    BY <1>10 DEF BusyFailure, Under
  <2>2. PICK q \in Calls : q = call[c]
    BY DEF Typed
  <2>3. PICK n, b : call' = [call EXCEPT ![c] = [q EXCEPT !.pc = "decide", !.why = "failed",
                                !.tired = n, !.noted = b, !.beside = Nobody]]
    BY <1>10, <2>2 DEF BusyFailure
  <2>4. PICK r : /\ r = [q EXCEPT !.pc = "decide", !.why = "failed", !.tired = n, !.noted = b,
                                  !.beside = Nobody]
                 /\ call' = [call EXCEPT ![c] = r]
    BY <2>3
  <2>5. r.origin = q.origin /\ r.pc = "decide"
    BY <2>4 DEF Calls
  <2> QED
    BY <2>1, <2>2, <2>4, <2>5 DEF GoesOn, Under
<1>11. CASE OtherFailure(c)
  <2>1. Under(call[c]) /\ permit' = permit /\ seen' = seen
    BY <1>11 DEF OtherFailure, Under, shared
  <2> QED
    BY <1>11, <2>1, SameStart, IsOver DEF OtherFailure
<1>12. CASE ShapeRefused(c)
  <2>1. Under(call[c]) /\ permit' = permit /\ seen' = seen
    BY <1>12 DEF ShapeRefused, Under, shared
  <2>2. PICK q : q = MovedTo(c, call[c].pos) /\ q.origin = call[c].origin /\ q.pc = "ask"
    BY MovedKnowing
  <2>3. PICK r : /\ r = [q EXCEPT !.excluded = @ \cup {call[c].at}, !.beside = Nobody]
                 /\ call' = [call EXCEPT ![c] = r]
    BY <1>12, <2>2 DEF ShapeRefused
  <2>4. r.origin = q.origin /\ r.pc = q.pc
    BY <2>3
  <2> QED
    BY <2>1, <2>2, <2>3, <2>4 DEF GoesOn, Under
<1> QED
  BY <1>1, <1>2, <1>3, <1>4, <1>5, <1>6, <1>7, <1>8, <1>9, <1>10, <1>11, <1>12

LEMMA TurnAnew ==
    ASSUME Typed, NEW c \in Convs, Turn(c)
    PROVE  /\ ~Under(call[c]) /\ permit' = permit /\ (~seen'.stayed[c] => ~seen.stayed[c] \/ ~Misleads(c))
           /\ \E r : /\ call' = [call EXCEPT ![c] = r] /\ r.pc = "begin" /\ r.pos = Pick[c]
                     /\ r.origin = call[c].origin
<1>1. PICK q \in Calls : q = call[c]
  BY DEF Typed
<1>2. PICK r : r = [q EXCEPT !.pc = "begin", !.pos = Pick[c]] /\ call' = [call EXCEPT ![c] = r]
  BY <1>1 DEF Turn
<1>3. r.pc = "begin" /\ r.pos = Pick[c] /\ r.origin = q.origin
  BY <1>2 DEF Calls
<1>4. ~Under(call[c]) /\ permit' = permit
  BY DEF Turn, Under, shared
<1>5. ~seen'.stayed[c] => ~seen.stayed[c] \/ ~Misleads(c)
  <2>1. PICK b \in BOOLEAN : b = (seen.stayed[c] /\ Misleads(c))
    BY DEF Typed, World, Histories
  <2>2. seen' = [seen EXCEPT !.stayed[c] = b]
    BY <2>1 DEF Turn
  <2>3. seen'.stayed[c] = b
    BY <2>2 DEF Typed, World, Histories
  <2> QED
    BY <2>1, <2>3
<1> QED
  BY <1>1, <1>2, <1>3, <1>4, <1>5

LEMMA BeginKnowing ==
    ASSUME Typed, NEW c \in Convs, Begin(c)
    PROVE  /\ call[c].pc = "begin" /\ permit' = permit /\ seen'.stayed = seen.stayed
           /\ \E r : /\ call' = [call EXCEPT ![c] = r] /\ Under(r)
                     /\ r.origin = OriginOf(call[c].pos)
<1> DEFINE p == call[c].pos
<1>1. PICK r : /\ r = [NoCall EXCEPT !.pc = "start", !.pos = p, !.at = p, !.origin = OriginOf(p)]
               /\ call' = [call EXCEPT ![c] = r]
  BY DEF Begin
<1>2. r.pc = "start" /\ r.origin = OriginOf(p)
  BY <1>1 DEF NoCall
<1>3. call[c].pc = "begin" /\ permit' = permit /\ seen'.stayed = seen.stayed
  BY DEF Begin, Typed, World, Histories
<1> QED
  BY <1>1, <1>2, <1>3 DEF Under

\* Hermes has c's call again, on its way to a model of its walk, or over. It
\* asks the same model again under a permit, or it is counted as stayed.
Walks(c) ==
    \E r : /\ call' = [call EXCEPT ![c] = r] /\ r.origin = Nobody /\ ~Under(r)
           /\ r.pc = "begin" /\ ~seen'.stayed[c] =>
                 r.pos \in Ahead(c) \/ (r.pos = call[c].pos /\ ~Uncovered(c))

LEMMA WalksOver ==
    ASSUME NEW c \in Convs, call' = [call EXCEPT ![c] = NoCall]
    PROVE  Walks(c)
<1>1. NoCall.pc = "idle" /\ NoCall.origin = Nobody
  BY DEF NoCall
<1> QED
  BY <1>1 DEF Walks, Under

LEMMA WalksTo ==
    ASSUME NEW c \in Convs, NEW p,
           call' = [call EXCEPT ![c] = [NoCall EXCEPT !.pc = "begin", !.pos = p]],
           ~seen'.stayed[c] => p \in Ahead(c) \/ (p = call[c].pos /\ ~Uncovered(c))
    PROVE  Walks(c)
<1>1. PICK r : r = [NoCall EXCEPT !.pc = "begin", !.pos = p] /\ call' = [call EXCEPT ![c] = r]
  OBVIOUS
<1>2. r.pc = "begin" /\ r.pos = p /\ r.origin = Nobody
  BY <1>1 DEF NoCall
<1> QED
  BY <1>1, <1>2 DEF Walks, Under

\* table after permits to the entries of S that name o, live ones kept or not.
Written(table, after, S, o, kept) ==
    \A e \in Entries :
        after[e] = IF e \in S /\ (kept => table[e].left = 0) THEN [left |-> Permit, origin |-> o]
                                                            ELSE table[e]

LEMMA HandsOn ==
    ASSUME Typed, NEW c \in Convs, HandOver(c)
    PROVE  \/ GoesOn(c)
           \/ /\ Under(call[c]) /\ Walks(c) /\ (~seen'.stayed[c] => ~seen.stayed[c])
              /\ permit'.host = permit.host
              /\ Written(permit.kame, permit'.kame, Hand(c), call[c].origin, FALSE)
<1>1. Under(call[c])
  BY DEF HandOver, Under
<1> DEFINE from == call[c].at
           hand == Hand(c)
<1>2. CASE Goto(c, "wrap") /\ UNCHANGED <<memo, permit, seen>>
  BY <1>1, <1>2, SameStart
<1>3. CASE (\E e \in hand : Free(e)) /\ memo[c][from].left = 0
  <2>1. /\ permit' = [permit EXCEPT !.kame = [e \in Entries |->
               IF e \in hand THEN [left |-> Permit, origin |-> call[c].origin] ELSE @[e]]]
        /\ \/ \E p \in Ahead(c) \cup {call[c].pos} :
                /\ call' = [call EXCEPT ![c] = [NoCall EXCEPT !.pc = "begin", !.pos = p]]
                /\ seen' = [seen EXCEPT !.stayed[c] = @ \/ (p = call[c].pos /\ Uncovered(c))]
           \/ call' = [call EXCEPT ![c] = NoCall] /\ UNCHANGED seen
    BY <1>3 DEF HandOver
  <2> HIDE DEF hand, from
  <2>2. /\ permit'.host = permit.host
        /\ Written(permit.kame, permit'.kame, hand, call[c].origin, FALSE)
    BY <2>1 DEF Written, Typed, World, Permits
  <2>3. CASE call' = [call EXCEPT ![c] = NoCall] /\ UNCHANGED seen
    BY <1>1, <2>2, <2>3, WalksOver DEF hand
  <2>4. ASSUME NEW p \in Ahead(c) \cup {call[c].pos},
               call' = [call EXCEPT ![c] = [NoCall EXCEPT !.pc = "begin", !.pos = p]],
               seen' = [seen EXCEPT !.stayed[c] = @ \/ (p = call[c].pos /\ Uncovered(c))]
        PROVE  Walks(c) /\ (~seen'.stayed[c] => ~seen.stayed[c])
    <3>1. PICK b \in BOOLEAN : b = (seen.stayed[c] \/ (p = call[c].pos /\ Uncovered(c)))
      BY DEF Typed, World, Histories
    <3>2. seen' = [seen EXCEPT !.stayed[c] = b]
      BY <2>4, <3>1
    <3>3. seen'.stayed[c] = b
      BY <3>2 DEF Typed, World, Histories
    <3>4. ~seen'.stayed[c] =>
             ~seen.stayed[c] /\ (p \in Ahead(c) \/ (p = call[c].pos /\ ~Uncovered(c)))
      BY <3>1, <3>3
    <3> QED
      BY <2>4, <3>4, WalksTo
  <2> QED
    BY <1>1, <2>1, <2>2, <2>3, <2>4 DEF hand
<1> QED
  BY <1>2, <1>3 DEF HandOver

LEMMA PassesOn ==
    ASSUME Typed, NEW c \in Convs, Surfaced(c)
    PROVE  /\ Under(call[c]) /\ Walks(c)
           /\ ~seen'.stayed[c] => ~seen.stayed[c] /\ ~Uncovered(c)
           /\ permit'.kame = permit.kame
           /\ LET p == call[c].pos
                  o == IF p = Main THEN p ELSE PermitOrigin(p, permit.host, permit.kame)
              IN  Written(permit.host, permit'.host, After(o, p) \ {Main}, o, TRUE)
<1>1. Under(call[c])
  BY DEF Surfaced, Under
<1>2. PICK b \in BOOLEAN : b = (seen.stayed[c] \/ Uncovered(c))
  BY DEF Typed, World, Histories
<1>3. seen'.stayed[c] = b
  <2>1. seen' = [seen EXCEPT !.stayed[c] = b]
    BY <1>2 DEF Surfaced
  <2> QED
    BY <2>1 DEF Typed, World, Histories
<1>4. ~seen'.stayed[c] => ~seen.stayed[c] /\ ~Uncovered(c)
  BY <1>2, <1>3
<1>5. Walks(c)
  BY <1>4, WalksOver, WalksTo DEF Surfaced
<1>6. /\ permit'.kame = permit.kame
      /\ LET p == call[c].pos
             o == IF p = Main THEN p ELSE PermitOrigin(p, permit.host, permit.kame)
         IN  Written(permit.host, permit'.host, After(o, p) \ {Main}, o, TRUE)
  BY DEF Surfaced, NoteHostFallback, Written, Typed, World, Permits
<1> QED
  BY <1>1, <1>4, <1>5, <1>6

-----------------------------------------------------------------------------
\* A call that is not under way knows no start yet.
Blank == \A c \in Convs : ~Under(call[c]) => call[c].origin = Nobody

\* No walk goes to the main model.
MainFree == permit.kame[Main].left = 0 /\ permit.host[Main].left = 0

\* Every live permit names m.
Names(table, m) == \A e \in Entries : table[e].left > 0 => table[e].origin = m

Permitted(m) == Names(permit.kame, m) /\ Names(permit.host, m)

Live(e) == permit.kame[e].left > 0 \/ permit.host[e].left > 0

\* c's reply started on m: its call knows, or arrives where it will be told.
Rooted(c, m) ==
    /\ Under(call[c]) => call[c].origin = m
    /\ call[c].pc = "begin" /\ call[c].pos # m => Live(call[c].pos)

LEMMA OneCallBlank ==
    ASSUME Typed, Blank, NEW c \in Convs, NEW r, call' = [call EXCEPT ![c] = r],
           ~Under(r) => r.origin = Nobody
    PROVE  Blank'
BY DEF Typed, Blank

LEMMA BlankStep == IInv /\ Blank /\ [Next]_vars => Blank'
<1> SUFFICES ASSUME IInv, Blank, [Next]_vars PROVE Blank'
  OBVIOUS
<1>1. Typed
  BY DEF IInv
<1>2. CASE \E c \in Convs : Step(c)
  <2>1. PICK c \in Convs : Step(c)
    BY <1>2
  <2>2. CASE GoesOn(c)
    <3>1. PICK r : call' = [call EXCEPT ![c] = r] /\ (r = NoCall \/ Under(r))
      BY <2>2 DEF GoesOn
    <3>2. NoCall.origin = Nobody
      BY DEF NoCall
    <3> QED
      BY <1>1, <3>1, <3>2, OneCallBlank
  <2>3. CASE Walks(c)
    <3>1. PICK r : call' = [call EXCEPT ![c] = r] /\ r.origin = Nobody
      BY <2>3 DEF Walks
    <3> QED
      BY <1>1, <3>1, OneCallBlank
  <2>4. CASE Turn(c)
    <3>1. call[c].origin = Nobody
      BY <1>1, <2>4, TurnAnew DEF Blank
    <3> QED
      BY <1>1, <2>4, <3>1, TurnAnew, OneCallBlank
  <2>5. CASE Begin(c)
    BY <1>1, <2>5, BeginKnowing, OneCallBlank
  <2> QED
    BY <1>1, <2>1, <2>2, <2>3, <2>4, <2>5, StartKnown, HandsOn, PassesOn DEF Step, Refused
<1>3. CASE UNCHANGED call
  BY <1>3 DEF Blank
<1> QED
  BY <1>2, <1>3 DEF Next, Keys, ForgetBusy, Tick, vars

\* What writing permits that name m does to a table of them.
LEMMA WrittenKeeps ==
    ASSUME NEW table, NEW after, NEW S, NEW o, NEW kept, Written(table, after, S, o, kept)
    PROVE  /\ \A e \in Entries : table[e].left > 0 => after[e].left > 0
           /\ ~kept => \A e \in S \cap Entries : after[e].left > 0
           /\ Names(table, o) => Names(after, o)
<1>1. [left |-> Permit, origin |-> o].left > 0 /\ [left |-> Permit, origin |-> o].origin = o
  BY Constants
<1> QED
  BY <1>1 DEF Written, Names

\* A permit is written by Hermes' hook or KAME's own hand-over.
LEMMA PermitsChange ==
    ASSUME Typed, NEW c \in Convs, Step(c)
    PROVE  permit' = permit \/ (HandOver(c) /\ ~GoesOn(c)) \/ Surfaced(c)
BY StartKnown, TurnAnew, BeginKnowing DEF Step, Refused, GoesOn

LEMMA MainFreeStep == IInv /\ MainFree /\ [Next]_vars => MainFree'
<1> SUFFICES ASSUME IInv, MainFree, [Next]_vars PROVE MainFree'
  OBVIOUS
<1>1. Typed /\ Main \in Entries
  BY LadderAssumption DEF IInv, Main, Entries
<1>2. CASE permit' = permit
  BY <1>2 DEF MainFree
<1>3. CASE Tick
  <2>1. permit.kame \in Table /\ permit.host \in Table
    BY <1>1 DEF Typed, World, Permits
  <2>2. /\ ~(Older(permit.kame)[Main].left > 0) /\ Older(permit.kame)[Main].left \in Nat
        /\ ~(Older(permit.host)[Main].left > 0) /\ Older(permit.host)[Main].left \in Nat
    BY <1>1, <2>1, OlderType DEF MainFree, Table
  <2>3. permit'.kame = Older(permit.kame) /\ permit'.host = Older(permit.host)
    BY <1>3 DEF Tick
  <2> QED
    BY <2>2, <2>3 DEF MainFree
<1>4. ASSUME NEW c \in Convs, HandOver(c), ~GoesOn(c)
      PROVE  MainFree'
  <2>1. permit'.host = permit.host /\ Written(permit.kame, permit'.kame, Hand(c), call[c].origin, FALSE)
    BY <1>1, <1>4, HandsOn
  <2>2. Main \notin Hand(c)
    BY DEF Hand
  <2>3. permit'.kame[Main] = permit.kame[Main]
    BY <1>1, <2>1, <2>2 DEF Written
  <2> QED
    BY <2>1, <2>3 DEF MainFree
<1>5. ASSUME NEW c \in Convs, Surfaced(c)
      PROVE  MainFree'
  <2>1. PICK o, S : /\ permit'.kame = permit.kame /\ Main \notin S
                    /\ Written(permit.host, permit'.host, S, o, TRUE)
    BY <1>1, <1>5, PassesOn
  <2>2. permit'.host[Main] = permit.host[Main]
    BY <1>1, <2>1 DEF Written
  <2> QED
    BY <2>1, <2>2 DEF MainFree
<1>6. CASE \E c \in Convs : Step(c)
  BY <1>1, <1>2, <1>4, <1>5, <1>6, PermitsChange
<1> QED
  BY <1>2, <1>3, <1>6 DEF Next, Keys, ForgetBusy, vars

\* A walk from m leaves permits that name m on all that is ahead of it.
LEMMA WalkTells ==
    ASSUME Typed, MainFree, NEW c \in Convs, NEW m \in Entries, m = Pick[c], Rooted(c, m),
           Permitted(m), (HandOver(c) /\ ~GoesOn(c)) \/ Surfaced(c), ~seen'.stayed[c]
    PROVE  /\ Walks(c) /\ Permitted(m)'
           /\ \A e \in Entries : Live(e) => Live(e)'
           /\ \A e \in Ahead(c) : Live(e)'
<1>1. Ahead(c) \subseteq Entries
  BY DEF Ahead, After
<1>2. Names(permit.kame, m) /\ Names(permit.host, m)
  BY DEF Permitted
<1>3. CASE HandOver(c) /\ ~GoesOn(c)
  <2>1. /\ Walks(c) /\ permit'.host = permit.host /\ Under(call[c])
        /\ Written(permit.kame, permit'.kame, Hand(c), call[c].origin, FALSE)
    BY <1>3, HandsOn
  <2>2. call[c].origin = m
    BY <2>1 DEF Rooted
  <2>3. Hand(c) = Ahead(c)
    BY <2>2 DEF Hand, Later, Ahead
  <2>4. Written(permit.kame, permit'.kame, Ahead(c), m, FALSE)
    BY <2>1, <2>2, <2>3
  <2>5. /\ \A e \in Entries : permit.kame[e].left > 0 => permit'.kame[e].left > 0
        /\ \A e \in Ahead(c) : permit'.kame[e].left > 0
        /\ Names(permit'.kame, m)
    BY <1>1, <1>2, <2>4, WrittenKeeps
  <2> QED
    BY <1>2, <2>1, <2>5 DEF Permitted, Live
<1>4. CASE Surfaced(c)
  <2> DEFINE p == call[c].pos
             o == IF p = Main THEN p ELSE PermitOrigin(p, permit.host, permit.kame)
  <2>1. /\ Walks(c) /\ permit'.kame = permit.kame /\ Under(call[c]) /\ ~Uncovered(c)
        /\ Written(permit.host, permit'.host, After(o, p) \ {Main}, o, TRUE)
    BY <1>4, PassesOn
  <2>2. p \in Entries
    BY <2>1 DEF Typed, Placed, Under
  <2>3. o = m
    <3>1. /\ permit.kame[p].left \in Nat /\ permit.host[p].left \in Nat
      BY <2>2 DEF Typed, World, Permits, Table
    <3>2. p = m \/ permit.kame[p].left > 0 \/ permit.host[p].left > 0
      BY <2>1, <3>1 DEF Uncovered
    <3>3. p = Main => p = m
      BY <3>2 DEF MainFree
    <3>4. PermitOrigin(p, permit.host, permit.kame) = m
      BY <1>2, <2>2, <3>2 DEF PermitOrigin, Names
    <3> QED
      BY <3>3, <3>4
  <2>4. After(o, p) \ {Main} = Ahead(c)
    BY <2>3 DEF Ahead
  <2> HIDE DEF o
  <2>5. Written(permit.host, permit'.host, Ahead(c), m, TRUE)
    BY <2>1, <2>3, <2>4
  <2>6. /\ \A e \in Entries : permit.host[e].left > 0 => permit'.host[e].left > 0
        /\ Names(permit'.host, m)
    BY <1>2, <2>5, WrittenKeeps
  <2>7. ASSUME NEW e \in Ahead(c) PROVE permit'.host[e].left > 0
    <3>1. e \in Entries /\ permit.host[e].left \in Nat
      BY <1>1 DEF Typed, World, Permits, Table
    <3>2. permit.host[e].left = 0 => permit'.host[e] = [left |-> Permit, origin |-> m]
      BY <2>5, <3>1 DEF Written
    <3> QED
      BY <2>6, <3>1, <3>2, Constants
  <2> QED
    BY <1>2, <2>1, <2>6, <2>7 DEF Permitted, Live
<1> QED
  BY <1>3, <1>4

\* What a conversation does itself keeps its reply rooted, and the permits true.
LEMMA RootedByItself ==
    ASSUME Typed, MainFree, NEW c \in Convs, NEW m \in Entries, m = Pick[c], Step(c),
           ~seen.stayed[c] => Rooted(c, m) /\ Permitted(m),
           ~seen'.stayed[c]
    PROVE  Rooted(c, m)' /\ Permitted(m)'
<1>1. ASSUME NEW r, call' = [call EXCEPT ![c] = r]
      PROVE  call'[c] = r
  BY <1>1 DEF Typed
<1>2. CASE GoesOn(c)
  <2>1. PICK r : /\ call' = [call EXCEPT ![c] = r]
                 /\ r = NoCall \/ (Under(r) /\ r.origin = call[c].origin)
    BY <1>2 DEF GoesOn
  <2>2. call'[c] = r
    BY <2>1, <1>1
  <2>3. NoCall.pc = "idle"
    BY DEF NoCall
  <2>4. call[c].origin = m /\ Permitted(m)'
    BY <1>2 DEF GoesOn, Rooted, Permitted
  <2>5. r.pc # "begin" /\ (Under(r) => r.origin = m)
    BY <2>1, <2>3, <2>4 DEF Under
  <2> QED
    BY <2>2, <2>4, <2>5 DEF Rooted
<1>3. CASE Turn(c)
  <2>1. PICK r : call' = [call EXCEPT ![c] = r] /\ r.pc = "begin" /\ r.pos = Pick[c]
    BY <1>3, TurnAnew
  <2>2. call'[c] = r
    BY <2>1, <1>1
  <2>3. Permitted(m)
    BY <1>3, TurnAnew DEF Misleads, Permitted, Names
  <2>4. permit' = permit
    BY <1>3, TurnAnew
  <2> QED
    BY <2>1, <2>2, <2>3, <2>4 DEF Rooted, Under, Permitted
<1>4. CASE Begin(c)
  <2>1. PICK r : call' = [call EXCEPT ![c] = r] /\ Under(r) /\ r.origin = OriginOf(call[c].pos)
    BY <1>4, BeginKnowing
  <2>2. call'[c] = r
    BY <2>1, <1>1
  <2>3. call[c].pc = "begin" /\ seen'.stayed = seen.stayed /\ permit' = permit
    BY <1>4, BeginKnowing
  <2>4. Rooted(c, m) /\ Permitted(m)
    BY <2>3
  <2>5. OriginOf(call[c].pos) = m
    <3>1. PICK p \in Entries : p = call[c].pos
      BY <2>3 DEF Typed, Placed
    <3>2. p = m \/ Live(p)
      BY <2>3, <2>4, <3>1 DEF Rooted
    <3>3. p = Main => p = m
      BY <3>2 DEF MainFree, Live
    <3>4. PermitOrigin(p, permit.kame, permit.host) = m
      BY <2>4, <3>2 DEF PermitOrigin, Live, Permitted, Names
    <3> QED
      BY <3>1, <3>3, <3>4 DEF OriginOf
  <2> QED
    BY <2>1, <2>2, <2>3, <2>4, <2>5 DEF Rooted, Under, Permitted
<1>5. CASE (HandOver(c) /\ ~GoesOn(c)) \/ Surfaced(c)
  <2>1. Rooted(c, m) /\ Permitted(m)
    BY <1>5, HandsOn, PassesOn
  <2>2. /\ Walks(c) /\ Permitted(m)'
        /\ \A e \in Entries : Live(e) => Live(e)'
        /\ \A e \in Ahead(c) : Live(e)'
    BY <1>5, <2>1, WalkTells
  <2>3. PICK r : /\ call' = [call EXCEPT ![c] = r] /\ ~Under(r)
                 /\ r.pc = "begin" /\ ~seen'.stayed[c] =>
                       r.pos \in Ahead(c) \/ (r.pos = call[c].pos /\ ~Uncovered(c))
    BY <2>2 DEF Walks
  <2>4. call'[c] = r
    BY <2>3, <1>1
  <2>5. ASSUME r.pc = "begin", r.pos # m
        PROVE  Live(r.pos)'
    <3>1. CASE r.pos \in Ahead(c)
      BY <2>2, <3>1
    <3>2. CASE r.pos = call[c].pos /\ ~Uncovered(c)
      <4>1. call[c].pos \in Entries
        BY <1>5, HandsOn, PassesOn DEF Typed, Placed, Under
      <4>2. permit.kame[r.pos].left \in Nat /\ permit.host[r.pos].left \in Nat
        BY <3>2, <4>1 DEF Typed, World, Permits, Table
      <4>3. Live(r.pos)
        BY <2>5, <3>2, <4>2 DEF Uncovered, Live
      <4> QED
        BY <2>2, <3>2, <4>1, <4>3
    <3> QED
      BY <2>3, <2>5, <3>1, <3>2
  <2> QED
    BY <2>2, <2>3, <2>4, <2>5 DEF Rooted
<1> QED
  BY <1>2, <1>3, <1>4, <1>5, StartKnown DEF Step, Refused

\* What another conversation of the same start does keeps it rooted too.
LEMMA RootedByOthers ==
    ASSUME Typed, MainFree, NEW c \in Convs, NEW d \in Convs, c # d, NEW m \in Entries, m = Pick[d],
           Step(d), Rooted(c, m), Rooted(d, m), Permitted(m), ~seen'.stayed[d]
    PROVE  Rooted(c, m)'
<1>1. call'[c] = call[c]
  <2>1. \E r : call' = [call EXCEPT ![d] = r]
    <3>1. GoesOn(d) => \E r : call' = [call EXCEPT ![d] = r]
      BY DEF GoesOn
    <3>2. Walks(d) => \E r : call' = [call EXCEPT ![d] = r]
      BY DEF Walks
    <3>3. Turn(d) => \E r : call' = [call EXCEPT ![d] = r]
      BY TurnAnew
    <3>4. Begin(d) => \E r : call' = [call EXCEPT ![d] = r]
      BY BeginKnowing
    <3> QED
      BY <3>1, <3>2, <3>3, <3>4, StartKnown, HandsOn, PassesOn DEF Step, Refused
  <2> QED
    BY <2>1 DEF Typed
<1>2. ASSUME NEW e \in Entries, Live(e)
      PROVE  Live(e)'
  <2>1. CASE permit' = permit
    BY <1>2, <2>1 DEF Live
  <2>2. CASE (HandOver(d) /\ ~GoesOn(d)) \/ Surfaced(d)
    BY <1>2, <2>2, WalkTells
  <2> QED
    BY <2>1, <2>2, PermitsChange
<1>3. call[c].pc = "begin" => call[c].pos \in Entries
  BY DEF Typed, Placed
<1> QED
  BY <1>1, <1>2, <1>3 DEF Rooted

\* Time does not pass while Hermes rebuilds a call; nothing else is of its walk.
Aside == (\E e \in Resting : Keys(e)) \/ Tick \/ (\E e \in Entries : ForgetBusy(e)) \/ UNCHANGED vars

LEMMA RootedAside ==
    ASSUME Typed, NEW c \in Convs, NEW m, Aside, Rooted(c, m)
    PROVE  Rooted(c, m)'
<1>1. call' = call
  BY DEF Aside, Keys, Tick, ForgetBusy, vars
<1>2. call[c].pc # "begin" \/ permit' = permit
  BY DEF Aside, Keys, Tick, ForgetBusy, vars
<1> QED
  BY <1>1, <1>2 DEF Rooted, Live

LEMMA PermittedAside ==
    ASSUME Typed, NEW m, Aside, Permitted(m)
    PROVE  Permitted(m)'
<1>1. CASE permit' = permit
  BY <1>1 DEF Permitted
<1>2. CASE Tick
  <2>1. permit.kame \in Table /\ permit.host \in Table
    BY DEF Typed, World, Permits
  <2>2. Names(Older(permit.kame), m) /\ Names(Older(permit.host), m)
    BY <2>1, OlderType DEF Permitted, Names
  <2>3. permit'.kame = Older(permit.kame) /\ permit'.host = Older(permit.host)
    BY <1>2 DEF Tick
  <2> QED
    BY <2>2, <2>3 DEF Permitted
<1> QED
  BY <1>1, <1>2 DEF Aside, Keys, ForgetBusy, vars

LEMMA AsideStayed == ASSUME Typed, Aside PROVE seen'.stayed = seen.stayed
<1>1. CASE Tick
  <2> DEFINE look == [e \in Watched |-> Least(seen.look[e] + 1, ProbeEvery)]
             circled == [c \in Convs |-> [e \in Watched |->
                            Least(seen.circled[c][e] + 1, ProbeEvery)]]
  <2>1. seen' = [seen EXCEPT !.look = look, !.circled = circled]
    BY <1>1 DEF Tick
  <2> HIDE DEF look, circled
  <2> QED
    BY <2>1 DEF Typed, World, Histories
<1>2. CASE \E e \in Entries : ForgetBusy(e)
  BY <1>2, ClearedStayed DEF ForgetBusy
<1>3. CASE (\E e \in Resting : Keys(e)) \/ UNCHANGED vars
  BY <1>3 DEF Keys, vars
<1> QED
  BY <1>1, <1>2, <1>3 DEF Aside

\* What a reply knows of its start is where its call is rooted.
LEMMA RootedKnows ==
    ASSUME Blank, NEW c \in Convs, NEW m, Rooted(c, m)
    PROVE  call[c].origin \in {Nobody, m}
BY DEF Blank, Rooted

LEMMA NothingBegun ==
    ASSUME Init, NEW m
    PROVE  Blank /\ MainFree /\ (\A c \in Convs : Rooted(c, m)) /\ Permitted(m)
<1>1. NoCall.pc = "idle" /\ NoCall.origin = Nobody
  BY DEF NoCall
<1>2. \A c \in Convs : call[c] = NoCall
  BY DEF Init
<1>3. Main \in Entries
  BY LadderAssumption DEF Main, Entries
<1>4. \A e \in Entries : permit.kame[e].left = 0 /\ permit.host[e].left = 0
  <2>1. permit.kame = NoPermits /\ permit.host = NoPermits
    BY DEF Init
  <2> QED
    BY <2>1 DEF NoPermits
<1> QED
  BY <1>1, <1>2, <1>3, <1>4 DEF Blank, MainFree, Rooted, Permitted, Names, Under

\* OriginKept for one conversation, whatever model it is set to, however long
\* its list and its walks: KAME's hand-overs and the walks Hermes takes by
\* itself tell each other the start, through two tables of permits.
THEOREM OneConversationKnowsItsStart ==
    ASSUME NEW c \in Convs, Convs = {c}
    PROVE  Spec => []OriginKept
<1>0. PICK m \in Entries : m = Pick[c]
  BY Constants
<1> DEFINE Inv == IInv /\ Blank /\ MainFree /\ (~seen.stayed[c] => Rooted(c, m) /\ Permitted(m))
<1>1. Init => Inv
  BY Initially, NothingBegun
<1>2. Inv /\ [Next]_vars => Inv'
  <2> SUFFICES ASSUME Inv, [Next]_vars PROVE Inv'
    OBVIOUS
  <2>1. Typed
    BY DEF IInv
  <2>2. IInv' /\ Blank' /\ MainFree'
    BY InvariantStep, BlankStep, MainFreeStep
  <2>3. CASE \E d \in Convs : Step(d)
    <3>1. Step(c)
      BY <2>3
    <3> QED
      BY <1>0, <2>1, <2>2, <3>1, RootedByItself
  <2>4. CASE Aside
    BY <2>1, <2>2, <2>4, RootedAside, PermittedAside, AsideStayed
  <2> QED
    BY <2>3, <2>4 DEF Next, Aside
<1>3. Inv => OriginKept
  BY <1>0, RootedKnows DEF OriginKept
<1> QED
  BY <1>1, <1>2, <1>3, PTL DEF Spec

\* OriginKept for any number of conversations whose replies start on one
\* model, as long as none of them loses its permit on the way: sharing the two
\* tables, they tell each other nothing that is not so.
THEOREM ConversationsShareTheStart ==
    ASSUME NEW m \in Entries, \A c \in Convs : Pick[c] = m
    PROVE  Spec /\ [](\A c \in Convs : ~seen.stayed[c]) => []OriginKept
<1> DEFINE Inv == IInv /\ Blank /\ MainFree /\ (\A c \in Convs : Rooted(c, m)) /\ Permitted(m)
           Fresher == \A c \in Convs : ~seen.stayed[c]
<1>1. Init => Inv
  BY Initially, NothingBegun
<1>2. Inv /\ Fresher /\ Fresher' /\ [Next]_vars => Inv'
  <2> SUFFICES ASSUME Inv, Fresher, Fresher', [Next]_vars PROVE Inv'
    OBVIOUS
  <2>1. Typed
    BY DEF IInv
  <2>2. IInv' /\ Blank' /\ MainFree'
    BY InvariantStep, BlankStep, MainFreeStep
  <2>3. CASE \E d \in Convs : Step(d)
    <3>1. PICK d \in Convs : Step(d)
      BY <2>3
    <3>2. Rooted(d, m)' /\ Permitted(m)'
      BY <2>1, <3>1, RootedByItself
    <3>3. \A c \in Convs \ {d} : Rooted(c, m)'
      BY <2>1, <3>1, RootedByOthers
    <3> QED
      BY <2>2, <3>2, <3>3
  <2>4. CASE Aside
    BY <2>1, <2>2, <2>4, RootedAside, PermittedAside
  <2> QED
    BY <2>3, <2>4 DEF Next, Aside
<1>3. Inv => OriginKept
  BY RootedKnows DEF OriginKept
<1> QED
  BY <1>1, <1>2, <1>3, PTL DEF Spec
=============================================================================

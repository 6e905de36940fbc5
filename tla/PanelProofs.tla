---------------------------- MODULE PanelProofs ----------------------------
(* A theorem about PanelRequests, for any number of processes, requests,     *)
(* edits and restarts, whether or not the files can be read, written and     *)
(* deleted: what the panel calls saved is saved.                             *)
EXTENDS PanelRequests, TLAPS

Slips   == Requests \cup {NoRequest}
Reports == [id : Nat, saved : BOOLEAN]
Places  == {"starting", "polling", "taken", "applying", "saving", "looking", "rereading"}

Typed ==
    /\ control \in Slips
    /\ inHand \in [Processes -> Slips]
    /\ result \in [Processes -> Reports]
    /\ hb \in [Processes -> Places]
    /\ panel \in [asked : Nat, pending : Slips, told : Slips, edited : BOOLEAN]

LEMMA SlipType ==
    /\ NoRequest \in Slips /\ NoRequest.id = 0 /\ Nothing \in Reports /\ Nothing.id = 0
    /\ \A s \in Slips : s.id \in Nat /\ (s # NoRequest => s.id > 0)
    /\ \A n \in Nat, b \in BOOLEAN : [id |-> n, saved |-> b] \in Reports
<1>1. NoRequest.id = 0 /\ Nothing.id = 0 /\ NoRequest \in Slips
  BY DEF NoRequest, Nothing, Slips
<1>2. ASSUME NEW n \in Nat, NEW b \in BOOLEAN PROVE [id |-> n, saved |-> b] \in Reports
  BY DEF Reports
<1>3. Nothing \in Reports
  BY <1>2 DEF Nothing
<1>4. \A s \in Slips : s.id \in Nat /\ (s # NoRequest => s.id > 0)
  BY PanelAssumption DEF PanelAssumption, Slips, Requests, NoRequest
<1> QED
  BY <1>1, <1>2, <1>3, <1>4

LEMMA AskType ==
    ASSUME Typed, Ask
    PROVE  /\ control' \in Requests /\ control'.id = panel.asked + 1
           /\ panel' = [asked |-> panel.asked + 1, pending |-> control', told |-> NoRequest,
                        edited |-> FALSE]
           /\ panel' \in [asked : Nat, pending : Slips, told : Slips, edited : BOOLEAN]
<1>1. PICK v \in Actions : /\ control' = [id |-> panel.asked + 1, value |-> v]
                           /\ panel' = [asked |-> panel.asked + 1, pending |-> control',
                                        told |-> NoRequest, edited |-> FALSE]
  BY DEF Ask
<1>2. panel.asked \in Nat /\ panel.asked < MaxRequests /\ MaxRequests \in Nat
  BY PanelAssumption DEF PanelAssumption, Typed, Ask
<1>3. panel.asked + 1 \in 1..MaxRequests
  BY <1>2
<1>4. control' \in Requests /\ control'.id = panel.asked + 1
  BY <1>1, <1>3 DEF Requests
<1>5. panel.asked + 1 \in Nat /\ control' \in Slips /\ NoRequest \in Slips
  BY <1>2, <1>4, SlipType DEF Slips
<1>6. \A n \in Nat, s, t \in Slips, b \in BOOLEAN :
        [asked |-> n, pending |-> s, told |-> t, edited |-> b]
            \in [asked : Nat, pending : Slips, told : Slips, edited : BOOLEAN]
  OBVIOUS
<1> QED
  BY <1>1, <1>4, <1>5, <1>6

LEMMA ReportType ==
    ASSUME Typed, NEW p \in Processes, NEW saved \in BOOLEAN, Report(p, saved)
    PROVE  /\ inHand' = [inHand EXCEPT ![p] = NoRequest] /\ inHand' \in [Processes -> Slips]
           /\ result' = [result EXCEPT ![p] = [id |-> inHand[p].id, saved |-> saved]]
           /\ result' \in [Processes -> Reports]
           /\ hb' = [hb EXCEPT ![p] = "looking"] /\ hb' \in [Processes -> Places]
<1>1. [id |-> inHand[p].id, saved |-> saved] \in Reports /\ NoRequest \in Slips
  BY SlipType DEF Typed
<1> QED
  BY <1>1 DEF Report, Goes, Typed, Places

LEMMA TypedStep == Typed /\ [Next]_vars => Typed'
<1> SUFFICES ASSUME Typed, [Next]_vars PROVE Typed'
  OBVIOUS
<1> USE SlipType
<1>1. CASE UNCHANGED vars
  BY <1>1 DEF vars, files, Typed
<1>2. CASE Ask
  <2>1. UNCHANGED <<inHand, result, hb>>
    BY <1>2 DEF Ask
  <2> QED
    BY <1>2, <2>1, AskType DEF Typed, Slips
<1>3. CASE Settle \/ TimeOut \/ Edit
  <2>1. UNCHANGED <<control, inHand, result, hb>>
    BY <1>3 DEF Settle, TimeOut, Edit, files
  <2>2. \/ panel' = [panel EXCEPT !.pending = NoRequest]
        \/ panel' = [panel EXCEPT !.edited = TRUE]
        \/ panel' = [panel EXCEPT !.pending = NoRequest, !.told = panel.pending]
        \/ panel' = [panel EXCEPT !.pending = NoRequest, !.told = NoRequest]
    BY <1>3 DEF Settle, TimeOut, Edit
  <2>3. panel' \in [asked : Nat, pending : Slips, told : Slips, edited : BOOLEAN]
    BY <2>2 DEF Typed
  <2> QED
    BY <2>1, <2>3 DEF Typed
<1>4. ASSUME NEW p \in Processes, Heartbeat(p) \/ Crash(p)
      PROVE  Typed'
  <2>0. UNCHANGED panel
    BY <1>4 DEF Heartbeat, Poll, StartHeartbeat, PollRead, PollEmpty, Unlink, Apply, Save,
                SaveFails, LookAtEnv, Reread, Crash
  <2>1. CASE PollRead(p) \/ PollEmpty(p) \/ Unlink(p) \/ LookAtEnv(p) \/ Reread(p)
                \/ StartHeartbeat(p)
    BY <2>0, <2>1 DEF PollRead, PollEmpty, Unlink, LookAtEnv, Reread, StartHeartbeat, files,
                      Goes, Typed, Places
  <2>2. CASE Apply(p) \/ Save(p) \/ SaveFails(p)
    <3>1. control' = control
      BY <2>2 DEF Apply, Save, SaveFails, files
    <3>2. CASE Report(p, TRUE) \/ Report(p, FALSE)
      BY <2>0, <3>1, <3>2, ReportType DEF Typed
    <3>3. CASE Goes(p, "saving") /\ UNCHANGED <<inHand, result>>
      BY <2>0, <3>1, <3>3 DEF Goes, Typed, Places
    <3> QED
      BY <2>2, <3>2, <3>3 DEF Apply, Save, SaveFails
  <2>3. CASE Crash(p)
    BY <2>0, <2>3 DEF Crash, files, Goes, Typed, Places
  <2> QED
    BY <1>4, <2>1, <2>2, <2>3 DEF Heartbeat, Poll
<1> QED
  BY <1>1, <1>2, <1>3, <1>4 DEF Next
-----------------------------------------------------------------------------
(* The newest request is the only one on disk, and once anybody has taken it *)
(* nobody is still busy with an older one.                                   *)

Newest(s) == s # NoRequest /\ s.id = panel.asked

\* Wherever a request has got to.
Slip(s) == s \in {control, panel.pending, panel.told} \/ \E p \in Processes : s = inHand[p]

OneRequestPerId == \A s, t \in Slips : Slip(s) /\ Slip(t) /\ s.id = t.id => s = t

OnlyNewestShown ==
    /\ \A s \in {control, panel.pending, panel.told} : s = NoRequest \/ Newest(s)
    /\ \A p \in Processes : inHand[p].id <= panel.asked /\ result[p].id <= panel.asked

Busy == \A p \in Processes : hb[p] \in {"taken", "applying", "saving"} <=> inHand[p] # NoRequest

Taken ==
    \/ panel.told # NoRequest
    \/ panel.asked > 0 /\ \E p \in Processes : panel.asked \in {inHand[p].id, result[p].id}

NoneBehind == Taken => \A p \in Processes : inHand[p] = NoRequest \/ Newest(inHand[p])

Saved == panel.asked > 0 /\ \E p \in Processes : result[p].id = panel.asked /\ result[p].saved

SavedIsThere ==
    Saved \/ panel.told # NoRequest =>
        panel.edited \/ \A s \in Slips : Slip(s) /\ Newest(s) => dotenv = s.value

Orderly == OneRequestPerId /\ OnlyNewestShown /\ Busy /\ NoneBehind /\ SavedIsThere

LEMMA OrderlyIsEnough == Typed /\ Orderly => ToldTrue
BY DEF Typed, Orderly, OnlyNewestShown, SavedIsThere, Slip, ToldTrue

LEMMA SlipsAreSlips == Typed => \A s : Slip(s) => s \in Slips
BY DEF Typed, Slip

\* Requests are only put away, and nobody reports one as saved.
LEMMA OrderlyKept ==
    ASSUME Typed, Typed', Orderly, UNCHANGED <<panel, dotenv>>, Busy',
           control' \in {control, NoRequest},
           \A q \in Processes : inHand'[q] \in {inHand[q], NoRequest},
           \A q \in Processes : result'[q].id \in {0, result[q].id, inHand[q].id},
           Saved' => Saved
    PROVE  Orderly'
<1>1. \A s : Slip(s)' => Slip(s) \/ s = NoRequest
  BY DEF Slip
<1>2. OneRequestPerId'
  BY <1>1, SlipType DEF Orderly, OneRequestPerId
<1>3. OnlyNewestShown'
  BY SlipType DEF Orderly, OnlyNewestShown, Newest, Typed
<1>4. Taken' => Taken
  BY SlipType DEF Taken, Typed
<1>5. NoneBehind'
  BY <1>4 DEF Orderly, NoneBehind, Newest
<1>6. SavedIsThere'
  BY <1>1 DEF Orderly, SavedIsThere, Newest
<1> QED
  BY <1>2, <1>3, <1>5, <1>6 DEF Orderly

LEMMA OrderlyReported ==
    ASSUME Typed, Typed', Orderly, NEW p \in Processes, NEW saved \in BOOLEAN, Report(p, saved),
           hb[p] \in {"taken", "applying", "saving"}
    PROVE  /\ Busy'
           /\ \A q \in Processes : inHand'[q] \in {inHand[q], NoRequest}
           /\ \A q \in Processes : result'[q].id \in {0, result[q].id, inHand[q].id}
           /\ \A q \in Processes \ {p} : result'[q] = result[q]
           /\ result'[p].id = inHand[p].id /\ result'[p].saved = saved
BY ReportType DEF Typed, Orderly, Busy

LEMMA OrderlySave ==
    ASSUME Typed, Typed', Orderly, NEW p \in Processes, Save(p)
    PROVE  Orderly'
<1>1. Report(p, TRUE) /\ hb[p] = "saving" /\ UNCHANGED <<control, panel>>
  BY DEF Save, At
<1>2. dotenv' = inHand[p].value
  BY DEF Save, Written
<1>3. inHand[p] # NoRequest /\ inHand[p] \in Slips /\ inHand[p].id > 0
  BY <1>1, SlipType DEF Orderly, Busy, Typed
<1>4. /\ Busy'
      /\ \A q \in Processes : inHand'[q] \in {inHand[q], NoRequest}
      /\ \A q \in Processes : result'[q].id \in {0, result[q].id, inHand[q].id}
      /\ \A q \in Processes \ {p} : result'[q] = result[q]
      /\ result'[p].id = inHand[p].id
  BY <1>1, OrderlyReported
<1>5. \A s : Slip(s)' => Slip(s) \/ s = NoRequest
  BY <1>1, <1>4 DEF Slip
<1>6. OneRequestPerId'
  BY <1>5, SlipType DEF Orderly, OneRequestPerId
<1>7. OnlyNewestShown'
  BY <1>1, <1>4, SlipType DEF Orderly, OnlyNewestShown, Newest, Typed
<1>8. Taken' => Taken
  BY <1>1, <1>4, SlipType DEF Taken, Typed
<1>9. NoneBehind'
  BY <1>1, <1>4, <1>8 DEF Orderly, NoneBehind, Newest
<1>10. SavedIsThere'
  <2>1. CASE inHand[p].id = panel.asked
    <3>1. \A s \in Slips : Slip(s) /\ Newest(s) => s = inHand[p]
      BY <1>3, <2>1 DEF Orderly, OneRequestPerId, Newest, Slip
    <3> QED
      BY <1>1, <1>2, <1>5, <3>1 DEF SavedIsThere, Newest
  <2>2. CASE inHand[p].id # panel.asked
    <3>1. ~Taken
      BY <1>3, <2>2 DEF Orderly, NoneBehind, Newest
    <3>2. ~Saved' /\ panel'.told = NoRequest
      BY <1>1, <1>4, <2>2, <3>1 DEF Taken, Saved
    <3> QED
      BY <3>2 DEF SavedIsThere
  <2> QED
    BY <2>1, <2>2
<1> QED
  BY <1>4, <1>6, <1>7, <1>9, <1>10 DEF Orderly

LEMMA OrderlyPollRead ==
    ASSUME Typed, Typed', Orderly, NEW p \in Processes, PollRead(p)
    PROVE  Orderly'
<1>1. /\ control # NoRequest /\ hb[p] = "polling" /\ UNCHANGED <<control, dotenv, panel, result>>
      /\ inHand' = [inHand EXCEPT ![p] = control] /\ hb' = [hb EXCEPT ![p] = "taken"]
      /\ \A q \in Processes \ {p} : inHand[q] \in {NoRequest, control}
  BY DEF PollRead, At, Goes, Prompt, files
<1>2. Newest(control) /\ control.id \in Nat
  BY <1>1, SlipType DEF Orderly, OnlyNewestShown, Typed
<1>3. \A q \in Processes : inHand'[q] \in {NoRequest, control}
  BY <1>1 DEF Typed
<1>4. \A s : Slip(s)' => Slip(s) \/ s = NoRequest
  BY <1>1, <1>3 DEF Slip
<1>5. Busy'
  BY <1>1 DEF Orderly, Busy, Typed
<1>6. OneRequestPerId'
  BY <1>4, SlipType DEF Orderly, OneRequestPerId
<1>7. OnlyNewestShown'
  BY <1>1, <1>2, <1>3, SlipType DEF Orderly, OnlyNewestShown, Newest, Typed
<1>8. NoneBehind'
  BY <1>1, <1>2, <1>3 DEF NoneBehind, Newest
<1>9. SavedIsThere'
  BY <1>1, <1>4 DEF Orderly, SavedIsThere, Saved, Newest
<1> QED
  BY <1>5, <1>6, <1>7, <1>8, <1>9 DEF Orderly

LEMMA OrderlyHeartbeat ==
    ASSUME Typed, Typed', Orderly, NEW p \in Processes, Heartbeat(p) \/ Crash(p)
    PROVE  Orderly'
<1>1. CASE PollEmpty(p) \/ LookAtEnv(p) \/ Reread(p) \/ StartHeartbeat(p)
  <2>1. UNCHANGED <<control, dotenv, panel, inHand, result>>
    BY <1>1 DEF PollEmpty, LookAtEnv, Reread, StartHeartbeat, files
  <2>2. \E place \in {"looking", "polling", "rereading"} :
           hb[p] \notin {"taken", "applying", "saving"} /\ hb' = [hb EXCEPT ![p] = place]
    BY <1>1 DEF PollEmpty, LookAtEnv, Reread, StartHeartbeat, At, Goes
  <2>3. Busy'
    BY <2>1, <2>2 DEF Orderly, Busy, Typed
  <2> QED
    BY <2>1, <2>3, OrderlyKept DEF Saved
<1>2. CASE Unlink(p)
  <2>1. /\ UNCHANGED <<dotenv, panel, result>> /\ control' \in {control, NoRequest}
        /\ hb[p] = "taken"
        /\ \/ inHand' = [inHand EXCEPT ![p] = NoRequest] /\ hb' = [hb EXCEPT ![p] = "looking"]
           \/ inHand' = inHand /\ hb' = [hb EXCEPT ![p] = "applying"]
    BY <1>2 DEF Unlink, At, Goes
  <2>2. Busy' /\ \A q \in Processes : inHand'[q] \in {inHand[q], NoRequest}
    BY <2>1 DEF Orderly, Busy, Typed
  <2> QED
    BY <2>1, <2>2, OrderlyKept DEF Saved
<1>3. CASE Apply(p) \/ SaveFails(p)
  <2>1. UNCHANGED <<control, dotenv, panel>> /\ hb[p] \in {"applying", "saving"}
    BY <1>3 DEF Apply, SaveFails, At, files
  <2>2. CASE Report(p, FALSE)
    <3>1. Saved' => Saved
      BY <2>1, <2>2, OrderlyReported DEF Saved
    <3> QED
      BY <2>1, <2>2, <3>1, OrderlyReported, OrderlyKept
  <2>3. CASE hb[p] = "applying" /\ Goes(p, "saving") /\ UNCHANGED <<inHand, result>>
    <3>1. Busy'
      BY <2>3 DEF Goes, Orderly, Busy, Typed
    <3> QED
      BY <2>1, <2>3, <3>1, OrderlyKept DEF Saved
  <2> QED
    BY <1>3, <2>2, <2>3 DEF Apply, SaveFails, At
<1>4. CASE Crash(p)
  <2>1. /\ UNCHANGED <<control, dotenv, panel>> /\ hb' = [hb EXCEPT ![p] = "starting"]
        /\ inHand' = [inHand EXCEPT ![p] = NoRequest] /\ result' = [result EXCEPT ![p] = Nothing]
    BY <1>4 DEF Crash, Goes, files
  <2>2. Busy' /\ \A q \in Processes : inHand'[q] \in {inHand[q], NoRequest}
    BY <2>1 DEF Orderly, Busy, Typed
  <2>3. \A q \in Processes : result'[q].id \in {0, result[q].id, inHand[q].id}
    BY <2>1, SlipType DEF Typed
  <2>4. Saved' => Saved
    BY <2>1, SlipType DEF Saved, Typed
  <2> QED
    BY <2>1, <2>2, <2>3, <2>4, OrderlyKept
<1> QED
  BY <1>1, <1>2, <1>3, <1>4, OrderlySave, OrderlyPollRead DEF Heartbeat, Poll

LEMMA OrderlyPanel ==
    ASSUME Typed, Typed', Orderly, Ask \/ Settle \/ TimeOut \/ Edit
    PROVE  Orderly'
<1> USE SlipType
<1>0. UNCHANGED <<inHand, result, hb>>
  BY DEF Ask, Settle, TimeOut, Edit
<1>1. Busy'
  BY <1>0 DEF Orderly, Busy
<1>2. CASE Ask
  <2>1. /\ control' \in Slips /\ control'.id = panel.asked + 1 /\ control' # NoRequest
        /\ panel'.asked = panel.asked + 1 /\ panel'.pending = control'
        /\ panel'.told = NoRequest /\ panel.asked \in Nat
    BY <1>2, AskType DEF Typed, Slips
  <2>2. \A q \in Processes : inHand[q].id <= panel.asked /\ result[q].id <= panel.asked
                            /\ inHand[q].id \in Nat /\ result[q].id \in Nat
    BY DEF Orderly, OnlyNewestShown, Typed, Reports
  <2>3. \A s : Slip(s)' => s = control' \/ s = NoRequest \/ (Slip(s) /\ s.id <= panel.asked)
    BY <1>0, <2>1, <2>2 DEF Slip
  <2>4. OneRequestPerId'
    <3> SUFFICES ASSUME NEW s \in Slips, NEW t \in Slips, Slip(s)', Slip(t)', s.id = t.id
                 PROVE  s = t
      BY DEF OneRequestPerId
    <3>1. s.id \in Nat /\ t.id \in Nat
      OBVIOUS
    <3>2. (s = NoRequest \/ s.id > 0) /\ (t = NoRequest \/ t.id > 0)
      OBVIOUS
    <3>3. CASE s = control' \/ t = control'
      BY <2>1, <2>3, <3>1, <3>3
    <3>4. CASE s # control' /\ t # control'
      BY <2>3, <3>1, <3>2, <3>4 DEF Orderly, OneRequestPerId
    <3> QED
      BY <3>3, <3>4
  <2>5. OnlyNewestShown'
    BY <1>0, <2>1, <2>2 DEF OnlyNewestShown, Newest
  <2>6. ~Taken' /\ ~Saved'
    BY <1>0, <2>1, <2>2 DEF Taken, Saved
  <2> QED
    BY <1>1, <2>1, <2>4, <2>5, <2>6 DEF Orderly, NoneBehind, SavedIsThere
<1>3. CASE TimeOut \/ Edit
  <2>1. /\ control' = control /\ panel'.asked = panel.asked /\ panel'.told = panel.told
        /\ panel'.pending \in {panel.pending, NoRequest}
        /\ panel'.edited \/ (panel'.edited = panel.edited /\ dotenv' = dotenv)
    BY <1>3 DEF TimeOut, Edit, files, Typed
  <2>2. \A s : Slip(s)' => Slip(s) \/ s = NoRequest
    BY <1>0, <2>1 DEF Slip
  <2>3. OneRequestPerId'
    BY <2>2 DEF Orderly, OneRequestPerId
  <2>4. OnlyNewestShown' /\ NoneBehind'
    BY <1>0, <2>1 DEF Orderly, OnlyNewestShown, NoneBehind, Taken, Newest
  <2>5. (Saved' => Saved) /\ panel'.asked = panel.asked
    BY <1>0, <2>1 DEF Saved
  <2>6. SavedIsThere'
    BY <2>1, <2>2, <2>5 DEF Orderly, SavedIsThere, Newest
  <2> QED
    BY <1>1, <2>3, <2>4, <2>6 DEF Orderly
<1>4. CASE Settle
  <2>1. PICK p \in Processes :
           /\ panel.pending # NoRequest /\ result[p].id = panel.pending.id
           /\ panel' = [panel EXCEPT !.pending = NoRequest,
                           !.told = IF result[p].saved THEN panel.pending ELSE NoRequest]
    BY <1>4 DEF Settle
  <2>2. UNCHANGED <<control, dotenv>>
    BY <1>4 DEF Settle, files
  <2>3. /\ panel'.asked = panel.asked /\ panel'.edited = panel.edited
        /\ panel'.pending = NoRequest
        /\ panel'.told = IF result[p].saved THEN panel.pending ELSE NoRequest
    BY <2>1 DEF Typed
  <2>4. panel.pending.id = panel.asked /\ panel.asked > 0
    BY <2>1 DEF Orderly, OnlyNewestShown, Newest, Typed
  <2>5. Taken /\ (result[p].saved => Saved)
    BY <2>1, <2>4 DEF Taken, Saved
  <2>6. \A s : Slip(s)' => Slip(s) \/ s = NoRequest
    BY <1>0, <2>2, <2>3 DEF Slip
  <2>7. OneRequestPerId'
    BY <2>6 DEF Orderly, OneRequestPerId
  <2>8. OnlyNewestShown' /\ NoneBehind'
    BY <1>0, <2>2, <2>3, <2>5 DEF Orderly, OnlyNewestShown, NoneBehind, Newest
  <2>9. SavedIsThere'
    <3>1. (Saved' => Saved) /\ (panel'.told # NoRequest => Saved)
      BY <1>0, <2>3, <2>5 DEF Saved
    <3> QED
      BY <2>2, <2>3, <2>6, <3>1 DEF Orderly, SavedIsThere, Newest
  <2> QED
    BY <1>1, <2>7, <2>8, <2>9 DEF Orderly
<1> QED
  BY <1>2, <1>3, <1>4

LEMMA OrderlyStep == Typed /\ Typed' /\ Orderly /\ [Next]_vars => Orderly'
<1> SUFFICES ASSUME Typed, Typed', Orderly, [Next]_vars PROVE Orderly'
  OBVIOUS
<1>1. CASE UNCHANGED vars
  BY <1>1 DEF vars, files, Orderly, OneRequestPerId, OnlyNewestShown, Busy, NoneBehind,
              SavedIsThere, Slip, Newest, Taken, Saved
<1> QED
  BY <1>1, OrderlyHeartbeat, OrderlyPanel DEF Next

LEMMA OrderlyInitial == Init => Typed /\ Orderly
<1> SUFFICES ASSUME Init PROVE Typed /\ Orderly
  OBVIOUS
<1> USE SlipType
<1>1. /\ control = NoRequest /\ panel.asked = 0 /\ panel.pending = NoRequest
      /\ panel.told = NoRequest
      /\ \A p \in Processes : inHand[p] = NoRequest /\ result[p].id = 0 /\ hb[p] = "polling"
  BY DEF Init
<1>2. Typed
  BY DEF Init, Typed, Places
<1>3. \A s : Slip(s) => s = NoRequest
  BY <1>1 DEF Slip
<1>4. ~Taken /\ ~Saved
  BY <1>1 DEF Taken, Saved
<1> QED
  BY <1>1, <1>2, <1>3, <1>4
     DEF Orderly, OneRequestPerId, OnlyNewestShown, Busy, NoneBehind, SavedIsThere

\* What the panel calls saved is in .env until the next request or an edit by
\* hand, whoever takes, deletes or drops a request (control.py:78-146, 340-347).
THEOREM ToldIsTrue == Spec => []ToldTrue
<1>1. Typed /\ Orderly /\ [Next]_vars => Typed' /\ Orderly'
  BY TypedStep, OrderlyStep
<1> QED
  BY <1>1, OrderlyInitial, OrderlyIsEnough, PTL DEF Spec
=============================================================================

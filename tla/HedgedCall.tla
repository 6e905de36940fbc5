----------------------------- MODULE HedgedCall -----------------------------
(***************************************************************************)
(* Requests that do not stream, asked of more than one key (transport.py:  *)
(* _hedged_create, _burst_create, _queue_hedge_loser, _drain_hedge_losers; *)
(* core/hedging.py: HedgeTracker).  A slow request gets one backup, paid   *)
(* from a budget every answer refills; a pool that runs dry is asked       *)
(* several keys at once.  What a race does not use is judged later, by     *)
(* whichever conversation drains the queue of losers next.                 *)
(*                                                                         *)
(* All conversations use one model.  A request is a leg; its key is left   *)
(* out, and whether a key is free for one more leg is open.  Durations are *)
(* left out: a threshold or a deadline may pass whenever the code waits.   *)
(* Faster pays from a bucket of its own, of the same kind with three times *)
(* the share: the model's bucket is either.                                *)
(***************************************************************************)
EXTENDS Integers, Sequences, FiniteSets, SequencesExt

CONSTANTS
    Conversations,
    MaxLegs,         \* bound on the legs alive at one time
    BurstLegs,       \* legs of a burst at most, 0 without bursts
    Burst,           \* hedge_burst, the tokens of a full bucket
    Share, Whole,    \* hedge_budget_pct, as Share parts of Whole
    Refusals         \* the failures told apart: a per-minute refusal, the rest

ASSUME HedgedCallAssumption ==
    /\ MaxLegs \in Nat /\ BurstLegs \in 0..MaxLegs
    /\ Burst \in Nat \ {0}
    /\ Whole \in Nat \ {0} /\ Share \in 0..Whole
    /\ Refusals \subseteq {"per_minute", "error"}

VARIABLES
    calls,           \* what each conversation's thread is doing
    legs,            \* the requests alive: sent, and not yet accounted for
    losers,          \* _hedge_losers, the queue all conversations share
    bucket,          \* _budgets: this model's bucket, <<>> before its first use
    cooling,         \* now < _cool_until
    debt             \* history: backups not yet earned back, in parts of a token

vars == <<calls, legs, losers, bucket, cooling, debt>>

Ids       == 1..MaxLegs
Outcomes  == {"useful", "empty"} \cup Refusals
Alive     == DOMAIN legs
Ended(l)  == legs[l].state # "running"
Failed(l) == legs[l].state \in Refusals
-----------------------------------------------------------------------------
(* core/hedging.py: the budget, a bucket that exists from its first use.    *)

\* _bucket_for: a bucket starts full.
Full == <<[tokens |-> Burst, part |-> 0]>>
TheBucket == IF bucket = <<>> THEN Full ELSE bucket

\* _TokenBucket.refill: parts add up to whole tokens.
Refilled(b) ==
    LET earned == b.part + Share
        more   == b.tokens + earned \div Whole
    IN  [tokens |-> IF more > Burst THEN Burst ELSE more, part |-> earned % Whole]

\* record_latency, for an answer that was not cut short.
Learn ==
    /\ bucket' = <<Refilled(TheBucket[1])>>
    /\ debt' = IF debt > Share THEN debt - Share ELSE 0

\* Mutant of Spent: a backup is free of charge.
SpentNothing == TheBucket

\* _TokenBucket.try_consume.
Spent == <<[TheBucket[1] EXCEPT !.tokens = @ - 1]>>

\* note_hedge_429: the penalty, down to a bucket of debts.
Penalized ==
    IF bucket = <<>> THEN bucket
    ELSE <<[bucket[1] EXCEPT !.tokens = IF @ - 1 < -Burst THEN -Burst ELSE @ - 1]>>
-----------------------------------------------------------------------------
(* The legs.                                                                *)

Smallest(S) == CHOOSE x \in S : \A y \in S : x <= y
FreeId      == Smallest(Ids \ Alive)

NewLeg(backup) == [state |-> "running", backup |-> backup, queued |-> FALSE]

\* Requests go out on the legs ids, some of them as backups.
Sent(ids, backups) ==
    [l \in Alive \cup ids |-> IF l \in ids THEN NewLeg(l \in backups) ELSE legs[l]]

Without(ls, which) == [l \in DOMAIN ls \ which |-> ls[l]]

\* Mutant of Let: a leg that has already ended is not put in the queue.
LetRunning(which, left) ==
    /\ legs' = [l \in Alive \ left |->
                 IF l \in which THEN [legs[l] EXCEPT !.queued = TRUE] ELSE legs[l]]
    /\ UNCHANGED losers

\* _queue_hedge_loser for which: each goes into the queue when it ends, at
\* once if it has.  Nobody looks at the legs in left again, running or not.
Let(which, left) ==
    /\ legs' = [l \in Alive \ left |->
                 IF l \in which THEN [legs[l] EXCEPT !.queued = TRUE] ELSE legs[l]]
    /\ losers' = losers \o SetToSeq({l \in which : Ended(l)})

States(which) == {legs[l].state : l \in which}

Held == UNION {calls[c].mine : c \in Conversations}

Ends(l, outcome) ==
    /\ ~Ended(l)
    /\ legs' = [legs EXCEPT ![l].state = outcome]
    /\ losers' = IF legs[l].queued THEN Append(losers, l) ELSE losers
    /\ UNCHANGED <<calls, bucket, cooling, debt>>
-----------------------------------------------------------------------------
(* A conversation's thread.                                                 *)

\* late: the deadline passed.  passedOver is history: how the legs stood that
\* were not taken.
Asked(pc, ids) ==
    [pc |-> pc, mine |-> ids, pending |-> ids,
     primary |-> IF ids = {} THEN 0 ELSE Smallest(ids), late |-> FALSE, passedOver |-> {}]
Quiet == Asked("idle", {})

At(c, pc) == calls[c].pc = pc
Goes(c, pc) == calls' = [calls EXCEPT ![c].pc = pc]

Draining(c) == calls[c].pc \in {"entering", "leaving"}

Drained(c) == Draining(c) /\ losers = <<>>

\* A call, or its next attempt, begins with what earlier races left: a call
\* drains the queue first (_drive), an attempt has just done so.
Start(c) ==
    /\ At(c, "idle") /\ Goes(c, "entering")
    /\ UNCHANGED <<legs, losers, bucket, cooling, debt>>

Dispatch(c) ==
    /\ At(c, "entering") /\ Drained(c) /\ Ids \ Alive # {}
    /\ calls' = [calls EXCEPT ![c] = Asked("first", {FreeId})]
    /\ legs' = Sent({FreeId}, {})
    /\ UNCHANGED <<losers, bucket, cooling, debt>>

\* _burst_create: as many keys as are free, at once, and no budget asked.
DispatchBurst(c) ==
    /\ At(c, "entering") /\ Drained(c)
    /\ \E ids \in SUBSET (Ids \ Alive) :
          /\ Cardinality(ids) \in 2..BurstLegs
          /\ \A x \in ids, y \in (Ids \ Alive) \ ids : x < y
          /\ calls' = [calls EXCEPT ![c] = Asked("burst", ids)]
          /\ legs' = Sent(ids, ids \ {Smallest(ids)})
    /\ UNCHANGED <<losers, bucket, cooling, debt>>

Unhedged(c) == Goes(c, "primary") /\ UNCHANGED <<legs, debt>>

\* The threshold passed: should_hedge, then a key for the backup.  The token
\* is gone when no key is free.
Threshold(c) ==
    LET pay == ~cooling /\ TheBucket[1].tokens >= 1 /\ bucket' = Spent
    IN  /\ At(c, "first") /\ ~Ended(calls[c].primary)
        /\ \/ Unhedged(c) /\ UNCHANGED bucket
           \/ Unhedged(c) /\ pay
           \/ /\ pay /\ Ids \ Alive # {}
              /\ legs' = Sent({FreeId}, {FreeId})
              /\ calls' = [calls EXCEPT ![c].pc = "racing", ![c].mine = @ \cup {FreeId},
                                        ![c].pending = @ \cup {FreeId}]
              /\ debt' = debt + Whole
        /\ UNCHANGED <<losers, cooling>>

\* The race is over: answer goes to the caller, the legs in let to the queue;
\* any other leg is forgotten.
Leave(c, answer, let) ==
    LET call == calls[c]
        left == [call EXCEPT !.pc = "leaving", !.mine = {answer}, !.pending = {},
                             !.passedOver = @ \cup States(call.mine \ {answer})]
    IN  /\ Let(let, call.mine \ ({answer} \cup let))
        /\ calls' = [calls EXCEPT ![c] =
              IF legs[answer].state = "useful"
              THEN [left EXCEPT !.late = FALSE, !.passedOver = {}, !.primary = 0] ELSE left]
        /\ UNCHANGED <<bucket, cooling, debt>>

\* primary.result(): before the threshold, or as an unhedged call waits.
PrimaryEnds(c) ==
    LET p == calls[c].primary
    IN  calls[c].pc \in {"first", "primary"} /\ Ended(p) /\ Leave(c, p, {})

Racing(c) == calls[c].pc \in {"racing", "burst"}

\* Mutant of Winners: the first answer wins, useful or not.
WinnersAny(done) == {l \in done : ~Failed(l)}

Winners(done) == {l \in done : legs[l].state = "useful"}

\* wait(FIRST_COMPLETED) returns every leg that has ended by then.
Look(c) ==
    LET done == {l \in calls[c].pending : Ended(l)}
    IN  /\ Racing(c) /\ done # {} /\ ~calls[c].late
        /\ \/ \E w \in Winners(done) : Leave(c, w, calls[c].mine \ {w})
           \/ /\ Winners(done) = {}
              /\ calls' = [calls EXCEPT ![c].pending = @ \ done]
              /\ UNCHANGED <<legs, losers, bucket, cooling, debt>>

\* No leg of the race ended for the length of the deadline; a burst has none.
Deadline(c) ==
    /\ At(c, "racing") /\ calls[c].pending # {} /\ \A l \in calls[c].pending : ~Ended(l)
    /\ calls' = [calls EXCEPT ![c].late = TRUE]
    /\ UNCHANGED <<legs, losers, bucket, cooling, debt>>

\* What is raised is the primary's failure, or nothing yet.
Blamed(c, failed) == IF calls[c].primary \in failed THEN calls[c].primary ELSE 0

\* No leg brought a useful answer.
NoWinner(c) ==
    LET call   == calls[c]
        seen   == call.mine \ call.pending
        failed == {l \in seen : Failed(l)}
        empty  == {l \in seen : legs[l].state = "empty"}
        others == seen \ {call.primary}
        blamed == Blamed(c, failed)
    IN  /\ Racing(c) /\ (call.pending = {} \/ call.late)
        /\ \/ /\ empty # {} /\ call.pending = {}
              /\ LET chosen == IF call.primary \in empty THEN call.primary ELSE Smallest(empty)
                 IN  Leave(c, chosen, seen \ {chosen})
           \/ /\ (empty = {} \/ call.pending # {}) /\ blamed # 0
              /\ Leave(c, blamed, seen \ {blamed})
           \/ /\ (empty = {} \/ call.pending # {}) /\ blamed = 0
              /\ Let(others, call.pending \ {call.primary})
              /\ calls' = [calls EXCEPT ![c].pc = "primary", ![c].mine = {call.primary},
                                        ![c].pending = {}, ![c].passedOver = States(others)]
              /\ UNCHANGED <<bucket, cooling, debt>>
-----------------------------------------------------------------------------
(* _drain_hedge_losers, one loser a step: other conversations may drain the *)
(* same queue between two.                                                  *)

Drain(c) ==
    LET l      == Head(losers)
        wasted == legs[l].backup /\ legs[l].state = "per_minute"
    IN  /\ Draining(c) /\ losers # <<>>
        /\ losers' = Tail(losers)
        /\ legs' = Without(legs, {l})
        /\ \/ Failed(l) /\ UNCHANGED debt
              /\ cooling' = (cooling \/ wasted)
              /\ bucket' = IF wasted THEN Penalized ELSE bucket
           \/ ~Failed(l) /\ Learn /\ UNCHANGED cooling
        /\ UNCHANGED calls

\* Back in _drive: a useful answer teaches, a failure is judged on its key.
Return(c) ==
    LET l == Smallest(calls[c].mine)
    IN  /\ At(c, "leaving") /\ Drained(c)
        /\ legs' = Without(legs, {l})
        /\ calls' = [calls EXCEPT ![c] = Quiet]
        /\ \/ legs[l].state = "useful" /\ Learn
           \/ legs[l].state # "useful" /\ UNCHANGED <<bucket, debt>>
        /\ UNCHANGED <<losers, cooling>>
-----------------------------------------------------------------------------
\* No key is free, the user stopped, or the call ends another way.
GiveUp(c) ==
    /\ At(c, "entering") /\ Drained(c) /\ Goes(c, "idle")
    /\ UNCHANGED <<legs, losers, bucket, cooling, debt>>

CoolEnds ==
    /\ cooling /\ cooling' = FALSE
    /\ UNCHANGED <<calls, legs, losers, bucket, debt>>

Init ==
    /\ calls = [c \in Conversations |-> Quiet]
    /\ legs = <<>> /\ losers = <<>>
    /\ bucket = <<>> /\ cooling = FALSE /\ debt = 0

Races(c) ==
    \/ Dispatch(c) \/ DispatchBurst(c) \/ Threshold(c)
    \/ PrimaryEnds(c) \/ Look(c) \/ Deadline(c) \/ NoWinner(c)
    \/ Drain(c) \/ Return(c)

Next ==
    \/ \E c \in Conversations : Start(c) \/ GiveUp(c) \/ Races(c)
    \/ \E l \in Alive, outcome \in Outcomes : Ends(l, outcome)
    \/ CoolEnds

Spec == Init /\ [][Next]_vars
-----------------------------------------------------------------------------
(* Properties                                                               *)

Places == {"idle", "entering", "first", "primary", "racing", "burst", "leaving"}

TypeOK ==
    /\ calls \in [Conversations -> [pc : Places, mine : SUBSET Ids, pending : SUBSET Ids,
                                    primary : {0} \cup Ids, late : BOOLEAN,
                                    passedOver : SUBSET ({"running"} \cup Outcomes)]]
    /\ Alive \subseteq Ids
    /\ \A l \in Alive : legs[l] \in [state : {"running"} \cup Outcomes, backup : BOOLEAN,
                                     queued : BOOLEAN]
    /\ losers \in Seq(Ids)
    /\ bucket \in {<<>>} \cup {<<b>> : b \in [tokens : -Burst..Burst, part : 0..(Whole - 1)]}
    /\ cooling \in BOOLEAN /\ debt \in Nat

(* Every leg has one judge.  While it is alive it is its race's or it was  *)
(* let go, never both and never neither; it waits in the queue exactly     *)
(* when it was let go and has ended, and once: so the caller never judges  *)
(* what a drain judges, two conversations never judge one leg twice, and   *)
(* only a leg behind a passed deadline has no judge at all (transport.py:  *)
(* 3657-3700, 3712-3718, 3729-3735).                                       *)
OneJudge ==
    /\ \A c, d \in Conversations : c # d => calls[c].mine \cap calls[d].mine = {}
    /\ \A l \in Alive :
          /\ l \in Held <=> ~legs[l].queued
          /\ Cardinality({i \in DOMAIN losers : losers[i] = l}) =
                IF legs[l].queued /\ Ended(l) THEN 1 ELSE 0
    /\ Held \cup ToSet(losers) \subseteq Alive

(* The caller blames the key it asked first, so what is raised is always   *)
(* the primary's failure; and it is raised, or an empty answer given, only *)
(* when no leg of the race brought something better - unless the deadline  *)
(* passed, when a leg still out is waited for no longer (transport.py:     *)
(* 3588-3589, 3647-3652, 3681-3684).                                       *)
BestAnswerWins ==
    \A c \in Conversations : At(c, "leaving") =>
        LET l == Smallest(calls[c].mine)
        IN  /\ Failed(l) => l = calls[c].primary
            /\ legs[l].state = "useful" \/ calls[c].late
                  \/ calls[c].passedOver \subseteq {"empty"} \cup Refusals

(* The budget holds over every stretch of time: in any run of requests the *)
(* backups sent are at most a full bucket more than what the answers of    *)
(* the same stretch earned, whatever was penalised, wasted or cooled in    *)
(* between (core/hedging.py:159-185, 241-253, 349-395, 536-550).           *)
BackupsBounded == debt < (Burst + 1) * Whole
=============================================================================

--------------------------- MODULE PanelRequests ----------------------------
(* How a change made in the panel reaches every Hermes process of a home    *)
(* (control.py: poll; envfile.py; settings.py: reread_environment;          *)
(* __init__.py: _tick; desktop/plugin.js: request, settle). The panel       *)
(* leaves a request in control.json. Whichever process looks first takes    *)
(* it, changes its own environment and .env, and reports in its section of  *)
(* the snapshot. The others follow .env by its time and size.               *)
(*                                                                          *)
(* One setting stands for all of them, without a line it is at its          *)
(* default. How a report reaches the panel is SnapshotFile's; here a        *)
(* section shows what its process last reported, and the panel has any of   *)
(* them on screen.                                                          *)
EXTENDS Naturals, FiniteSets

CONSTANTS
    Processes,
    Values,          \* what the setting can be set to
    MaxRequests,     \* bound: requests of the panel
    MaxEdits,        \* bound: edits of .env by hand
    MaxCrashes,      \* bound: processes that are restarted
    Deletable,       \* control.json can be deleted
    Writable,        \* .env can be written
    Readable         \* .env can be read

Default == "default"
ASSUME PanelAssumption ==
    /\ IsFiniteSet(Processes) /\ Default \notin Values
    /\ {MaxRequests, MaxEdits, MaxCrashes} \subseteq Nat
    /\ {Deletable, Writable, Readable} \subseteq BOOLEAN

VARIABLES
    control,     \* the request in control.json, NoRequest for none
    dotenv,      \* the value in .env
    hb,          \* hb[p]: where p's heartbeat thread is
    inHand,      \* the request p has read
    env,         \* the value in p's environment
    noted,       \* env_stamp is the stamp of .env as it stands
    applied,     \* _applied: requests p has carried out
    result,      \* _last_result
    panel,       \* [asked, pending, told, edited]: requests made, the one waited for, the
                 \* one the panel last called saved, and (history) whether .env was edited
                 \* by hand since the last one was made
    edits,       \* edits made by hand
    crashes      \* restarts so far

files == <<control, dotenv>>
vars == <<files, hb, inHand, env, noted, applied, result, panel, edits, crashes>>

\* "refresh" reads .env again; the default asks for the line to be removed.
Actions == Values \cup {Default, "refresh"}
Requests == [id : 1..MaxRequests, value : Actions]
NoRequest == [id |-> 0, value |-> Default]
Nothing == [id |-> 0, saved |-> FALSE]

At(p, place) == hb[p] = place
Goes(p, place) == hb' = [hb EXCEPT ![p] = place]

Init ==
    /\ control = NoRequest
    /\ dotenv = Default
    /\ hb = [p \in Processes |-> "polling"]
    /\ inHand = [p \in Processes |-> NoRequest]
    /\ env = [p \in Processes |-> Default]
    /\ noted = [p \in Processes |-> TRUE]
    /\ applied = [p \in Processes |-> {}]
    /\ result = [p \in Processes |-> Nothing]
    /\ panel = [asked |-> 0, pending |-> NoRequest, told |-> NoRequest,
                edited |-> FALSE]
    /\ edits = 0
    /\ crashes = 0
-----------------------------------------------------------------------------
(* poll, once a second.                                                      *)

\* A poll is over before the panel's next request is read: whoever took an
\* older one has done with it.
Prompt(p) == \A q \in Processes \ {p} : inHand[q] \in {NoRequest, control}

PollRead(p) ==
    /\ At(p, "polling") /\ control # NoRequest /\ Prompt(p)
    /\ inHand' = [inHand EXCEPT ![p] = control]
    /\ Goes(p, "taken")
    /\ UNCHANGED <<files, env, noted, applied, result, panel, edits, crashes>>

PollEmpty(p) ==
    /\ At(p, "polling") /\ control = NoRequest
    /\ Goes(p, "looking")
    /\ UNCHANGED <<files, inHand, env, noted, applied, result, panel, edits, crashes>>

\* The file is deleted before its request is carried out, whatever it holds by
\* now. A request this process has carried out is not carried out again.
Unlink(p) ==
    /\ At(p, "taken")
    /\ control' = (IF Deletable THEN NoRequest ELSE control)
    /\ IF inHand[p].id \in applied[p]
       THEN Goes(p, "looking") /\ inHand' = [inHand EXCEPT ![p] = NoRequest]
       ELSE Goes(p, "applying") /\ UNCHANGED inHand
    /\ UNCHANGED <<dotenv, env, noted, applied, result, panel, edits, crashes>>

\* _record, and the request is remembered.
Report(p, saved) ==
    /\ result' = [result EXCEPT ![p] = [id |-> inHand[p].id, saved |-> saved]]
    /\ applied' = [applied EXCEPT ![p] = @ \cup {inHand[p].id}]
    /\ inHand' = [inHand EXCEPT ![p] = NoRequest]
    /\ Goes(p, "looking")

\* read_kame: a file that cannot be read holds no line.
Found == {dotenv} \cup (IF Readable THEN {} ELSE {Default})

\* A refresh; or the environment first, so that the change is in force even
\* when it cannot be saved.
Apply(p) ==
    /\ At(p, "applying")
    /\ IF inHand[p].value = "refresh"
       THEN (\E v \in Found : env' = [env EXCEPT ![p] = v]) /\ Report(p, FALSE)
       ELSE /\ env' = [env EXCEPT ![p] = inHand[p].value]
            /\ Goes(p, "saving") /\ UNCHANGED <<inHand, applied, result>>
    /\ UNCHANGED <<files, noted, panel, edits, crashes>>

\* Mutant of Written: the file is replaced later than the outcome is reported.
WrittenLater(v) == UNCHANGED <<dotenv, noted>>

\* envfile.write and forget: a line that is not there need not be removed,
\* and everything else makes a file with a stamp of its own.
Written(v) ==
    IF v = Default /\ dotenv = Default THEN UNCHANGED <<dotenv, noted>>
    ELSE dotenv' = v /\ noted' = [q \in Processes |-> FALSE]

Save(p) ==
    /\ At(p, "saving")
    /\ Written(inHand[p].value) /\ Report(p, TRUE)
    /\ UNCHANGED <<control, env, panel, edits, crashes>>

SaveFails(p) ==
    /\ At(p, "saving") /\ ~Writable
    /\ Report(p, FALSE)
    /\ UNCHANGED <<files, env, noted, panel, edits, crashes>>
-----------------------------------------------------------------------------
(* The look at .env that follows every poll.                                 *)

\* The stamp is noted before the file is read.
LookAtEnv(p) ==
    /\ At(p, "looking")
    /\ noted' = [noted EXCEPT ![p] = TRUE]
    /\ Goes(p, IF noted[p] THEN "polling" ELSE "rereading")
    /\ UNCHANGED <<files, inHand, env, applied, result, panel, edits, crashes>>

\* Mutant of Reread: a line taken out of the file stays in the environment.
RereadKeeping(p) ==
    /\ At(p, "rereading")
    /\ \E v \in Found : env' = [env EXCEPT ![p] = IF v = Default THEN @ ELSE v]
    /\ Goes(p, "polling")
    /\ UNCHANGED <<files, inHand, noted, applied, result, panel, edits, crashes>>

Reread(p) ==
    /\ At(p, "rereading")
    /\ \E v \in Found : env' = [env EXCEPT ![p] = v]
    /\ Goes(p, "polling")
    /\ UNCHANGED <<files, inHand, noted, applied, result, panel, edits, crashes>>

\* The process goes down wherever it is, and the next one starts from .env.
Crash(p) ==
    /\ crashes < MaxCrashes
    /\ crashes' = crashes + 1
    /\ Goes(p, "starting")
    /\ inHand' = [inHand EXCEPT ![p] = NoRequest]
    /\ env' = [env EXCEPT ![p] = dotenv]
    /\ noted' = [noted EXCEPT ![p] = FALSE]
    /\ applied' = [applied EXCEPT ![p] = {}]
    /\ result' = [result EXCEPT ![p] = Nothing]
    /\ UNCHANGED <<files, panel, edits>>

\* The heartbeat starts with the stamp the file has by then.
StartHeartbeat(p) ==
    /\ At(p, "starting") /\ Goes(p, "polling")
    /\ noted' = [noted EXCEPT ![p] = TRUE]
    /\ UNCHANGED <<files, inHand, env, applied, result, panel, edits, crashes>>
-----------------------------------------------------------------------------
(* The panel, and the user's own editor.                                     *)

Ask ==
    /\ panel.pending = NoRequest /\ panel.asked < MaxRequests
    /\ \E v \in Actions :
         /\ control' = [id |-> panel.asked + 1, value |-> v]
         /\ panel' = [asked |-> panel.asked + 1, pending |-> control',
                       told |-> NoRequest, edited |-> FALSE]
    /\ UNCHANGED <<dotenv, hb, inHand, env, noted, applied, result, edits, crashes>>

\* settle, with the section of some process on screen.
Settle ==
    /\ panel.pending # NoRequest
    /\ \E p \in Processes :
         /\ result[p].id = panel.pending.id
         /\ panel' = [panel EXCEPT !.pending = NoRequest,
                                   !.told = IF result[p].saved THEN panel.pending ELSE NoRequest]
    /\ UNCHANGED <<files, hb, inHand, env, noted, applied, result, edits, crashes>>

\* Five seconds later.
TimeOut ==
    /\ panel.pending # NoRequest
    /\ panel' = [panel EXCEPT !.pending = NoRequest]
    /\ UNCHANGED <<files, hb, inHand, env, noted, applied, result, edits, crashes>>

Edit ==
    /\ edits < MaxEdits
    /\ edits' = edits + 1
    /\ \E v \in Values : dotenv' = v
    /\ noted' = [p \in Processes |-> FALSE]
    /\ panel' = [panel EXCEPT !.edited = TRUE]
    /\ UNCHANGED <<control, hb, inHand, env, applied, result, crashes>>
-----------------------------------------------------------------------------
Poll(p) == PollRead(p) \/ PollEmpty(p) \/ Unlink(p) \/ Apply(p) \/ Save(p) \/ SaveFails(p)
Heartbeat(p) == StartHeartbeat(p) \/ Poll(p) \/ LookAtEnv(p) \/ Reread(p)

Next ==
    \/ \E p \in Processes : Heartbeat(p) \/ Crash(p)
    \/ Ask \/ Settle \/ TimeOut \/ Edit

Spec == Init /\ [][Next]_vars

\* The heartbeat is a thread that always runs on.
FairSpec == Spec /\ \A p \in Processes : WF_vars(Heartbeat(p))
-----------------------------------------------------------------------------
(* What the panel calls saved is in .env, and is undone by nobody but the    *)
(* next request or an edit by hand, although several processes may take the  *)
(* same request, delete each other's, and go down half way (control.py:      *)
(* 78-146, 340-347).                                                         *)
ToldTrue == panel.told # NoRequest /\ ~panel.edited => dotenv = panel.told.value

(* A change of .env is in force in every process in the end, also when the   *)
(* file changes again while it is being looked at, or the process is itself  *)
(* busy with a request (__init__.py: 681-698, settings.py:789-825), while    *)
(* the file can be read. A change between a start's load of it and its first *)
(* stamp is missed, and so is one that is looked for and cannot be read.     *)
EveryoneFollows ==
    \A p \in Processes : ~noted[p] /\ ~At(p, "starting") ~> env[p] = dotenv
=============================================================================

---------------------------- MODULE SnapshotFile ----------------------------
(* state.json, the one file in which every Hermes process of a home shows   *)
(* the panel what it is doing (state.py). A process writes its section by   *)
(* reading the whole document, or its own copy of it, putting its section   *)
(* in and replacing the file; nothing is locked across processes. The       *)
(* heartbeat thread writes (__init__.py: _tick): when a call leaves a note, *)
(* every five seconds, and when a panel request was carried out.            *)
(*                                                                          *)
(* A section is what "Right now" says: busy or idle; the rest of it follows *)
(* the same way. A process is one pid: a restarted Hermes is another. A     *)
(* note says what the next slow tick says, only sooner: one action stands   *)
(* for both writes.                                                         *)
EXTENDS Naturals

CONSTANTS
    Processes,
    MaxRecords     \* bound: results of panel requests written

ASSUME SnapshotAssumption == "nobody" \notin Processes /\ MaxRecords \in Nat

VARIABLES
    file,     \* [stamp, doc]: the identity of state.json, and a section for each process
    hb,       \* hb[p]: where p's heartbeat thread is
    calls,    \* _current_activity: a call of p is under way
    mine,     \* the document p is writing
    cache,    \* _cached_stamp, _cached_document
    records,  \* results of panel requests written so far
    aged      \* the stopped processes whose section is _PROCESS_STALE_S old

snapshotVars == <<file, hb, calls, mine, cache, records, aged>>

Absent == "absent"
Shown == {"idle", "busy"}
Live(p) == IF calls[p] THEN "busy" ELSE "idle"
Dead(p) == hb[p] = "dead"
Empty == [p \in Processes |-> Absent]

\* _file_stamp, by who wrote the file: a process remembers only its last one.
Nobody == "nobody"
NoCopy == [stamp |-> Nobody, doc |-> Empty]

SnapshotInit ==
    /\ file = NoCopy
    /\ hb = [p \in Processes |-> "asleep"]
    /\ calls = [p \in Processes |-> FALSE]
    /\ mine = [p \in Processes |-> Empty]
    /\ cache = [p \in Processes |-> NoCopy]
    /\ records = 0
    /\ aged = {}
-----------------------------------------------------------------------------
\* request_publish, by a call that begins or ends.
Call(p) ==
    /\ ~Dead(p)
    /\ calls' = [calls EXCEPT ![p] = ~@]
    /\ UNCHANGED <<file, hb, mine, cache, records, aged>>

\* _read_for_merge.
Existing(p) == IF cache[p].stamp = file.stamp THEN cache[p].doc ELSE file.doc

\* Mutant of Merged: the section of a process that is gone is kept.
MergedWithGhosts(p, shown) == [Existing(p) EXCEPT ![p] = shown]

\* _merged: everybody's section but the ones that are too old, and p's own.
Merged(p, shown) ==
    [q \in Processes |-> IF q = p THEN shown ELSE IF q \in aged THEN Absent ELSE Existing(p)[q]]

\* publish, up to the replacement of the file.
Publish(p, shown) ==
    /\ mine' = [mine EXCEPT ![p] = Merged(p, shown)]
    /\ hb' = [hb EXCEPT ![p] = "replacing"]

\* _record: the outcome of a panel request, at once and with no activity.
Record(p) ==
    /\ hb[p] = "asleep" /\ records < MaxRecords
    /\ records' = records + 1
    /\ Publish(p, "idle")
    /\ UNCHANGED <<file, calls, cache, aged>>

\* Mutant of Beat: nothing is written when p wrote the same section last.
BeatUnforced(p) ==
    /\ hb[p] = "asleep" /\ cache[p].doc[p] # Live(p)
    /\ Publish(p, Live(p))
    /\ UNCHANGED <<file, calls, cache, records, aged>>

\* The note of a call, or the slow tick: written whatever it says.
Beat(p) ==
    /\ hb[p] = "asleep"
    /\ Publish(p, Live(p))
    /\ UNCHANGED <<file, calls, cache, records, aged>>

\* The copy p holds is of a file that is gone now.
Replace(p) ==
    /\ hb[p] = "replacing"
    /\ file' = [stamp |-> p, doc |-> mine[p]]
    /\ cache' = [cache EXCEPT ![p] = NoCopy]
    /\ hb' = [hb EXCEPT ![p] = "caching"]
    /\ UNCHANGED <<calls, mine, records, aged>>

\* A reader held the file through every try of _replace_patiently.
ReplaceRefused(p) ==
    /\ hb[p] = "replacing"
    /\ hb' = [hb EXCEPT ![p] = "asleep"]
    /\ mine' = [mine EXCEPT ![p] = Empty]
    /\ UNCHANGED <<file, calls, cache, records, aged>>

\* Mutant of Captured: the identity is read from the file that stands there now.
CapturedAfter(p) == file.stamp

\* The identity of the file p wrote, taken before it was put in place.
Captured(p) == p

\* Somebody else may have replaced the file since.
Cache(p) ==
    /\ hb[p] = "caching"
    /\ cache' = [cache EXCEPT ![p] = [stamp |-> Captured(p), doc |-> mine[p]]]
    /\ mine' = [mine EXCEPT ![p] = Empty]
    /\ hb' = [hb EXCEPT ![p] = "asleep"]
    /\ UNCHANGED <<file, calls, records, aged>>

\* The process stops, in the middle of a write or not.
Die(p) ==
    /\ ~Dead(p)
    /\ hb' = [hb EXCEPT ![p] = "dead"]
    /\ calls' = [calls EXCEPT ![p] = FALSE]
    /\ mine' = [mine EXCEPT ![p] = Empty]
    /\ cache' = [cache EXCEPT ![p] = NoCopy]
    /\ UNCHANGED <<file, records, aged>>

\* Its section has not been written for _PROCESS_STALE_S.
Age(p) ==
    /\ Dead(p) /\ p \notin aged
    /\ aged' = aged \cup {p}
    /\ UNCHANGED <<file, hb, calls, mine, cache, records>>

Heartbeat(p) ==
    \/ Record(p) \/ Beat(p)
    \/ Replace(p) \/ ReplaceRefused(p) \/ Cache(p)

SnapshotNext == \E p \in Processes : Call(p) \/ Heartbeat(p) \/ Die(p) \/ Age(p)

SnapshotSpec == SnapshotInit /\ [][SnapshotNext]_snapshotVars

\* The heartbeat is a thread that always runs on; the slow tick comes again
\* and again; no reader holds the file for ever; time passes.
FairSnapshotSpec ==
    /\ SnapshotSpec
    /\ \A p \in Processes :
          /\ WF_snapshotVars(Heartbeat(p))
          /\ SF_snapshotVars(Beat(p)) /\ SF_snapshotVars(Replace(p))
          /\ WF_snapshotVars(Age(p))
-----------------------------------------------------------------------------
(* A process uses its copy in place of the file only when the file holds     *)
(* just that: a copy taken for a document somebody else wrote in between     *)
(* would put back their older section at every write (state.py:975-990,      *)
(* 1116-1136).                                                               *)
CacheTrue ==
    \A p \in Processes :
        cache[p].stamp = file.stamp => cache[p].doc = file.doc

(* "A lost update costs one section one heartbeat": whatever the others put  *)
(* back, what a process is doing is shown in the end (state.py:1014-1021).   *)
NewsComesBack ==
    \A p \in Processes : \A busy \in BOOLEAN :
        calls[p] = busy ~> file.doc[p] = Live(p) \/ calls[p] # busy \/ Dead(p)

(* A process that is gone does not stay on the panel, as long as another     *)
(* one runs, although a document being written may still hold its section    *)
(* (state.py:1043-1050).                                                     *)
GhostsLeave ==
    \A p \in Processes :
        <>[](Dead(p) => file.doc[p] = Absent \/ \A q \in Processes : Dead(q))
=============================================================================

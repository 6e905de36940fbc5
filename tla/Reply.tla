------------------------------- MODULE Reply -------------------------------
(* What one call promises Hermes, whatever it takes to keep the promise:   *)
(* the text on screen only grows; a finish closes the answer; the parts of *)
(* a tool call arrive whole and once, or as the half a broken stream left, *)
(* and then they are the last thing; the call ends once, and an ending     *)
(* that gives the turn to somebody else is for an empty screen only.       *)
EXTENDS Naturals

VARIABLES
    text,     \* how much of the answer Hermes was given
    closed,   \* Hermes was given a finish
    tools,    \* "none", "whole" or "half": what Hermes has of a tool call
    ending    \* "open" while the call runs

vars == <<text, closed, tools, ending>>

\* "handed": the turn goes to another model; "dropped": an error, or a
\* background job's stop; both start over.
StartsOver == {"handed", "dropped"}
\* "given": the answer is returned; "cut": an error Hermes continues from;
\* "stopped": Hermes asked for the end; "expired": the user's own bound on
\* waiting for keys.
KeepsText == {"given", "cut", "stopped", "expired"}

Init ==
    /\ text = 0
    /\ closed = FALSE
    /\ tools = "none"
    /\ ending = "open"

Say ==
    /\ ending = "open" /\ ~closed
    /\ text' \in {text, text + 1}
    /\ UNCHANGED <<closed, tools, ending>>

\* The last words, then the held tool calls, then the finish.
Close ==
    /\ ending = "open" /\ ~closed
    /\ closed' = TRUE
    /\ text' \in {text, text + 1}
    /\ tools' \in {"none", "whole"}
    /\ UNCHANGED ending

End ==
    /\ ending = "open"
    /\ text' \in {text, text + 1}
    /\ UNCHANGED closed
    /\ \/ tools' = tools
       \/ ~closed /\ tools' = "half"
    /\ \/ ending' \in KeepsText
       \/ /\ ending' \in StartsOver
          /\ text' = 0 /\ tools' = "none" /\ ~closed
       \/ ending' = "dropped" /\ tools' = "half"

Next == Say \/ Close \/ End

Spec == Init /\ [][Next]_vars
=============================================================================

---------------------------- MODULE MCStreamRace ----------------------------
(* Instances of StreamRace.                                                *)
EXTENDS StreamRace

CONSTANTS next, later

OneNext == <<next>>
TwoNext == <<next, later>>
=============================================================================

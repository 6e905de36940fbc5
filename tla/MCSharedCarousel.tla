------------------------- MODULE MCSharedCarousel -------------------------
(* Instances of SharedCarousel.                                            *)
EXTENDS SharedCarousel

\* A patient profile and a strict one.
PatientAndStrict == [p \in Procs |-> IF p = CHOOSE q \in Procs : TRUE THEN 4 ELSE 2]
=============================================================================

----------------------------- MODULE MCInstance -----------------------------
(***************************************************************************)
(* The instances of Instance that TLC checks: two ULTs, one of which waits *)
(* for two requests at once.                                               *)
(***************************************************************************)
EXTENDS Instance

CONSTANTS t1, t2, a, b, c

MCRequests == [t \in Threads |-> IF t = t1 THEN <<a, b>> ELSE <<c>>]

=============================================================================

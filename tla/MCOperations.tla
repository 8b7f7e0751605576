---------------------------- MODULE MCOperations ----------------------------
(***************************************************************************)
(* The instance of Operations that TLC checks.                             *)
(***************************************************************************)
EXTENDS Operations, TLC

CONSTANTS t1, t2

(***************************************************************************)
(* Each body once, and each way to run one: mona_send and mona_isend do to *)
(* the caches what NB_OP does, on the other path mona_uisend what          *)
(* mona_uisend_mem does but for one buffer, and so on.                     *)
(***************************************************************************)
EachBody == {NB_OP, mona_uisend_mem, mona_recv, mona_uirecv, mona_uiprobe,
             mona_get, mona_iput, mona_msg_isend_expected}

(***************************************************************************)
(* Two calls run together; a call after those finds the caches as they     *)
(* have left them, and runs alone.                                         *)
(***************************************************************************)
Alone == \A t \in Threads : At(t, "idle")

MCNext == Next /\ (calls >= 2 /\ calls' > calls => Alone)

MCSpec == Init /\ [][MCNext]_vars

Symmetry == Permutations(Threads)

=============================================================================

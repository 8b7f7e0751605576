-------------------------- MODULE MCCommunicators --------------------------
(***************************************************************************)
(* The instance of Communicators that TLC checks: three processes on two   *)
(* nodes.                                                                  *)
(***************************************************************************)
EXTENDS Communicators

CONSTANTS p1, p2, p3, n1, n2

TwoNodes == [p \in {p1, p2, p3} |-> IF p = p3 THEN n2 ELSE n1]

(***************************************************************************)
(* A node in one piece and one in two, and a list with p1 twice, which is  *)
(* the caller or another and which p3 is not in.  The ranks make a pair    *)
(* that leaves the third process out.                                      *)
(***************************************************************************)
SomeLists == {<<p3, p1, p2>>, <<p1, p3, p2>>, <<p2, p1, p1>>}

SomeRanks == {<<1, 0>>}

(***************************************************************************)
(* Communicators are made and a mode changed before messages are sent.     *)
(* What the others can do to p1 is what all can do to each other: p1 alone *)
(* is sent messages, frees, and copies an address, that of p2.             *)
(***************************************************************************)
ExpectedMode ==
  {pc \in Procs \X (1..MaxCreated) :
     pc[2] \in DOMAIN comms[pc[1]] /\ ~ comms[pc[1]][pc[2]].use_unexpected_msg}

Others == Procs \ {p1}

MCNext ==
  /\ Next
  /\ sent > 0 => created' = created
  /\ \A q \in Others : net'[q] = net[q] /\ copies'[q] = << >>
  /\ copies'[p1] \in {<< >>, <<p2>>}
  /\ \A p \in Procs : \A c \in DOMAIN comms[p] :
       LET before == comms[p][c]
           after  == comms'[p][c] IN
       /\ before.use_unexpected_msg # after.use_unexpected_msg =>
            sent = 0 /\ ExpectedMode = {}
       /\ before.live # after.live => p = p1

MCSpec == Init /\ [][MCNext]_vars

=============================================================================

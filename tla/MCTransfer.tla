----------------------------- MODULE MCTransfer -----------------------------
(***************************************************************************)
(* The instances of Transfer that TLC checks: which ULTs run in which      *)
(* process, and what they may call.  Process A sends, process B receives.  *)
(***************************************************************************)
EXTENDS Transfer

CONSTANTS s1, s2, r1, r2, A, B

MCHome == [t \in Threads |-> IF t \in {s1, s2} THEN A ELSE B]

USend(peer, tag, large) ==
  [op |-> "send", path |-> "unexpected", peer |-> peer, tag |-> tag, large |-> large]
XSend(peer, tag, large) ==
  [op |-> "send", path |-> "expected", peer |-> peer, tag |-> tag, large |-> large]
URecv(peer, tag) ==
  [op |-> "recv", path |-> "unexpected", peer |-> peer, tag |-> tag]
XRecv(peer, tag) ==
  [op |-> "recv", path |-> "expected", peer |-> peer, tag |-> tag]

Calls(c1, c2, d1, d2) ==
  [t \in Threads |-> CASE t = s1 -> c1 [] t = s2 -> c2 [] t = r1 -> d1 [] t = r2 -> d2]

(***************************************************************************)
(* Small and large messages on both paths; no two ULTs use the same tag    *)
(* for an acknowledgement, so s1 and s2 have tags of their own.            *)
(***************************************************************************)
PlanDistinct ==
  [may |-> Calls({USend(B, 1, TRUE), XSend(B, 0, TRUE), XSend(B, 0, FALSE)},
                 {USend(B, 5, TRUE), USend(B, 1, FALSE)},
                 {URecv(AnyNode, 1), XRecv(A, 0)},
                 {URecv(A, 5), URecv(A, 1)}),
   calls |-> 2, failures |-> 1, matched |-> FALSE]

(***************************************************************************)
(* Two large messages, one on each path, and a receive for each.           *)
(***************************************************************************)
PlanMatched ==
  [may |-> Calls({USend(B, 1, TRUE)}, {XSend(B, 2, TRUE)},
                 {URecv(AnyNode, 1)}, {XRecv(A, 2)}),
   calls |-> 1, failures |-> 0, matched |-> TRUE]

(***************************************************************************)
(* Two ULTs send to the same peer with the same tag, as two mona_uisend    *)
(* calls do.                                                               *)
(***************************************************************************)
PlanSameTag ==
  [may |-> Calls({USend(B, 1, TRUE)}, {USend(B, 1, TRUE)},
                 {URecv(A, 1)}, {URecv(A, 1)}),
   calls |-> 1, failures |-> 0, matched |-> TRUE]

Planned == {PlanDistinct, PlanMatched}

ASSUME PlannedAssumption == \A p \in Planned : Distinct(p)

SameTag == {PlanSameTag}

=============================================================================

-------------------------- MODULE MCUnexpectedRecv --------------------------
(***************************************************************************)
(* The instances of UnexpectedRecv that TLC checks.  ULTs, sources and     *)
(* tags are model values.                                                  *)
(*                                                                         *)
(* What Bug_missed and Bug_iprobe show breaks the order and the liveness   *)
(* of the mailbox when ULTs with different wishes, or with probes, share   *)
(* an instance.  A usage says who calls what: "serial" is ULTs that do     *)
(* anything, one call at a time, "alike" several ULTs that receive         *)
(* whatever comes, and both keep clear of the findings; "free" restricts   *)
(* nothing.                                                                *)
(***************************************************************************)
EXTENDS UnexpectedRecv

CONSTANTS t1, t2, t3, s1, s2, a, b, Usages

VARIABLE usage

Keeps(u) ==
  \/ u = "free"
  \/ /\ u = "serial"
     /\ \A t, v \in Threads : pc[t] = "idle" \/ pc[v] = "idle" \/ t = v
     /\ \A m \in ToSet(arrived) : m.src = s1 \/ m.tag = a
  \/ /\ u = "alike"
     /\ failures = 0
     /\ \A t \in Threads :
          call[t] \in {NoCall, [kind |-> "urecv", src |-> AnySource, tag |-> AnyTag]}
     /\ \A m \in ToSet(arrived) : m = [src |-> s1, tag |-> a]

MCInit == Init /\ usage \in Usages
MCNext == Next /\ UNCHANGED usage /\ Keeps(usage)'

MCSpec     == MCInit /\ [][MCNext]_<<vars, usage>>
MCFairSpec == MCSpec /\ Fairness

=============================================================================

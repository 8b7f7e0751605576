--------------------------- MODULE InstanceProofs ---------------------------
(***************************************************************************)
(* Theorems about Instance, for every set of ULTs and every arrays of      *)
(* requests.                                                               *)
(***************************************************************************)
EXTENDS Instance, SequenceTheorems, TLAPS

(***************************************************************************)
(* No request is in two arrays, or twice in one.                           *)
(***************************************************************************)
LEMMA OneOwner ==
  ASSUME NEW t \in Threads, NEW u \in Threads,
         NEW i \in 1..Len(Requests[t]), NEW j \in 1..Len(Requests[u]),
         Requests[t][i] = Requests[u][j]
  PROVE  t = u /\ i = j
<1> DEFINE o == Requests[t][i]
<1>1. Requests[t] \in Seq(Ops) /\ Requests[u] \in Seq(Ops)
  BY InstanceAssumption
<1>2. DOMAIN Requests[t] = 1..Len(Requests[t]) /\ DOMAIN Requests[u] = 1..Len(Requests[u])
  BY <1>1, LenProperties
<1>3. o \in ToSet(Requests[t]) /\ o \in ToSet(Requests[u])
  BY <1>2 DEF ToSet
<1>4. t = u
  BY <1>3, InstanceAssumption
<1>5. i = j
  BY <1>2, <1>4, InstanceAssumption DEF IsInjective
<1> QED
  BY <1>4, <1>5

(***************************************************************************)
(* Every operation's request is in somebody's array.                       *)
(***************************************************************************)
LEMMA Owned ==
  ASSUME NEW o \in Ops
  PROVE  \E t \in Threads : \E i \in 1..Len(Requests[t]) : Requests[t][i] = o
<1>1. PICK t \in Threads : o \in ToSet(Requests[t])
  BY DEF Ops
<1>2. Requests[t] \in Seq(Ops)
  BY InstanceAssumption
<1>3. DOMAIN Requests[t] = 1..Len(Requests[t])
  BY <1>2, LenProperties
<1> QED
  BY <1>1, <1>3 DEF ToSet

(***************************************************************************)
(* What the arrays are made with are requests of operations.               *)
(***************************************************************************)
LEMMA RequestIsOp ==
  ASSUME NEW t \in Threads, NEW i \in 1..Len(Requests[t])
  PROVE  Requests[t][i] \in Ops
  BY InstanceAssumption, ElementOfSeq

-----------------------------------------------------------------------------
(***************************************************************************)
(* How far an operation can be.                                            *)
(***************************************************************************)
Stages == {"none", "created", "posted", "event", "called", "set", "freed"}

(***************************************************************************)
(* Types, and what the arrays of requests may hold: at each place the      *)
(* request that was put there, or MONA_REQUEST_NULL.                       *)
(***************************************************************************)
Entries ==
  \A t \in Threads :
    /\ Len(reqs[t]) = Len(Requests[t])
    /\ at[t] \in 1..(Len(Requests[t]) + 1)
    /\ \A i \in 1..Len(Requests[t]) : reqs[t][i] \in {Requests[t][i], Null}

Types ==
  /\ op \in [Ops \cup {Probe} -> Stages]
  /\ queue \in Seq(Ops \cup {Probe})
  /\ loop \in {"check", "trigger", "progress", "out"}
  /\ reqs \in [Threads -> Seq(Ops \cup {Null})]
  /\ at \in [Threads -> Nat]
  /\ pc \in [Threads -> {"issue", "scan", "done"}]
  /\ fin \in {"up", "cancel", "join", "freed"}
  /\ cancelled \in {"no", "yes", "failed"}
  /\ finalize_flag \in BOOLEAN
  /\ owns_progress_xstream \in BOOLEAN

TypeInv == Types /\ Entries

(***************************************************************************)
(* The types are kept by every step.                                       *)
(***************************************************************************)
LEMMA TypeInvariant == Spec => []TypeInv
<1>1. Init => TypeInv
  <2> SUFFICES ASSUME Init
               PROVE  TypeInv
    OBVIOUS
  <2>1. \A t \in Threads : Requests[t] \in Seq(Ops) /\ Len(Requests[t]) \in Nat
    BY InstanceAssumption, LenProperties
  <2>2. \A t \in Threads : Requests[t] \in Seq(Ops \cup {Null})
    BY <2>1
  <2>3. reqs \in [Threads -> Seq(Ops \cup {Null})]
    BY <2>2 DEF Init
  <2>4. queue \in Seq(Ops \cup {Probe})
    BY EmptySeq DEF Init
  <2>5. op \in [Ops \cup {Probe} -> Stages]
    BY DEF Init, Stages
  <2>6. Types
    BY <2>3, <2>4, <2>5 DEF Init, Types
  <2>7. Entries
    BY <2>1 DEF Init, Entries
  <2> QED
    BY <2>6, <2>7 DEF TypeInv
<1>2. TypeInv /\ [Next]_vars => TypeInv'
  <2> SUFFICES ASSUME TypeInv, [Next]_vars
               PROVE  TypeInv'
    OBVIOUS
  <2> USE DEF TypeInv, Types, Entries, Stages, app, main
  <2>0. \A t \in Threads : Len(Requests[t]) \in Nat
    BY InstanceAssumption, LenProperties
  <2>1. ASSUME NEW t \in Threads, Issue(t)
        PROVE  TypeInv'
    <3>1. /\ pc' \in [Threads -> {"issue", "scan", "done"}]
          /\ op' \in [Ops \cup {Probe} -> Stages]
      BY <2>1 DEF Issue
    <3>2. UNCHANGED <<queue, loop, reqs, main, owns_progress_xstream>>
      BY <2>1 DEF Issue
    <3>3. PICK x \in 1..(Len(Requests[t]) + 1) : at' = [at EXCEPT ![t] = x]
      <4>1. at[t] \in 1..(Len(Requests[t]) + 1) /\ Len(reqs[t]) = Len(Requests[t])
        OBVIOUS
      <4>2. CASE at[t] > Len(reqs[t])
        BY <2>0, <2>1, <4>1, <4>2 DEF Issue
      <4>3. CASE ~ (at[t] > Len(reqs[t]))
        <5>1. at' = [at EXCEPT ![t] = at[t] + 1]
          BY <2>1, <4>3 DEF Issue
        <5>2. at[t] + 1 \in 1..(Len(Requests[t]) + 1)
          BY <2>0, <4>1, <4>3
        <5> QED
          BY <5>1, <5>2
      <4> QED
        BY <4>2, <4>3
    <3> QED
      BY <2>0, <3>1, <3>2, <3>3
  <2>2. ASSUME NEW t \in Threads, Take(t)
        PROVE  TypeInv'
    <3> DEFINE i == at[t]
    <3>1. /\ i \in 1..Len(Requests[t])
          /\ op' = [op EXCEPT ![Here(t)] = "freed"]
          /\ reqs' = [reqs EXCEPT ![t][i] = Null]
          /\ at' = [at EXCEPT ![t] = 1]
          /\ UNCHANGED <<queue, loop, pc, main, owns_progress_xstream>>
      BY <2>0, <2>2 DEF Take
    <3>2. [reqs[t] EXCEPT ![i] = Null] \in Seq(Ops \cup {Null})
      BY <3>1, ExceptSeq
    <3>3. Len([reqs[t] EXCEPT ![i] = Null]) = Len(reqs[t])
      BY <3>1, ExceptSeq
    <3>4. reqs' \in [Threads -> Seq(Ops \cup {Null})]
      BY <3>1, <3>2
    <3>5. Types'
      BY <3>1, <3>4
    <3>6. ASSUME NEW u \in Threads
          PROVE  /\ Len(reqs'[u]) = Len(Requests[u])
                 /\ at'[u] \in 1..(Len(Requests[u]) + 1)
                 /\ \A j \in 1..Len(Requests[u]) : reqs'[u][j] \in {Requests[u][j], Null}
      <4>1. CASE u = t
        BY <2>0, <3>1, <3>3, <4>1
      <4>2. CASE u # t
        BY <2>0, <3>1, <4>2
      <4> QED
        BY <4>1, <4>2
    <3>7. Entries'
      BY <3>6
    <3> QED
      BY <3>5, <3>7
  <2>3. ASSUME NEW t \in Threads, Skip(t)
        PROVE  TypeInv'
    BY <2>0, <2>3 DEF Skip
  <2>4. ASSUME NEW t \in Threads, EndOfScan(t)
        PROVE  TypeInv'
    <3>1. pc' \in [Threads -> {"issue", "scan", "done"}]
      BY <2>4 DEF EndOfScan
    <3>2. UNCHANGED <<op, queue, loop, reqs, main, owns_progress_xstream>>
      BY <2>4 DEF EndOfScan
    <3>3. at' = at \/ at' = [at EXCEPT ![t] = 1]
      BY <2>4 DEF EndOfScan
    <3>4. Types'
      BY <3>1, <3>2, <3>3
    <3>5. Entries'
      <4>1. CASE at' = at
        BY <3>2, <4>1
      <4>2. CASE at' = [at EXCEPT ![t] = 1]
        BY <2>0, <3>2, <4>2
      <4> QED
        BY <3>3, <4>1, <4>2
    <3> QED
      BY <3>4, <3>5
  <2>5. ASSUME NEW o \in Ops, UltPosts(o)
        PROVE  TypeInv'
    BY <2>5 DEF UltPosts
  <2>6. ASSUME NEW o \in Ops, UltEnds(o)
        PROVE  TypeInv'
    BY <2>6 DEF UltEnds
  <2>7. ASSUME NEW o \in Ops \cup {Probe}, Completes(o)
        PROVE  TypeInv'
    <3>1. queue' \in Seq(Ops \cup {Probe})
      BY <2>7, AppendProperties DEF Completes
    <3> QED
      BY <2>7, <3>1 DEF Completes
  <2>8. CASE LoopTest
    BY <2>8 DEF LoopTest
  <2>9. CASE LoopTrigger
    <3>1. queue' \in Seq(Ops \cup {Probe})
      <4>1. CASE queue = << >>
        BY <2>9, <4>1 DEF LoopTrigger
      <4>2. CASE queue # << >>
        <5>1. queue' = Tail(queue)
          BY <2>9, <4>2 DEF LoopTrigger
        <5> QED
          BY <4>2, <5>1, HeadTailProperties
      <4> QED
        BY <4>1, <4>2
    <3> QED
      BY <2>9, <3>1 DEF LoopTrigger
  <2>10. CASE LoopProgress
    BY <2>10 DEF LoopProgress
  <2>11. CASE Cancel
    BY <2>11 DEF Cancel
  <2>12. CASE CancelFails
    BY <2>12 DEF CancelFails
  <2>13. CASE NoProbe
    BY <2>13 DEF NoProbe
  <2>14. CASE ProbeBack
    BY <2>14 DEF ProbeBack
  <2>15. CASE Free
    BY <2>15 DEF Free
  <2>16. CASE UNCHANGED vars
    BY <2>16 DEF vars
  <2> QED
    BY <2>1, <2>2, <2>3, <2>4, <2>5, <2>6, <2>7, <2>8, <2>9, <2>10, <2>11, <2>12,
       <2>13, <2>14, <2>15, <2>16 DEF Next, Scan, Ult, Loop, Main
<1> QED
  BY <1>1, <1>2, PTL DEF Spec

(***************************************************************************)
(* Every variable keeps its type: above all the scan of mona_wait_any      *)
(* stays in its array, and nothing but operations of this instance is      *)
(* queued for the callback.                                                *)
(***************************************************************************)
THEOREM InstanceTypes == Spec => []TypeOK
<1>1. TypeInv => TypeOK
  <2> SUFFICES ASSUME TypeInv
               PROVE  TypeOK
    OBVIOUS
  <2> USE DEF TypeInv, Types, Entries, Stages
  <2>1. ToSet(queue) \subseteq Ops \cup {Probe}
    BY ElementOfSeq, LenProperties DEF ToSet
  <2>2. \A t \in Threads : ToSet(reqs[t]) \subseteq Ops \cup {Null}
    BY ElementOfSeq, LenProperties DEF ToSet
  <2> QED
    BY <2>1, <2>2 DEF TypeOK
<1> QED
  BY <1>1, TypeInvariant, PTL

-----------------------------------------------------------------------------
(***************************************************************************)
(* The queue of completions holds each operation once, and none whose      *)
(* callback has run.                                                       *)
(***************************************************************************)
QueueInv ==
  /\ \A i, j \in 1..Len(queue) : queue[i] = queue[j] => i = j
  /\ \A i \in 1..Len(queue) : op[queue[i]] = "event"

(***************************************************************************)
(* Place by place in the arrays: a request is freed exactly when its place *)
(* is cleared, not started while its ULT has not come to it, and cleared   *)
(* when its ULT is done.                                                   *)
(***************************************************************************)
RequestInv ==
  \A t \in Threads : \A i \in 1..Len(Requests[t]) :
    /\ op[Requests[t][i]] = "freed" <=> reqs[t][i] = Null
    /\ pc[t] = "issue" /\ i >= at[t] => op[Requests[t][i]] = "none"
    /\ pc[t] = "done" => reqs[t][i] = Null

(***************************************************************************)
(* mona_finalize: a disciplined application has waited for everything; the *)
(* receive of the probe has come back before the flag is set; an execution *)
(* stream of MoNA's has ended with the ULTs in its pool.  (Nothing starts  *)
(* once mona_finalize is called.)                                          *)
(***************************************************************************)
FinalInv ==
  /\ Disciplined /\ fin # "up" => \A t \in Threads : pc[t] = "done"
  /\ fin \in {"join", "freed"} =>
       op[Probe] \in {"none", "freed"} \/ cancelled = "failed"
  /\ fin = "freed" /\ owns_progress_xstream =>
       \A o \in Ops \ Direct : op[o] \in {"none", "set", "freed"}

(***************************************************************************)
(* A step of an operation that NA or its ULT has under way.                *)
(***************************************************************************)
Advances(o, s) ==
  /\ op[o] \in {"created", "posted", "event", "called"}
  /\ s \in {"posted", "event", "called", "set"}
  /\ op' = [op EXCEPT ![o] = s]
  /\ UNCHANGED <<app, main, owns_progress_xstream>>

(***************************************************************************)
(* Such a step neither frees a request nor starts one, and takes the probe *)
(* only if mona_finalize has not had it back.                              *)
(***************************************************************************)
LEMMA AdvancesKeeps ==
  ASSUME TypeInv, RequestInv, FinalInv,
         NEW o \in Ops \cup {Probe}, NEW s, Advances(o, s)
  PROVE  RequestInv' /\ FinalInv'
<1> USE DEF TypeInv, Types, Entries, Stages, app, main
<1>1. RequestInv'
  BY RequestIsOp DEF RequestInv, Advances
<1>2. FinalInv'
  BY InstanceAssumption DEF FinalInv, Advances
<1> QED
  BY <1>1, <1>2

(***************************************************************************)
(* A step of one operation that is not queued leaves the queue as it is.   *)
(***************************************************************************)
LEMMA QueueKept ==
  ASSUME TypeInv, QueueInv, NEW o, op[o] # "event", NEW s,
         op' = [op EXCEPT ![o] = s], queue' = queue
  PROVE  QueueInv'
BY ElementOfSeq DEF TypeInv, Types, QueueInv

(***************************************************************************)
(* The inductive invariant: queue, requests and finalization, given the    *)
(* types.                                                                  *)
(***************************************************************************)
LEMMA InstanceInvariant == Spec => [](QueueInv /\ RequestInv /\ FinalInv)
<1>1. Init => QueueInv /\ RequestInv /\ FinalInv
  <2> SUFFICES ASSUME Init
               PROVE  QueueInv /\ RequestInv /\ FinalInv
    OBVIOUS
  <2>1. QueueInv
    BY EmptySeq DEF Init, QueueInv
  <2>2. RequestInv
    BY RequestIsOp, InstanceAssumption DEF Init, RequestInv
  <2>3. FinalInv
    BY DEF Init, FinalInv
  <2> QED
    BY <2>1, <2>2, <2>3
<1>2. TypeInv /\ QueueInv /\ RequestInv /\ FinalInv /\ [Next]_vars
        => (QueueInv /\ RequestInv /\ FinalInv)'
  <2> SUFFICES ASSUME TypeInv, QueueInv, RequestInv, FinalInv, [Next]_vars
               PROVE  (QueueInv /\ RequestInv /\ FinalInv)'
    OBVIOUS
  <2> USE DEF app, main
  <2>0. /\ \A t \in Threads : Len(reqs[t]) = Len(Requests[t]) /\ Len(Requests[t]) \in Nat
        /\ op \in [Ops \cup {Probe} -> Stages]
    BY InstanceAssumption, LenProperties DEF TypeInv, Types, Entries
  <2>1. ASSUME NEW t \in Threads, Issue(t)
        PROVE  (QueueInv /\ RequestInv /\ FinalInv)'
    <3>1. CASE at[t] > Len(reqs[t])
      <4>1. /\ op' = op /\ queue' = queue /\ reqs' = reqs /\ fin' = fin /\ cancelled' = cancelled
            /\ owns_progress_xstream' = owns_progress_xstream
            /\ pc[t] = "issue"
            /\ pc' = [pc EXCEPT ![t] = "scan"]
            /\ at' = [at EXCEPT ![t] = 1]
        BY <2>1, <3>1 DEF Issue
      <4>2. QueueInv'
        BY <4>1 DEF QueueInv
      <4>3. RequestInv'
        BY <4>1 DEF RequestInv, TypeInv, Types
      <4>4. FinalInv'
        BY <4>1 DEF FinalInv, TypeInv, Types
      <4> QED
        BY <4>2, <4>3, <4>4
    <3>2. CASE ~ (at[t] > Len(reqs[t]))
      <4> DEFINE i == at[t]
                 s == IF reqs[t][i] \in Direct THEN "posted" ELSE "created"
      <4>1. i \in 1..Len(Requests[t])
        BY <2>0, <3>2 DEF TypeInv, Types, Entries
      <4>2. /\ queue' = queue /\ reqs' = reqs /\ fin' = fin /\ cancelled' = cancelled
            /\ owns_progress_xstream' = owns_progress_xstream
            /\ pc[t] = "issue" /\ pc' = pc /\ fin = "up"
            /\ op' = [op EXCEPT ![reqs[t][i]] = s]
            /\ at' = [at EXCEPT ![t] = i + 1]
        BY <2>1, <3>2 DEF Issue
      <4>3. op[Requests[t][i]] = "none"
        BY <4>1, <4>2 DEF RequestInv
      <4>4. reqs[t][i] = Requests[t][i]
        BY <4>1, <4>3 DEF RequestInv, TypeInv, Entries
      <4>5. QueueInv'
        BY <4>2, <4>3, <4>4, QueueKept
      <4>6. ASSUME NEW u \in Threads, NEW j \in 1..Len(Requests[u])
            PROVE  /\ op'[Requests[u][j]] = "freed" <=> reqs'[u][j] = Null
                   /\ pc'[u] = "issue" /\ j >= at'[u] => op'[Requests[u][j]] = "none"
                   /\ pc'[u] = "done" => reqs'[u][j] = Null
        <5>1. /\ op[Requests[u][j]] = "freed" <=> reqs[u][j] = Null
              /\ pc[u] = "issue" /\ j >= at[u] => op[Requests[u][j]] = "none"
              /\ pc[u] = "done" => reqs[u][j] = Null
          BY DEF RequestInv
        <5>2. Requests[u][j] \in Ops /\ Requests[t][i] \in Ops
          BY <4>1, RequestIsOp
        <5>3. CASE Requests[u][j] = Requests[t][i]
          <6>1. u = t /\ j = i
            BY <4>1, <5>3, OneOwner
          <6>2. ~ (j >= at'[u])
            BY <4>2, <6>1 DEF TypeInv, Types
          <6>3. op'[Requests[u][j]] = s
            BY <2>0, <4>2, <4>4, <5>2, <5>3
          <6>4. reqs'[u][j] # Null /\ pc'[u] # "done"
            BY <4>2, <4>3, <5>1, <6>1
          <6> QED
            BY <6>2, <6>3, <6>4
        <5>4. CASE Requests[u][j] # Requests[t][i]
          <6>1. op'[Requests[u][j]] = op[Requests[u][j]]
            BY <2>0, <4>2, <4>4, <5>2, <5>4
          <6>2. j >= at'[u] => j >= at[u]
            BY <4>2 DEF TypeInv, Types
          <6> QED
            BY <4>2, <5>1, <6>1, <6>2
        <5> QED
          BY <5>3, <5>4
      <4>7. RequestInv'
        BY <4>6 DEF RequestInv
      <4>8. FinalInv'
        BY <4>2 DEF FinalInv
      <4> QED
        BY <4>5, <4>7, <4>8
    <3> QED
      BY <3>1, <3>2
  <2>2. ASSUME NEW t \in Threads, Take(t)
        PROVE  (QueueInv /\ RequestInv /\ FinalInv)'
    <3> DEFINE i == at[t]
    <3>1. /\ i \in 1..Len(Requests[t])
          /\ pc[t] = "scan" /\ pc' = pc
          /\ reqs[t][i] # Null /\ op[reqs[t][i]] = "set"
          /\ op' = [op EXCEPT ![reqs[t][i]] = "freed"]
          /\ reqs' = [reqs EXCEPT ![t][i] = Null]
          /\ queue' = queue /\ fin' = fin /\ cancelled' = cancelled
          /\ owns_progress_xstream' = owns_progress_xstream
      BY <2>0, <2>2 DEF Take, Here, TypeInv, Types, Entries
    <3>2. reqs[t][i] = Requests[t][i] /\ Requests[t][i] \in Ops
      BY <3>1, RequestIsOp DEF TypeInv, Entries
    <3>3. QueueInv'
      BY <3>1, QueueKept
    <3>4. ASSUME NEW u \in Threads, NEW j \in 1..Len(Requests[u])
          PROVE  /\ op'[Requests[u][j]] = "freed" <=> reqs'[u][j] = Null
                 /\ pc'[u] = "issue" /\ j >= at'[u] => op'[Requests[u][j]] = "none"
                 /\ pc'[u] = "done" => reqs'[u][j] = Null
      <4>1. /\ op[Requests[u][j]] = "freed" <=> reqs[u][j] = Null
            /\ pc[u] = "issue" /\ j >= at[u] => op[Requests[u][j]] = "none"
            /\ pc[u] = "done" => reqs[u][j] = Null
        BY DEF RequestInv
      <4>2. Requests[u][j] \in Ops
        BY RequestIsOp
      <4>3. u # t => at'[u] = at[u]
        BY <2>2 DEF Take, TypeInv, Types
      <4>4. CASE Requests[u][j] = Requests[t][i]
        <5>1. u = t /\ j = i
          BY <3>1, <4>4, OneOwner
        <5>2. op'[Requests[u][j]] = "freed"
          BY <2>0, <3>1, <3>2, <4>2, <4>4
        <5>3. reqs'[u][j] = Null
          BY <2>0, <3>1, <5>1, ExceptSeq DEF TypeInv, Types
        <5> QED
          BY <3>1, <5>1, <5>2, <5>3
      <4>5. CASE Requests[u][j] # Requests[t][i]
        <5>1. op'[Requests[u][j]] = op[Requests[u][j]]
          BY <2>0, <3>1, <3>2, <4>2, <4>5
        <5>2. ~ (u = t /\ j = i)
          BY <4>5
        <5>3. reqs'[u][j] = reqs[u][j]
          BY <2>0, <3>1, <5>2, ExceptSeq DEF TypeInv, Types
        <5> QED
          BY <3>1, <4>1, <4>3, <5>1, <5>3
      <4> QED
        BY <4>4, <4>5
    <3>5. RequestInv'
      BY <3>4 DEF RequestInv
    <3>6. FinalInv'
      BY <2>0, <3>1, <3>2, InstanceAssumption DEF FinalInv
    <3> QED
      BY <3>3, <3>5, <3>6
  <2>3. ASSUME NEW t \in Threads, Skip(t)
        PROVE  (QueueInv /\ RequestInv /\ FinalInv)'
    <3>1. /\ UNCHANGED <<op, queue, reqs, pc, fin, cancelled, owns_progress_xstream>>
          /\ pc[t] = "scan"
          /\ at' = [at EXCEPT ![t] = at[t] + 1]
      BY <2>3 DEF Skip
    <3>2. QueueInv'
      BY <3>1 DEF QueueInv
    <3>3. \A u \in Threads : pc[u] = "issue" => at'[u] = at[u]
      BY <3>1 DEF TypeInv, Types
    <3>4. RequestInv'
      BY <3>1, <3>3 DEF RequestInv
    <3>5. FinalInv'
      BY <3>1 DEF FinalInv
    <3> QED
      BY <3>2, <3>4, <3>5
  <2>4. ASSUME NEW t \in Threads, EndOfScan(t)
        PROVE  (QueueInv /\ RequestInv /\ FinalInv)'
    <3>1. /\ UNCHANGED <<op, queue, reqs, fin, cancelled, owns_progress_xstream>>
          /\ pc[t] = "scan"
      BY <2>4 DEF EndOfScan
    <3>2. QueueInv'
      BY <3>1 DEF QueueInv
    <3>3. CASE \E i \in 1..Len(reqs[t]) : reqs[t][i] # Null
      <4>1. pc' = pc /\ at' = [at EXCEPT ![t] = 1]
        BY <2>4, <3>3 DEF EndOfScan
      <4> QED
        BY <3>1, <3>2, <4>1 DEF RequestInv, FinalInv, TypeInv, Types
    <3>4. CASE ~ \E i \in 1..Len(reqs[t]) : reqs[t][i] # Null
      <4>1. at' = at /\ pc' = [pc EXCEPT ![t] = "done"]
        BY <2>4, <3>4 DEF EndOfScan
      <4>2. \A i \in 1..Len(Requests[t]) : reqs[t][i] = Null
        BY <2>0, <3>4
      <4> QED
        BY <3>1, <3>2, <4>1, <4>2 DEF RequestInv, FinalInv, TypeInv, Types
    <3> QED
      BY <3>3, <3>4
  <2>5. ASSUME NEW o \in Ops, UltPosts(o)
        PROVE  (QueueInv /\ RequestInv /\ FinalInv)'
    <3>1. Advances(o, "posted")
      BY <2>5 DEF UltPosts, Advances
    <3>2. QueueInv'
      BY <2>5, QueueKept DEF UltPosts
    <3> QED
      BY <3>1, <3>2, AdvancesKeeps
  <2>6. ASSUME NEW o \in Ops, UltEnds(o)
        PROVE  (QueueInv /\ RequestInv /\ FinalInv)'
    <3>1. Advances(o, "set")
      BY <2>6 DEF UltEnds, Advances
    <3>2. QueueInv'
      BY <2>6, QueueKept DEF UltEnds
    <3> QED
      BY <3>1, <3>2, AdvancesKeeps
  <2>7. ASSUME NEW o \in Ops \cup {Probe}, Completes(o)
        PROVE  (QueueInv /\ RequestInv /\ FinalInv)'
    <3>1. Advances(o, "event")
      BY <2>7 DEF Completes, Advances
    <3>2. /\ Len(queue) \in Nat
          /\ Len(queue') = Len(queue) + 1
          /\ \A i \in 1..Len(queue) : queue'[i] = queue[i]
          /\ queue'[Len(queue) + 1] = o
      BY <2>7, AppendProperties, LenProperties DEF Completes, TypeInv, Types
    <3>3. \A i \in 1..Len(queue) : queue[i] # o
      BY <2>7 DEF Completes, QueueInv
    <3>4. \A i \in 1..Len(queue) : op'[queue[i]] = "event"
      BY <3>3, <2>7, ElementOfSeq DEF Completes, QueueInv, TypeInv, Types
    <3>5. op'[o] = "event"
      BY <2>0, <2>7 DEF Completes
    <3>6. QueueInv'
      BY <3>2, <3>3, <3>4, <3>5 DEF QueueInv
    <3> QED
      BY <3>1, <3>6, AdvancesKeeps
  <2>8. CASE LoopTest
    BY <2>8 DEF LoopTest, QueueInv, RequestInv, FinalInv
  <2>9. CASE LoopTrigger
    <3>1. CASE queue = << >>
      BY <2>9, <3>1 DEF LoopTrigger, QueueInv, RequestInv, FinalInv
    <3>2. CASE queue # << >>
      <4> DEFINE o == Head(queue)
                 s == IF o \in Direct \cup {Probe} THEN "set" ELSE "called"
      <4>1. /\ o \in Ops \cup {Probe}
            /\ Len(queue) \in Nat \ {0} /\ o = queue[1]
            /\ Len(Tail(queue)) = Len(queue) - 1
            /\ \A i \in 1..Len(Tail(queue)) : Tail(queue)[i] = queue[i + 1]
        BY <3>2, HeadTailProperties, EmptySeq DEF TypeInv, Types
      <4>2. op[o] = "event"
        BY <4>1 DEF QueueInv
      <4>3. /\ op' = [op EXCEPT ![o] = s] /\ queue' = Tail(queue)
            /\ UNCHANGED <<app, main, owns_progress_xstream>>
        BY <2>9, <3>2 DEF LoopTrigger
      <4>4. Advances(o, s)
        BY <4>2, <4>3 DEF Advances
      <4>5. \A i \in 1..Len(queue') : queue'[i] = queue[i + 1] /\ i + 1 \in 2..Len(queue)
        BY <4>1, <4>3
      <4>6. \A i \in 2..Len(queue) : queue[i] # o /\ op[queue[i]] = "event"
        BY <4>1 DEF QueueInv
      <4>7. \A i \in 2..Len(queue) : op'[queue[i]] = "event"
        BY <4>3, <4>6, ElementOfSeq DEF TypeInv, Types
      <4>8. \A i, j \in 1..Len(queue') : queue'[i] = queue'[j] => i = j
        BY <4>1, <4>3, <4>5 DEF QueueInv
      <4>9. QueueInv'
        BY <4>5, <4>7, <4>8 DEF QueueInv
      <4> QED
        BY <4>1, <4>4, <4>9, AdvancesKeeps
    <3> QED
      BY <3>1, <3>2
  <2>10. CASE LoopProgress
    BY <2>10 DEF LoopProgress, QueueInv, RequestInv, FinalInv
  <2>11. CASE Cancel
    BY <2>11 DEF Cancel, MayFinalize, QueueInv, RequestInv, FinalInv
  <2>12. CASE CancelFails
    BY <2>12 DEF CancelFails, MayFinalize, QueueInv, RequestInv, FinalInv
  <2>13. CASE NoProbe
    BY <2>13 DEF NoProbe, ProbActive, MayFinalize, QueueInv, RequestInv, FinalInv
  <2>14. CASE ProbeBack
    <3>1. /\ op[Probe] = "set" /\ op' = [op EXCEPT ![Probe] = "freed"]
          /\ fin = "cancel" /\ fin' = "join"
          /\ UNCHANGED <<queue, app, cancelled, owns_progress_xstream>>
      BY <2>14 DEF ProbeBack
    <3>2. QueueInv'
      BY <3>1, QueueKept
    <3>3. RequestInv'
      BY <2>0, <3>1, RequestIsOp, InstanceAssumption DEF RequestInv
    <3>4. FinalInv'
      BY <2>0, <3>1 DEF FinalInv
    <3> QED
      BY <3>2, <3>3, <3>4
  <2>15. CASE Free
    <3>1. \A o \in Ops \ Direct : owns_progress_xstream => op[o] \in {"none", "set", "freed"}
      BY <2>0, <2>15 DEF Free, UltAlive, Stages
    <3> QED
      BY <2>15, <3>1 DEF Free, QueueInv, RequestInv, FinalInv
  <2>16. CASE UNCHANGED vars
    BY <2>16 DEF vars, QueueInv, RequestInv, FinalInv
  <2> QED
    BY <2>1, <2>2, <2>3, <2>4, <2>5, <2>6, <2>7, <2>8, <2>9, <2>10, <2>11, <2>12,
       <2>13, <2>14, <2>15, <2>16 DEF Next, Scan, Ult, Loop, Main
<1> QED
  BY <1>1, <1>2, TypeInvariant, PTL DEF Spec

(***************************************************************************)
(* mona_wait_any frees a request after its eventual is set, once, and      *)
(* clears the entry it hands back; NA has nothing queued for a request     *)
(* that is freed.                                                          *)
(***************************************************************************)
THEOREM RequestsFreedOnce == Spec => []FreedOnlyWhenSet
<1>1. TypeInv /\ QueueInv /\ RequestInv => FreedOnlyWhenSet
  <2> SUFFICES ASSUME TypeInv, QueueInv, RequestInv, NEW o \in Ops
               PROVE  op[o] = "freed" <=> ~ Held(o)
    BY DEF QueueInv, FreedOnlyWhenSet
  <2>1. PICK t \in Threads : \E i \in 1..Len(Requests[t]) : Requests[t][i] = o
    BY Owned
  <2>2. PICK i \in 1..Len(Requests[t]) : Requests[t][i] = o
    BY <2>1
  <2>3. \A u \in Threads : Len(reqs[u]) = Len(Requests[u])
    BY DEF TypeInv, Entries
  <2>4. op[o] = "freed" <=> reqs[t][i] = Null
    BY <2>2 DEF RequestInv
  <2>5. reqs[t][i] # Null => reqs[t][i] = o
    BY <2>2 DEF TypeInv, Entries
  <2>6. ASSUME NEW u \in Threads, NEW j \in 1..Len(reqs[u]), reqs[u][j] = o
        PROVE  reqs[t][i] = o
    <3>1. reqs[u][j] = Requests[u][j]
      BY <2>3, <2>6, InstanceAssumption DEF TypeInv, Entries
    <3>2. u = t /\ j = i
      BY <2>2, <2>3, <2>6, <3>1, OneOwner
    <3> QED
      BY <2>6, <3>2
  <2>7. Held(o) <=> reqs[t][i] = o
    BY <2>3, <2>6 DEF Held
  <2> QED
    BY <2>4, <2>5, <2>7, InstanceAssumption
<1> QED
  BY <1>1, TypeInvariant, InstanceInvariant, PTL

(***************************************************************************)
(* mona_finalize frees the instance when no operation is pending, if the   *)
(* application has its requests back, or if the execution stream is MoNA's *)
(* and every operation has a ULT in its pool.                              *)
(***************************************************************************)
THEOREM FinalizeSafe ==
  Spec => [](Disciplined \/ (owns_progress_xstream /\ Direct = {}) => FinalizeBlocks)
<1>1. TypeInv /\ RequestInv /\ FinalInv
        => (Disciplined \/ (owns_progress_xstream /\ Direct = {}) => FinalizeBlocks)
  <2> SUFFICES ASSUME TypeInv, RequestInv, FinalInv, fin = "freed",
                      Disciplined \/ (owns_progress_xstream /\ Direct = {})
               PROVE  /\ \A o \in Ops : op[o] \in {"none", "set", "freed"}
                      /\ op[Probe] \in {"none", "freed"} \/ cancelled = "failed"
    BY DEF FinalizeBlocks
  <2>1. op[Probe] \in {"none", "freed"} \/ cancelled = "failed"
    BY DEF FinalInv
  <2>2. CASE Disciplined
    <3>1. \A t \in Threads : pc[t] = "done"
      BY <2>2 DEF FinalInv
    <3>2. \A t \in Threads : \A i \in 1..Len(Requests[t]) : op[Requests[t][i]] = "freed"
      BY <3>1 DEF RequestInv
    <3> QED
      BY <2>1, <3>2, Owned
  <2>3. CASE owns_progress_xstream /\ Direct = {}
    BY <2>1, <2>3 DEF FinalInv
  <2> QED
    BY <2>2, <2>3
<1> QED
  BY <1>1, TypeInvariant, InstanceInvariant, PTL

=============================================================================

----------------------------- MODULE Schedules -----------------------------
(***************************************************************************)
(* The schedules of the collective operations (mona-barrier.c,             *)
(* mona-bcast.c, mona-reduce.c, mona-allreduce.c, mona-gather.c,           *)
(* mona-allgather.c, mona-scatter.c, mona-alltoall.c).                     *)
(*                                                                         *)
(* A collective is, for each rank, a sequence of steps that it derives     *)
(* from its rank r, the size n of the communicator, the root and the radix *)
(* k: post a receive, start a send, wait for either.  mona_comm_send is a  *)
(* send that is waited for at once, mona_comm_recv a receive that is;      *)
(* mona_comm_irecv and mona_comm_isend are waited for by mona_wait.        *)
(***************************************************************************)
EXTENDS Integers, SequencesExt

(***************************************************************************)
(* The part of the collective a step belongs to, "of", tells what is sent  *)
(* and where what is received goes.                                        *)
(***************************************************************************)
StepOf(do, p, of) == [do |-> do, peer |-> p, of |-> of]

Post(p, of)   == StepOf("post", p, of)
Await(p, of)  == StepOf("await", p, of)
Start(p, of)  == StepOf("start", p, of)
Finish(p, of) == StepOf("finish", p, of)

Send(p, of) == <<Start(p, of), Finish(p, of)>>
Recv(p, of) == <<Post(p, of), Await(p, of)>>

SendRecv(dst, src, of) ==
  <<Post(src, of), Start(dst, of), Finish(dst, of), Await(src, of)>>

(***************************************************************************)
(* "for (p = 1; p < n; p *= k)": the values of p, and how many turns the   *)
(* loop makes.                                                             *)
(***************************************************************************)
Strides(n, k) ==
  LET p[j \in 0..n] == IF j = 0 THEN 1 ELSE k * p[j - 1] IN p

Turns(n, k) == LET p == Strides(n, k) IN Min({j \in 0..n : p[j] >= n})

Relative(n, r, root) == (r - root + n) % n

(***************************************************************************)
(* The turn in which a rank leaves that loop: the first in which p * k     *)
(* does not divide it, and for k = 2 that of its lowest bit set; the root  *)
(* stays to the end.                                                       *)
(***************************************************************************)
Reached(n, k, rel) ==
  LET p == Strides(n, k) IN
  Min({j \in 0..n : p[j] >= n \/ rel % p[j + 1] # 0})

-----------------------------------------------------------------------------
(***************************************************************************)
(* The barrier is left one turn too early.                                 *)
(***************************************************************************)
BarrierSteps_(n, r) ==
  LET p == Strides(n, 2) IN
  FlattenSeq([i \in 1..(Turns(n, 2) - 1) |->
    SendRecv((r + p[i - 1]) % n, (r - p[i - 1] + n) % n, "barrier")])

BarrierSteps(n, r) ==
  LET p == Strides(n, 2) IN
  FlattenSeq([i \in 1..Turns(n, 2) |->
    SendRecv((r + p[i - 1]) % n, (r - p[i - 1] + n) % n, "barrier")])

(***************************************************************************)
(* The binomial tree: a rank receives in the turn of its lowest bit set    *)
(* and sends in those before, from the last to the first.                  *)
(***************************************************************************)
Above(n, r, root) ==
  (r - Strides(n, 2)[Reached(n, 2, Relative(n, r, root))] + n) % n

Receive(n, r, root) ==
  IF Relative(n, r, root) = 0 THEN << >> ELSE Recv(Above(n, r, root), "bcast")

(***************************************************************************)
(* Sends beyond the last rank wrap around to the first.                    *)
(***************************************************************************)
BcastSteps_(n, r, root) ==
  LET p   == Strides(n, 2)
      top == Reached(n, 2, Relative(n, r, root))
  IN  Receive(n, r, root)
        \o FlattenSeq([i \in 1..top |-> Send((r + p[top - i]) % n, "bcast")])

BcastSteps(n, r, root) ==
  LET p   == Strides(n, 2)
      rel == Relative(n, r, root)
      top == Reached(n, 2, rel)
  IN  Receive(n, r, root)
        \o FlattenSeq([i \in 1..top |->
             IF rel + p[top - i] < n THEN Send((r + p[top - i]) % n, "bcast")
             ELSE << >>])

(***************************************************************************)
(* The destination is not wrapped around.                                  *)
(***************************************************************************)
Parent_(n, rel, d, root) == rel - d + root

Parent(n, rel, d, root) == (rel - d + root) % n

(***************************************************************************)
(* The radix-k tree.  In turn j a rank that is a multiple of p * k         *)
(* receives from up to k - 1 others and combines in their order; any other *)
(* rank sends what it has and is done.                                     *)
(***************************************************************************)
FromChildren(n, k, r, root, j, do) ==
  LET rel == Relative(n, r, root)
      p   == Strides(n, k)[j - 1]
  IN  FlattenSeq([i \in 1..(k - 1) |->
        IF rel + i * p < n
        THEN <<StepOf(do, (rel + i * p + root) % n, "reduce")>> ELSE << >>])

ReduceSteps(n, k, r, root) ==
  LET p   == Strides(n, k)
      rel == Relative(n, r, root)
      top == Reached(n, k, rel)
  IN  FlattenSeq([j \in 1..top |->
        FromChildren(n, k, r, root, j, "post")
          \o FromChildren(n, k, r, root, j, "await")])
        \o IF p[top] >= n THEN << >>
           ELSE Send(Parent(n, rel, rel % p[top + 1], root), "reduce")

(***************************************************************************)
(* "for (i = 0; i < n; i++)", with nothing to do for some.                 *)
(***************************************************************************)
Each(n, do, except, of) ==
  FlattenSeq([i \in 1..n |->
    IF i - 1 \in except THEN << >> ELSE <<StepOf(do, i - 1, of)>>])

(***************************************************************************)
(* mona_comm_gather, and mona_comm_gatherv, which neither sends nor        *)
(* receives a block of size 0.                                             *)
(***************************************************************************)
GatherSteps(n, r, root, empty) ==
  IF r = root
  THEN Each(n, "post", {r} \cup empty, "gather")
         \o Each(n, "await", {r} \cup empty, "gather")
  ELSE IF r \in empty THEN << >> ELSE Send(root, "gather")

ScatterSteps(n, r, root) ==
  IF r = root
  THEN Each(n, "start", {r}, "scatter") \o Each(n, "finish", {r}, "scatter")
  ELSE Recv(root, "scatter")

(***************************************************************************)
(* The requests of the sends are not waited for.                           *)
(***************************************************************************)
AlltoallSteps_(n, r) ==
  Each(n, "post", {r}, "alltoall") \o Each(n, "start", {r}, "alltoall")
    \o Each(n, "await", {r}, "alltoall")

(***************************************************************************)
(* Every send is waited for before the receives are posted.                *)
(***************************************************************************)
AlltoallBlocking_(n, r) ==
  FlattenSeq([i \in 1..n |->
      IF i - 1 = r THEN << >> ELSE Send(i - 1, "alltoall")])
    \o Each(n, "post", {r}, "alltoall") \o Each(n, "await", {r}, "alltoall")

AlltoallSteps(n, r) ==
  Each(n, "post", {r}, "alltoall") \o Each(n, "start", {r}, "alltoall")
    \o Each(n, "await", {r}, "alltoall") \o Each(n, "finish", {r}, "alltoall")

(***************************************************************************)
(* allreduce is a reduce to rank 0 and a bcast from it; allgather(v) is a  *)
(* gather(v) to rank 0 and a bcast from it.                                *)
(***************************************************************************)
Schedule(n, k, r, c) ==
  CASE c.kind = "barrier"   -> BarrierSteps(n, r)
    [] c.kind = "bcast"     -> BcastSteps(n, r, c.root)
    [] c.kind = "reduce"    -> ReduceSteps(n, k, r, c.root)
    [] c.kind = "allreduce" -> ReduceSteps(n, k, r, 0) \o BcastSteps(n, r, 0)
    [] c.kind = "gather"    -> GatherSteps(n, r, c.root, c.empty)
    [] c.kind = "allgather" -> GatherSteps(n, r, 0, c.empty) \o BcastSteps(n, r, 0)
    [] c.kind = "scatter"   -> ScatterSteps(n, r, c.root)
    [] c.kind = "alltoall"  -> AlltoallSteps(n, r)

=============================================================================

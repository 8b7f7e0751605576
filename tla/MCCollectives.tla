--------------------------- MODULE MCCollectives ---------------------------
(***************************************************************************)
(* The programs of Collectives that TLC checks.                            *)
(***************************************************************************)
EXTENDS Collectives

Call(kind, root, large, inplace, empty) ==
  [kind |-> kind, root |-> root, large |-> large, inplace |-> inplace,
   empty |-> empty]

(***************************************************************************)
(* Kinds of calls that have no root are given root 0.                      *)
(***************************************************************************)
Barrier == Call("barrier", 0, FALSE, FALSE, {})

Rooted(n, kinds, large) ==
  {Call(k, r, large, FALSE, {}) : k \in kinds, r \in 0..(n - 1)}

Unrooted(kinds, large) == {Call(k, 0, large, FALSE, {}) : k \in kinds}

(***************************************************************************)
(* Two collectives of any kind one after the other, all small or all       *)
(* large; in one gather and one allgather rank 1 has nothing to send.  A   *)
(* barrier comes before and after barriers and small collectives.          *)
(***************************************************************************)
Varied(n, large) ==
  Rooted(n, {"bcast", "reduce", "gather", "scatter"}, large)
  \cup Unrooted({"allreduce", "allgather", "alltoall"}, large)
  \cup {Call(k, 0, large, FALSE, {1}) : k \in {"gather", "allgather"}}

Pairs(n) ==
  UNION {{<<a, b>> : a \in Varied(n, large),
                     b \in {c \in Varied(n, large) : c.root # 1}} :
           large \in BOOLEAN}
  \cup {<<Barrier, Barrier>>}
  \cup UNION {{<<Barrier, a>>, <<a, Barrier>>} :
              a \in {c \in Varied(n, FALSE) : c.root = 0 /\ c.empty = {}}}

(***************************************************************************)
(* One collective in a larger communicator: trees of several levels.       *)
(***************************************************************************)
Trees(n) ==
  {<<a>> : a \in Rooted(n, {"bcast", "reduce"}, TRUE)
                  \cup Unrooted({"allreduce"}, TRUE)
                  \cup {Call("reduce", n - 1, FALSE, TRUE, {})}}

(***************************************************************************)
(* With receives that share the queue of mona_urecv: calls that post one   *)
(* at a time, and, alone or one after the other, some that do not.         *)
(***************************************************************************)
Shared(n) ==
  {<<a, b>> : a, b \in {Call("bcast", 1, TRUE, FALSE, {}),
                        Call("scatter", 0, FALSE, FALSE, {}),
                        Call("allreduce", 0, TRUE, FALSE, {})}}
  \cup {<<a>> : a \in Rooted(n, {"gather"}, TRUE) \cup Unrooted({"alltoall"}, TRUE)
                        \cup Unrooted({"allgather"}, FALSE)}
  \cup {<<a, a>> : a \in Unrooted({"gather"}, FALSE) \cup Unrooted({"alltoall"}, TRUE)}

(***************************************************************************)
(* The larger communicators use mona_urecv, the default, but where radix 3 *)
(* makes a rank post two receives at once.                                 *)
(***************************************************************************)
Mixed(c) ==
  CASE c.size = 3 /\ c.radix = 2 -> IF c.unexpected THEN Shared(3) ELSE Pairs(3)
    [] c.size = 4 /\ c.unexpected -> {<<Barrier>>}
    [] c.size = 5 /\ (c.radix = 2 <=> c.unexpected) -> Trees(5)
    [] OTHER -> {}

=============================================================================

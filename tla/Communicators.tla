--------------------------- MODULE Communicators ---------------------------
(***************************************************************************)
(* Communicators (mona-comm.c): each process builds its own from a list of *)
(* addresses, and from then on names processes by their rank in that list. *)
(*                                                                         *)
(* A process is its address.  A process holds references on addresses: one *)
(* for each rank of each of its communicators, one for each message it has *)
(* taken from NA and not yet received, one for each copy it has asked for. *)
(* refs counts them, as NA_Addr_dup and NA_Addr_free do.  A message is the *)
(* address of its sender; its tag and its data are nothing to this module. *)
(***************************************************************************)
EXTENDS Integers, FiniteSets, SequencesExt

CONSTANTS
  Procs,         \* the processes
  Node,          \* the node each runs on: its address up to the last colon
  Lists,         \* the lists of addresses given to mona_comm_create
  RankLists,     \* the lists of ranks given to mona_comm_subset
  MaxCreated,    \* bound on the communicators made, by all processes
  MaxCopies,     \* bound on the copies of addresses a caller has at a time
  MaxSent,       \* bound on the messages sent
  MaxProbes,     \* bound on the probes that find a message
  MaxFailures    \* bound on the failures

ASSUME CommunicatorsAssumption ==
  /\ IsFiniteSet(Procs)
  /\ Lists \subseteq Seq(Procs)
  /\ RankLists \subseteq Seq(Nat)
  /\ {MaxCreated, MaxCopies, MaxSent, MaxProbes, MaxFailures} \subseteq Nat

VARIABLES
  comms,         \* the communicators of each process, freed ones included
  refs,          \* the references each process holds on each address
  copies,        \* the copies it got from mona_comm_addr, in order
  net,           \* messages to each process that NA has, on each path
  queue,         \* its queue of pending messages
  got,           \* what the last receive or probe reported, and to whom
  aborted,       \* processes that the allocator has stopped
  created, sent, probes, failures

bounds == <<created, sent, probes, failures>>
vars   == <<comms, refs, copies, net, queue, got, aborted, bounds>>

-----------------------------------------------------------------------------
(***************************************************************************)
(* setup_teams, one turn of its loop for each rank: a rank on another node *)
(* than the last node known leads that node, and the ranks of the caller's *)
(* node are its local team.  Ranks count from 0.                           *)
(***************************************************************************)
NoTeams == [known |-> << >>, i |-> 0, leaders |-> << >>, leaders_rank |-> 0,
            local |-> << >>, local_rank |-> 0, leader_rank |-> 0]

Turn(self, t, p, is_known) ==
  LET mine == Node[p] = Node[self] IN
  [known        |-> IF is_known THEN t.known ELSE Append(t.known, Node[p]),
   i            |-> t.i + 1,
   leaders      |-> IF is_known THEN t.leaders ELSE Append(t.leaders, p),
   leaders_rank |-> IF ~ is_known /\ p = self THEN Len(t.leaders) ELSE t.leaders_rank,
   local        |-> IF mine THEN Append(t.local, p) ELSE t.local,
   local_rank   |-> IF mine /\ p = self THEN Len(t.local) ELSE t.local_rank,
   leader_rank  |-> IF mine /\ ~ is_known THEN t.i ELSE t.leader_rank]

setup_teams_(self, all) ==       \* compares with the first node known
  FoldLeft(LAMBDA t, p : Turn(self, t, p, t.known # << >> /\ Head(t.known) = Node[p]),
           NoTeams, all)

setup_teams(self, all) ==
  FoldLeft(LAMBDA t, p : Turn(self, t, p, t.known # << >> /\ Last(t.known) = Node[p]),
           NoTeams, all)

(***************************************************************************)
(* The communicator: messages are unexpected ones until the caller says    *)
(* otherwise.                                                              *)
(***************************************************************************)
IndexOf(all, p) == (CHOOSE i \in DOMAIN all : all[i] = p) - 1

NewComm(self, all) ==
  [all |-> all, rank |-> IndexOf(all, self), teams |-> setup_teams(self, all),
   use_unexpected_msg |-> TRUE, live |-> TRUE]

Address(c, rank) == c.all[rank + 1]
Ranks(c) == 0 .. Len(c.all) - 1

ANY == -1                        \* MONA_ANY_SOURCE
NotSet == -2                     \* *actual_src as the caller left it

Nothing == [by |-> "nobody"]

Init ==
  /\ comms = [p \in Procs |-> << >>]
  /\ refs = [p \in Procs |-> [a \in Procs |-> 0]]
  /\ copies = [p \in Procs |-> << >>]
  /\ net = [p \in Procs |-> [unexpected |-> << >>, expected |-> << >>]]
  /\ queue = [p \in Procs |-> << >>]
  /\ got = Nothing
  /\ aborted = {}
  /\ created = 0
  /\ sent = 0
  /\ probes = 0
  /\ failures = 0

Fails == failures < MaxFailures /\ failures' = failures + 1

(***************************************************************************)
(* References on the addresses of a list are taken and dropped.            *)
(***************************************************************************)
Times(s, a)   == Cardinality({i \in DOMAIN s : s[i] = a})
Dup(r, s)     == [a \in Procs |-> r[a] + Times(s, a)]
Release(r, s) == [a \in Procs |-> r[a] - Times(s, a)]
First(s, n)   == SubSeq(s, 1, n)

-----------------------------------------------------------------------------
(***************************************************************************)
(* mona_comm_create copies the addresses one by one, and leaves when it    *)
(* meets itself twice, having copied that one too; then it looks for       *)
(* itself, and for an address that is there twice.                         *)
(***************************************************************************)
Again(p, peers) ==
  {i \in DOMAIN peers : peers[i] = p /\ \E j \in 1..(i - 1) : peers[j] = p}

Copied(p, peers) ==
  IF Again(p, peers) = {} THEN Len(peers)
  ELSE CHOOSE i \in Again(p, peers) : \A j \in Again(p, peers) : i <= j

Acceptable_(p, peers) ==         \* another may be there twice
  p \in ToSet(peers) /\ Again(p, peers) = {}

Acceptable(p, peers) == p \in ToSet(peers) /\ IsInjective(peers)

(***************************************************************************)
(* The second time it meets itself it does not count the copy.             *)
(***************************************************************************)
Rollback_(p, peers) ==
  LET n == Copied(p, peers) IN
  Release(Dup(refs[p], First(peers, n)),
          First(peers, IF Again(p, peers) = {} THEN n ELSE n - 1))

Rollback(p, peers) ==
  LET n == Copied(p, peers) IN
  Release(Dup(refs[p], First(peers, n)), First(peers, n))

mona_comm_create(p, peers) ==
  /\ p \notin aborted
  /\ created < MaxCreated
  /\ created' = created + 1
  /\ peers # << >>
  /\ \/ /\ Acceptable(p, peers)
        /\ refs' = [refs EXCEPT ![p] = Dup(@, peers)]
        /\ comms' = [comms EXCEPT ![p] = Append(@, NewComm(p, peers))]
        /\ UNCHANGED <<failures, aborted>>
     \/ /\ ~ Acceptable(p, peers)
        /\ refs' = [refs EXCEPT ![p] = Rollback(p, peers)]
        /\ UNCHANGED <<comms, failures, aborted>>
     \/ \E n \in 0 .. Copied(p, peers) - 1 :         \* an address is not copied
          /\ Fails
          /\ refs' = [refs EXCEPT ![p] = Release(Dup(@, First(peers, n)),
                                                 First(peers, n))]
          /\ UNCHANGED <<comms, aborted>>
     \/ /\ Acceptable(p, peers)                      \* setup_teams fails
        /\ Fails
        /\ refs' = [refs EXCEPT ![p] = Release(Dup(@, peers), peers)]
        /\ aborted' \in {aborted, aborted \cup {p}}  \* it reallocates what it freed
        /\ UNCHANGED comms
  /\ UNCHANGED <<copies, net, queue, got, sent, probes>>

Create(p) == \E peers \in Lists : mona_comm_create(p, peers)

Live(p) == {c \in DOMAIN comms[p] : p \notin aborted /\ comms[p][c].live}

(***************************************************************************)
(* A duplicate and a subset are made from the addresses, so neither has    *)
(* the mode of its parent.  Ranks are not checked; a correct program gives *)
(* some that exist.                                                        *)
(***************************************************************************)
mona_comm_dup(p) ==
  \E c \in Live(p) : mona_comm_create(p, comms[p][c].all)

mona_comm_subset(p) ==
  \E c \in Live(p) : \E ranks \in RankLists :
    /\ Len(ranks) <= Len(comms[p][c].all)
    /\ ToSet(ranks) \subseteq Ranks(comms[p][c])
    /\ mona_comm_create(p, [i \in DOMAIN ranks |-> Address(comms[p][c], ranks[i])])

mona_comm_set_use_unexpected_msg(p) ==
  \E c \in Live(p) : \E flag \in BOOLEAN :
    /\ comms' = [comms EXCEPT ![p][c].use_unexpected_msg = flag]
    /\ UNCHANGED <<refs, copies, net, queue, got, aborted, bounds>>

mona_comm_free(p) ==
  \E c \in Live(p) :
    /\ refs' = [refs EXCEPT ![p] = Release(@, comms[p][c].all)]
    /\ comms' = [comms EXCEPT ![p][c].live = FALSE]
    /\ UNCHANGED <<copies, net, queue, got, aborted, bounds>>

(***************************************************************************)
(* With copy = FALSE the caller gets the communicator's own reference.     *)
(***************************************************************************)
mona_comm_addr(p) ==
  \E c \in Live(p) : \E rank \in Ranks(comms[p][c]) :
    LET a == Address(comms[p][c], rank) IN
    /\ Len(copies[p]) < MaxCopies
    /\ copies' = [copies EXCEPT ![p] = Append(@, a)]
    /\ refs' = [refs EXCEPT ![p] = Dup(@, <<a>>)]
    /\ UNCHANGED <<comms, net, queue, got, aborted, bounds>>

mona_addr_free(p) ==
  /\ p \notin aborted
  /\ copies[p] # << >>
  /\ refs' = [refs EXCEPT ![p] = Release(@, <<Head(copies[p])>>)]
  /\ copies' = [copies EXCEPT ![p] = Tail(@)]
  /\ UNCHANGED <<comms, net, queue, got, aborted, bounds>>

-----------------------------------------------------------------------------
(***************************************************************************)
(* The communicator chooses the path, by the mode it is in.                *)
(***************************************************************************)
Path(comm) == IF comm.use_unexpected_msg THEN "unexpected" ELSE "expected"

mona_comm_send(p) ==
  \E c \in Live(p) : \E dest \in Ranks(comms[p][c]) :
    /\ sent < MaxSent
    /\ sent' = sent + 1
    /\ net' = [net EXCEPT ![Address(comms[p][c], dest)][Path(comms[p][c])]
                            = Append(@, p)]
    /\ UNCHANGED <<comms, refs, copies, queue, got, aborted, created, probes, failures>>

(***************************************************************************)
(* The rank a communicator has for the sender of a message: that of the    *)
(* first address that compares equal, else MONA_ANY_SOURCE.                *)
(***************************************************************************)
RankOf_(comm, a) ==              \* the loop leaves out the last rank
  IF a \in ToSet(Front(comm.all)) THEN IndexOf(comm.all, a) ELSE ANY

RankOf(comm, a) ==
  IF a \in ToSet(comm.all) THEN IndexOf(comm.all, a) ELSE ANY

(***************************************************************************)
(* The caller names a source or takes any, and may want to know which.     *)
(* The address is asked for only when it has named none and wants it.      *)
(***************************************************************************)
Queries(p) ==
  UNION {[comm : {comms[p][c]}, src : {ANY} \cup Ranks(comms[p][c]), wanted : BOOLEAN] :
           c \in Live(p)}

Asks(q) == q.src = ANY /\ q.wanted

Matching(q, s) == {i \in DOMAIN s : q.src = ANY \/ s[i] = Address(q.comm, q.src)}

Report(p, q, a) ==
  got' = [by |-> p, all |-> q.comm.all, from |-> a, asked |-> Asks(q),
          actual_src |-> IF Asks(q) THEN RankOf(q.comm, a) ELSE NotSet]

(***************************************************************************)
(* A receive of an unexpected message.  One of the queue comes first: its  *)
(* reference is copied, the entry dropped, and the copy dropped in turn by *)
(* mona_urecv or, when it asks for the address, by mona_comm_recv.  One    *)
(* from NA comes with a reference taken by mona_callback, as do those      *)
(* before it, which do not match and go to the queue.                      *)
(***************************************************************************)
RecvQueued(p) ==
  \E q \in Queries(p) :
    LET hits == Matching(q, queue[p])
        i == Min(hits)
        a == queue[p][i] IN
    /\ q.comm.use_unexpected_msg
    /\ hits # {}
    /\ queue' = [queue EXCEPT ![p] = RemoveAt(@, i)]
    /\ refs' = [refs EXCEPT ![p] = Release(Dup(@, <<a>>), <<a, a>>)]
    /\ Report(p, q, a)
    /\ UNCHANGED <<comms, copies, net, aborted, bounds>>

RecvNew(p) ==
  \E q \in Queries(p) :
    LET new == net[p].unexpected
        hits == Matching(q, new)
        i == Min(hits) IN
    /\ q.comm.use_unexpected_msg
    /\ Matching(q, queue[p]) = {}
    /\ hits # {}
    /\ net' = [net EXCEPT ![p].unexpected = SubSeq(@, i + 1, Len(@))]
    /\ queue' = [queue EXCEPT ![p] = @ \o First(new, i - 1)]
    /\ refs' = [refs EXCEPT ![p] = Release(Dup(@, First(new, i)), <<new[i]>>)]
    /\ Report(p, q, new[i])
    /\ UNCHANGED <<comms, copies, aborted, bounds>>

(***************************************************************************)
(* In the other mode a source must be named, and actual_src stays as the   *)
(* caller left it.                                                         *)
(***************************************************************************)
RecvExpected(p) ==
  \E q \in Queries(p) :
    LET hits == Matching(q, net[p].expected) IN
    /\ ~ q.comm.use_unexpected_msg
    /\ q.src # ANY
    /\ hits # {}
    /\ net' = [net EXCEPT ![p].expected = RemoveAt(@, Min(hits))]
    /\ Report(p, q, Address(q.comm, q.src))
    /\ UNCHANGED <<comms, refs, copies, queue, aborted, bounds>>

mona_comm_recv(p) == RecvQueued(p) \/ RecvNew(p) \/ RecvExpected(p)

(***************************************************************************)
(* A probe that finds its message in the queue copies the reference, and   *)
(* mona_comm_iprobe drops the copy only when it has asked for it: without  *)
(* a place to put the address mona_uiprobe forgets its copy.  One that     *)
(* does not takes the oldest message from NA, puts it in the queue and     *)
(* reports nothing; mona_comm_probe repeats it until it finds one.         *)
(***************************************************************************)
ProbeQueued(p) ==
  \E q \in Queries(p) :
    LET hits == Matching(q, queue[p])
        a == queue[p][Min(hits)] IN
    /\ q.comm.use_unexpected_msg
    /\ hits # {}
    /\ probes < MaxProbes
    /\ probes' = probes + 1
    /\ refs' = [refs EXCEPT ![p] =
                   IF Asks(q) THEN Release(Dup(@, <<a>>), <<a>>)
                   ELSE Dup(@, <<a>>)]
    /\ Report(p, q, a)
    /\ UNCHANGED <<comms, copies, net, queue, aborted, created, sent, failures>>

ProbeNew(p) ==
  \E q \in Queries(p) :
    LET new == net[p].unexpected IN
    /\ q.comm.use_unexpected_msg
    /\ Matching(q, queue[p]) = {}
    /\ new # << >>
    /\ net' = [net EXCEPT ![p].unexpected = Tail(@)]
    /\ queue' = [queue EXCEPT ![p] = Append(@, Head(new))]
    /\ refs' = [refs EXCEPT ![p] = Dup(@, <<Head(new)>>)]
    /\ UNCHANGED <<comms, copies, got, aborted, bounds>>

mona_comm_iprobe(p) == ProbeQueued(p) \/ ProbeNew(p)

-----------------------------------------------------------------------------
Step(p) ==
  \/ Create(p) \/ mona_comm_dup(p) \/ mona_comm_subset(p) \/ mona_comm_free(p)
  \/ mona_comm_set_use_unexpected_msg(p)
  \/ mona_comm_addr(p) \/ mona_addr_free(p)
  \/ mona_comm_send(p) \/ mona_comm_recv(p) \/ mona_comm_iprobe(p)

Next == \E p \in Procs : Step(p)

Spec == Init /\ [][Next]_vars

-----------------------------------------------------------------------------
(***************************************************************************)
(* Types.  A communicator has each address once and its own among them.    *)
(***************************************************************************)
IsComm(p, c) ==
  /\ IsInjective(c.all) /\ ToSet(c.all) \subseteq Procs
  /\ c.rank \in Ranks(c) /\ Address(c, c.rank) = p
  /\ c.use_unexpected_msg \in BOOLEAN /\ c.live \in BOOLEAN

TypeOK ==
  /\ \A p \in Procs : \A c \in ToSet(comms[p]) : IsComm(p, c)
  /\ refs \in [Procs -> [Procs -> Nat]]
  /\ copies \in [Procs -> Seq(Procs)]
  /\ net \in [Procs -> [unexpected : Seq(Procs), expected : Seq(Procs)]]
  /\ queue \in [Procs -> Seq(Procs)]
  /\ aborted \subseteq Procs
  /\ {created, sent, probes, failures} \subseteq Nat

(***************************************************************************)
(* No address is freed while a communicator, a copy or a message of the    *)
(* queue needs it, whichever way mona_comm_create leaves and whatever the  *)
(* caller asked of a receive; and none is held for nothing but the one     *)
(* that a probe which finds a message may forget.                          *)
(***************************************************************************)
Needed(p, a) ==
  Cardinality({ci \in Live(p) \X (1..Cardinality(Procs)) :
                 LET all == comms[p][ci[1]].all IN ci[2] \in DOMAIN all /\ all[ci[2]] = a})
  + Times(copies[p], a) + Times(queue[p], a)

Held(p, a) == refs[p][a] - Needed(p, a)

RefsBalanced ==
  LET pairs == (Procs \ aborted) \X Procs IN
  /\ \A pa \in pairs : Held(pa[1], pa[2]) >= 0
  /\ MapThenSumSet(LAMBDA pa : Held(pa[1], pa[2]), pairs) <= probes

(***************************************************************************)
(* Processes that have made communicators over the same list agree on its  *)
(* teams, however the list goes from node to node: on the leaders, on who  *)
(* is local to a node and on the leader of that node, who is among the     *)
(* leaders.  Each finds itself in its local team, and a leader itself in   *)
(* the leaders.  There is one leader for a node when its ranks follow each *)
(* other; a node whose ranks do not has several.                           *)
(***************************************************************************)
Contiguous(all) ==
  \A i, j, k \in DOMAIN all :
    i < j /\ j < k /\ Node[all[i]] = Node[all[k]] => Node[all[j]] = Node[all[i]]

TeamsAgree ==
  \A p, q \in Procs : \A c \in ToSet(comms[p]), d \in ToSet(comms[q]) :
    c.all = d.all =>
      /\ c.teams.leaders = d.teams.leaders
      /\ Node[p] = Node[q] =>
           /\ c.teams.local = d.teams.local
           /\ c.teams.leader_rank = d.teams.leader_rank
      /\ LET leader == Address(c, c.teams.leader_rank) IN
         Node[leader] = Node[p] /\ leader \in ToSet(c.teams.leaders)
      /\ c.teams.local[c.teams.local_rank + 1] = p
      /\ p \in ToSet(c.teams.leaders) => c.teams.leaders[c.teams.leaders_rank + 1] = p
      /\ Contiguous(c.all) =>
           Len(c.teams.leaders) = Cardinality({Node[a] : a \in ToSet(c.all)})

(***************************************************************************)
(* A receive or a probe from any source that wants to know which reports   *)
(* the rank that the sender has in its own communicator over the same      *)
(* list, and MONA_ANY_SOURCE exactly when the sender is none of the list:  *)
(* a message does not say which communicator it was sent on.               *)
(***************************************************************************)
SourceRight ==
  got # Nothing /\ got.asked =>
    /\ got.actual_src = ANY <=> got.from \notin ToSet(got.all)
    /\ \A d \in ToSet(comms[got.from]) :
         d.all = got.all => got.actual_src = d.rank

=============================================================================

------------------------ MODULE CommunicatorsProofs ------------------------
(***************************************************************************)
(* Theorems about Communicators, for every set of processes and nodes,     *)
(* every list of addresses and every bound.                                *)
(***************************************************************************)
EXTENDS Communicators, SequenceLemmas, FiniteSetTheorems

(***************************************************************************)
(* A communicator has each address once, knows its own rank and has the    *)
(* teams that setup_teams makes of its addresses.                          *)
(***************************************************************************)
Comm ==
  [all : Seq(Procs), rank : Int,
   teams : {setup_teams(p, all) : p \in Procs, all \in Seq(Procs)},
   use_unexpected_msg : BOOLEAN, live : BOOLEAN]

Own(p, c) ==
  /\ p \in ToSet(c.all) /\ c.rank = IndexOf(c.all, p)
  /\ IsInjective(c.all)
  /\ c.teams = setup_teams(p, c.all)

CommInv ==
  /\ comms \in [Procs -> Seq(Comm)]
  /\ \A p \in Procs : \A i \in DOMAIN comms[p] : Own(p, comms[p][i])

(***************************************************************************)
(* Messages come from processes, wherever they are.                        *)
(***************************************************************************)
NetInv ==
  /\ net \in [Procs -> [unexpected : Seq(Procs), expected : Seq(Procs)]]
  /\ queue \in [Procs -> Seq(Procs)]

(***************************************************************************)
(* What was reported is what the communicator has for the sender.          *)
(***************************************************************************)
Right(g) ==
  g.asked =>
    /\ g.all \in Seq(Procs)
    /\ g.from \in Procs
    /\ g.actual_src = IF g.from \in ToSet(g.all) THEN IndexOf(g.all, g.from) ELSE ANY

SourceInv == CommInv /\ NetInv /\ (got # Nothing => Right(got))

-----------------------------------------------------------------------------
LEMMA IndexOfNat ==
  ASSUME NEW all \in Seq(Procs), NEW p \in ToSet(all)
  PROVE  IndexOf(all, p) \in Nat
<1>1. PICK j \in DOMAIN all : all[j] = p
  BY DEF ToSet
<1>2. DOMAIN all = 1..Len(all) /\ Len(all) \in Nat
  BY LenProperties
<1>3. (CHOOSE i \in DOMAIN all : all[i] = p) \in DOMAIN all
  BY <1>1
<1>4. QED
  BY <1>2, <1>3 DEF IndexOf

LEMMA SourceInvInit == Init => SourceInv
BY DEF Init, SourceInv, CommInv, NetInv

(***************************************************************************)
(* The communicator that mona_comm_create makes.                           *)
(***************************************************************************)
LEMMA CreateKeeps ==
  ASSUME CommInv, NEW p \in Procs, NEW peers \in Seq(Procs),
         mona_comm_create(p, peers)
  PROVE  CommInv'
<1>1. CASE comms' = comms
  BY <1>1 DEF CommInv
<1>2. CASE /\ Acceptable(p, peers)
           /\ comms' = [comms EXCEPT ![p] = Append(@, NewComm(p, peers))]
  <2> DEFINE new == NewComm(p, peers)
  <2>1. p \in ToSet(peers) /\ IsInjective(peers)
    BY <1>2 DEF Acceptable
  <2>2. IndexOf(peers, p) \in Int
    BY <2>1, IndexOfNat
  <2>3. new \in Comm /\ Own(p, new)
    BY <2>1, <2>2 DEF NewComm, Comm, Own
  <2> HIDE DEF new
  <2>4. comms[p] \in Seq(Comm)
    BY DEF CommInv
  <2>5. /\ Append(comms[p], new) \in Seq(Comm)
        /\ DOMAIN Append(comms[p], new) = 1..(Len(comms[p]) + 1)
        /\ DOMAIN comms[p] = 1..Len(comms[p])
        /\ Append(comms[p], new)[Len(comms[p]) + 1] = new
        /\ \A i \in DOMAIN comms[p] : Append(comms[p], new)[i] = comms[p][i]
    BY <2>3, <2>4, AppendProperties, LenProperties
  <2>6. comms' \in [Procs -> Seq(Comm)] /\ comms'[p] = Append(comms[p], new)
    BY <1>2, <2>5 DEF CommInv, new
  <2>7. ASSUME NEW q \in Procs, NEW i \in DOMAIN comms'[q]
        PROVE  Own(q, comms'[q][i])
    <3>1. CASE q # p
      BY <1>2, <2>7, <3>1 DEF CommInv
    <3>2. CASE q = p
      <4>1. i \in DOMAIN comms[p] \/ i = Len(comms[p]) + 1
        BY <2>4, <2>5, <2>6, <2>7, <3>2, LenProperties
      <4> QED
        BY <2>3, <2>5, <2>6, <3>2, <4>1 DEF CommInv
    <3> QED
      BY <3>1, <3>2
  <2> QED
    BY <2>6, <2>7 DEF CommInv
<1>3. QED
  BY <1>1, <1>2 DEF mona_comm_create

(***************************************************************************)
(* A mode that changes, and a communicator that is freed.                  *)
(***************************************************************************)
LEMMA FieldKeeps ==
  ASSUME CommInv, NEW p \in Procs, NEW c \in DOMAIN comms[p], NEW flag \in BOOLEAN,
         \/ comms' = [comms EXCEPT ![p][c].use_unexpected_msg = flag]
         \/ comms' = [comms EXCEPT ![p][c].live = flag]
  PROVE  CommInv'
<1>1. comms[p] \in Seq(Comm) /\ DOMAIN comms[p] = 1..Len(comms[p])
  BY LenProperties DEF CommInv
<1>2. comms[p][c] \in Comm /\ Own(p, comms[p][c])
  BY <1>1, ElementOfSeq DEF CommInv
<1>3. PICK new \in Comm :
        /\ new.all = comms[p][c].all /\ new.rank = comms[p][c].rank
        /\ new.teams = comms[p][c].teams
        /\ comms' = [comms EXCEPT ![p] = [@ EXCEPT ![c] = new]]
  <2>1. CASE comms' = [comms EXCEPT ![p][c].use_unexpected_msg = flag]
    <3> DEFINE new == [comms[p][c] EXCEPT !.use_unexpected_msg = flag]
    <3>1. /\ new \in Comm /\ new.all = comms[p][c].all /\ new.rank = comms[p][c].rank
          /\ new.teams = comms[p][c].teams
      BY <1>2 DEF Comm
    <3>2. comms' = [comms EXCEPT ![p] = [@ EXCEPT ![c] = new]]
      BY <2>1
    <3> QED
      BY <3>1, <3>2
  <2>2. CASE comms' = [comms EXCEPT ![p][c].live = flag]
    <3> DEFINE new == [comms[p][c] EXCEPT !.live = flag]
    <3>1. /\ new \in Comm /\ new.all = comms[p][c].all /\ new.rank = comms[p][c].rank
          /\ new.teams = comms[p][c].teams
      BY <1>2 DEF Comm
    <3>2. comms' = [comms EXCEPT ![p] = [@ EXCEPT ![c] = new]]
      BY <2>2
    <3> QED
      BY <3>1, <3>2
  <2> QED
    BY <2>1, <2>2
<1>4. Own(p, new)
  BY <1>2, <1>3 DEF Own
<1>5. /\ [comms[p] EXCEPT ![c] = new] \in Seq(Comm)
      /\ DOMAIN [comms[p] EXCEPT ![c] = new] = DOMAIN comms[p]
  BY <1>1, ExceptSeq
<1>6. comms' \in [Procs -> Seq(Comm)]
  BY <1>3, <1>5 DEF CommInv
<1>7. ASSUME NEW q \in Procs, NEW i \in DOMAIN comms'[q]
      PROVE  Own(q, comms'[q][i])
  <2>1. CASE q # p
    BY <1>3, <1>7, <2>1 DEF CommInv
  <2>2. CASE q = p
    BY <1>3, <1>4, <1>5, <1>7, <2>2 DEF CommInv
  <2> QED
    BY <2>1, <2>2
<1>8. QED
  BY <1>6, <1>7 DEF CommInv

(***************************************************************************)
(* What a receive or a probe reports.                                      *)
(***************************************************************************)
LEMMA QueryComm ==
  ASSUME CommInv, NEW p \in Procs, NEW q \in Queries(p)
  PROVE  /\ q.comm.all \in Seq(Procs)
         /\ q.src # ANY => q.src \in Ranks(q.comm) /\ Address(q.comm, q.src) \in Procs
<1>1. PICK c \in Live(p) : q \in [comm : {comms[p][c]},
                                  src : {ANY} \cup Ranks(comms[p][c]), wanted : BOOLEAN]
  BY DEF Queries
<1>2. comms[p] \in Seq(Comm) /\ c \in DOMAIN comms[p]
  BY <1>1 DEF CommInv, Live
<1>3. q.comm \in Comm /\ (q.src # ANY => q.src \in Ranks(q.comm))
  BY <1>1, <1>2, ElementOfSeq, LenProperties
<1>4. q.comm.all \in Seq(Procs)
  BY <1>3 DEF Comm
<1>5. ASSUME q.src \in Ranks(q.comm)
      PROVE  Address(q.comm, q.src) \in Procs
  <2>1. q.src + 1 \in 1..Len(q.comm.all)
    BY <1>4, <1>5, LenProperties DEF Ranks
  <2> QED
    BY <1>4, <2>1, ElementOfSeq DEF Address
<1>6. QED
  BY <1>3, <1>4, <1>5

LEMMA ReportRight ==
  ASSUME CommInv, NEW p \in Procs, NEW q \in Queries(p), NEW a \in Procs,
         Report(p, q, a)
  PROVE  got' # Nothing => Right(got')
<1>1. q.comm.all \in Seq(Procs)
  BY QueryComm
<1>2. QED
  BY <1>1 DEF Report, Right, RankOf

(***************************************************************************)
(* The first message that matches is one of the list, and from a process.  *)
(***************************************************************************)
LEMMA FirstMatch ==
  ASSUME NEW s \in Seq(Procs), NEW q, Matching(q, s) # {}
  PROVE  Min(Matching(q, s)) \in 1..Len(s) /\ s[Min(Matching(q, s))] \in Procs
<1>1. DOMAIN s = 1..Len(s) /\ Len(s) \in Nat
  BY LenProperties
<1>2. Matching(q, s) \in SUBSET Nat /\ Matching(q, s) \subseteq 1..Len(s)
  BY <1>1 DEF Matching
<1>3. Min(Matching(q, s)) \in 1..Len(s)
  BY <1>2, MinProperties
<1>4. QED
  BY <1>3, ElementOfSeq

LEMMA RecvQueuedKeeps ==
  ASSUME SourceInv, NEW p \in Procs, RecvQueued(p)
  PROVE  SourceInv'
<1>1. PICK q \in Queries(p) :
        /\ Matching(q, queue[p]) # {}
        /\ queue' = [queue EXCEPT ![p] = RemoveAt(@, Min(Matching(q, queue[p])))]
        /\ Report(p, q, queue[p][Min(Matching(q, queue[p]))])
        /\ UNCHANGED <<comms, net>>
  BY DEF RecvQueued
<1> DEFINE i == Min(Matching(q, queue[p]))
<1>2. queue[p] \in Seq(Procs)
  BY DEF SourceInv, NetInv
<1>3. i \in 1..Len(queue[p]) /\ queue[p][i] \in Procs
  BY <1>1, <1>2, FirstMatch
<1> HIDE DEF i
<1>4. RemoveAt(queue[p], i) \in Seq(Procs)
  BY <1>2, <1>3, RemoveAtProperties
<1>5. NetInv'
  BY <1>1, <1>4 DEF SourceInv, NetInv, i
<1>6. CommInv'
  BY <1>1 DEF SourceInv, CommInv
<1>7. got' # Nothing => Right(got')
  BY <1>1, <1>3, ReportRight DEF SourceInv, i
<1>8. QED
  BY <1>5, <1>6, <1>7 DEF SourceInv

LEMMA RecvNewKeeps ==
  ASSUME SourceInv, NEW p \in Procs, RecvNew(p)
  PROVE  SourceInv'
<1> DEFINE new == net[p].unexpected
<1>1. PICK q \in Queries(p) :
        LET i == Min(Matching(q, new)) IN
        /\ Matching(q, new) # {}
        /\ net' = [net EXCEPT ![p].unexpected = SubSeq(@, i + 1, Len(@))]
        /\ queue' = [queue EXCEPT ![p] = @ \o SubSeq(new, 1, i - 1)]
        /\ Report(p, q, new[i])
        /\ UNCHANGED comms
  BY DEF RecvNew, First
<1> DEFINE i == Min(Matching(q, new))
<1>2. new \in Seq(Procs) /\ queue[p] \in Seq(Procs) /\ net[p].expected \in Seq(Procs)
  BY DEF SourceInv, NetInv
<1>3. i \in 1..Len(new) /\ new[i] \in Procs
  BY <1>1, <1>2, FirstMatch
<1>4. /\ net' = [net EXCEPT ![p].unexpected = SubSeq(@, i + 1, Len(@))]
      /\ queue' = [queue EXCEPT ![p] = @ \o SubSeq(new, 1, i - 1)]
      /\ Report(p, q, new[i])
      /\ UNCHANGED comms
  BY <1>1
<1> HIDE DEF i
<1>5. SubSeq(new, i + 1, Len(new)) \in Seq(Procs) /\ SubSeq(new, 1, i - 1) \in Seq(Procs)
  BY <1>2, <1>3
<1>6. queue[p] \o SubSeq(new, 1, i - 1) \in Seq(Procs)
  BY <1>2, <1>5, ConcatProperties
<1>7. net' = [net EXCEPT ![p] = [@ EXCEPT !.unexpected = SubSeq(new, i + 1, Len(new))]]
  BY <1>4
<1>8. NetInv'
  BY <1>4, <1>5, <1>6, <1>7 DEF SourceInv, NetInv
<1>9. CommInv'
  BY <1>4 DEF SourceInv, CommInv
<1>10. got' # Nothing => Right(got')
  BY <1>3, <1>4, ReportRight DEF SourceInv
<1>11. QED
  BY <1>8, <1>9, <1>10 DEF SourceInv

LEMMA RecvExpectedKeeps ==
  ASSUME SourceInv, NEW p \in Procs, RecvExpected(p)
  PROVE  SourceInv'
<1> DEFINE old == net[p].expected
<1>1. PICK q \in Queries(p) :
        /\ q.src # ANY
        /\ Matching(q, old) # {}
        /\ net' = [net EXCEPT ![p].expected = RemoveAt(@, Min(Matching(q, old)))]
        /\ Report(p, q, Address(q.comm, q.src))
        /\ UNCHANGED <<comms, queue>>
  BY DEF RecvExpected
<1> DEFINE i == Min(Matching(q, old))
<1>2. old \in Seq(Procs) /\ net[p].unexpected \in Seq(Procs)
  BY DEF SourceInv, NetInv
<1>3. i \in 1..Len(old)
  BY <1>1, <1>2, FirstMatch
<1>4. net' = [net EXCEPT ![p] = [@ EXCEPT !.expected = RemoveAt(old, i)]]
  BY <1>1
<1> HIDE DEF i
<1>5. RemoveAt(old, i) \in Seq(Procs)
  BY <1>2, <1>3, RemoveAtProperties
<1>6. NetInv'
  BY <1>1, <1>4, <1>5 DEF SourceInv, NetInv
<1>7. CommInv'
  BY <1>1 DEF SourceInv, CommInv
<1>8. got' # Nothing => Right(got')
  BY <1>1, QueryComm, ReportRight DEF SourceInv
<1>9. QED
  BY <1>6, <1>7, <1>8 DEF SourceInv

LEMMA ProbeKeeps ==
  ASSUME SourceInv, NEW p \in Procs, mona_comm_iprobe(p)
  PROVE  SourceInv'
<1>1. CASE ProbeQueued(p)
  <2>1. PICK q \in Queries(p) :
          /\ Matching(q, queue[p]) # {}
          /\ Report(p, q, queue[p][Min(Matching(q, queue[p]))])
          /\ UNCHANGED <<comms, net, queue>>
    BY <1>1 DEF ProbeQueued
  <2>2. queue[p] \in Seq(Procs)
    BY DEF SourceInv, NetInv
  <2>3. queue[p][Min(Matching(q, queue[p]))] \in Procs
    BY <2>1, <2>2, FirstMatch
  <2>4. got' # Nothing => Right(got')
    BY <2>1, <2>3, ReportRight DEF SourceInv
  <2> QED
    BY <2>1, <2>4 DEF SourceInv, CommInv, NetInv
<1>2. CASE ProbeNew(p)
  <2> DEFINE new == net[p].unexpected
  <2>1. /\ new # << >>
        /\ net' = [net EXCEPT ![p].unexpected = Tail(@)]
        /\ queue' = [queue EXCEPT ![p] = Append(@, Head(new))]
        /\ UNCHANGED <<comms, got>>
    BY <1>2 DEF ProbeNew
  <2>2. new \in Seq(Procs) /\ queue[p] \in Seq(Procs) /\ net[p].expected \in Seq(Procs)
    BY DEF SourceInv, NetInv
  <2>3. Head(new) \in Procs /\ Tail(new) \in Seq(Procs)
    BY <2>1, <2>2, HeadTailProperties
  <2>4. Append(queue[p], Head(new)) \in Seq(Procs)
    BY <2>2, <2>3, AppendProperties
  <2>5. net' = [net EXCEPT ![p] = [@ EXCEPT !.unexpected = Tail(new)]]
    BY <2>1
  <2>6. NetInv'
    BY <2>1, <2>3, <2>4, <2>5 DEF SourceInv, NetInv
  <2> QED
    BY <2>1, <2>6 DEF SourceInv, CommInv
<1>3. QED
  BY <1>1, <1>2 DEF mona_comm_iprobe

LEMMA SendKeeps ==
  ASSUME SourceInv, NEW p \in Procs, mona_comm_send(p)
  PROVE  SourceInv'
<1>1. PICK c \in Live(p) : \E dest \in Ranks(comms[p][c]) :
        /\ net' = [net EXCEPT ![Address(comms[p][c], dest)][Path(comms[p][c])]
                                = Append(@, p)]
        /\ UNCHANGED <<comms, queue, got>>
  BY DEF mona_comm_send
<1>2. PICK dest \in Ranks(comms[p][c]) :
        /\ net' = [net EXCEPT ![Address(comms[p][c], dest)][Path(comms[p][c])]
                                = Append(@, p)]
        /\ UNCHANGED <<comms, queue, got>>
  BY <1>1
<1> DEFINE to == Address(comms[p][c], dest)
           path == Path(comms[p][c])
<1>3. \/ net' = [net EXCEPT ![to].unexpected = Append(@, p)]
      \/ net' = [net EXCEPT ![to].expected = Append(@, p)]
  BY <1>2 DEF Path
<1> HIDE DEF to, path
<1>4. CASE to \notin Procs
  BY <1>2, <1>3, <1>4 DEF SourceInv, CommInv, NetInv
<1>5. CASE to \in Procs
  <2>1. net[to].unexpected \in Seq(Procs) /\ net[to].expected \in Seq(Procs)
    BY <1>5 DEF SourceInv, NetInv
  <2>2. /\ Append(net[to].unexpected, p) \in Seq(Procs)
        /\ Append(net[to].expected, p) \in Seq(Procs)
    BY <2>1, AppendProperties
  <2>3. \/ net' = [net EXCEPT ![to] =
                     [@ EXCEPT !.unexpected = Append(net[to].unexpected, p)]]
        \/ net' = [net EXCEPT ![to] =
                     [@ EXCEPT !.expected = Append(net[to].expected, p)]]
    BY <1>3
  <2>4. NetInv'
    BY <1>2, <1>5, <2>2, <2>3 DEF SourceInv, NetInv
  <2> QED
    BY <1>2, <2>4 DEF SourceInv, CommInv
<1>6. QED
  BY <1>4, <1>5

-----------------------------------------------------------------------------
(***************************************************************************)
(* The list that a new communicator is made of.                            *)
(***************************************************************************)
LEMMA MadeOf ==
  ASSUME CommInv, NEW p \in Procs,
         Create(p) \/ mona_comm_dup(p) \/ mona_comm_subset(p)
  PROVE  \E peers \in Seq(Procs) : mona_comm_create(p, peers)
<1>1. CASE Create(p)
  BY <1>1, CommunicatorsAssumption DEF Create
<1>2. ASSUME NEW c \in Live(p)
      PROVE  comms[p][c].all \in Seq(Procs)
  <2>1. comms[p] \in Seq(Comm) /\ c \in DOMAIN comms[p]
    BY <1>2 DEF CommInv, Live
  <2>2. comms[p][c] \in Comm
    BY <2>1, ElementOfSeq, LenProperties
  <2> QED
    BY <2>2 DEF Comm
<1>3. CASE mona_comm_dup(p)
  BY <1>2, <1>3 DEF mona_comm_dup
<1>4. CASE mona_comm_subset(p)
  <2>1. PICK c \in Live(p), ranks \in RankLists :
          /\ ToSet(ranks) \subseteq Ranks(comms[p][c])
          /\ mona_comm_create(p,
               [i \in DOMAIN ranks |-> Address(comms[p][c], ranks[i])])
    BY <1>4 DEF mona_comm_subset
  <2> DEFINE all == comms[p][c].all
             peers == [i \in DOMAIN ranks |-> Address(comms[p][c], ranks[i])]
  <2>2. all \in Seq(Procs) /\ Len(all) \in Nat
    BY <1>2, LenProperties
  <2>3. ranks \in Seq(Nat) /\ DOMAIN ranks = 1..Len(ranks) /\ Len(ranks) \in Nat
    BY CommunicatorsAssumption, LenProperties
  <2>4. ASSUME NEW i \in DOMAIN ranks
        PROVE  Address(comms[p][c], ranks[i]) \in Procs
    <3>1. ranks[i] \in 0 .. Len(all) - 1
      BY <2>1 DEF ToSet, Ranks
    <3>2. ranks[i] + 1 \in 1..Len(all)
      BY <2>2, <3>1
    <3> QED
      BY <2>2, <3>2, ElementOfSeq DEF Address
  <2>5. peers \in Seq(Procs)
    BY <2>3, <2>4, IsASeq
  <2> QED
    BY <2>1, <2>5
<1>5. QED
  BY <1>1, <1>3, <1>4

(***************************************************************************)
(* mona_comm_create, whoever calls it, and the other calls that change a   *)
(* communicator.                                                           *)
(***************************************************************************)
LEMMA MakeKeeps ==
  ASSUME SourceInv, NEW p \in Procs,
         Create(p) \/ mona_comm_dup(p) \/ mona_comm_subset(p)
  PROVE  SourceInv'
<1>1. PICK peers \in Seq(Procs) : mona_comm_create(p, peers)
  BY MadeOf DEF SourceInv
<1>2. UNCHANGED <<net, queue, got>>
  BY <1>1 DEF mona_comm_create
<1>3. CommInv'
  BY <1>1, CreateKeeps DEF SourceInv
<1>4. QED
  BY <1>2, <1>3 DEF SourceInv, NetInv

LEMMA ChangeKeeps ==
  ASSUME SourceInv, NEW p \in Procs,
         mona_comm_set_use_unexpected_msg(p) \/ mona_comm_free(p)
  PROVE  SourceInv'
<1>1. /\ UNCHANGED <<net, queue, got>>
      /\ \E c \in DOMAIN comms[p] : \E flag \in BOOLEAN :
           \/ comms' = [comms EXCEPT ![p][c].use_unexpected_msg = flag]
           \/ comms' = [comms EXCEPT ![p][c].live = flag]
  BY DEF mona_comm_set_use_unexpected_msg, mona_comm_free, Live
<1>2. CommInv'
  BY <1>1, FieldKeeps DEF SourceInv
<1>3. QED
  BY <1>1, <1>2 DEF SourceInv, NetInv

LEMMA SourceInvNext == SourceInv /\ [Next]_vars => SourceInv'
<1> SUFFICES ASSUME SourceInv, [Next]_vars PROVE SourceInv'
  OBVIOUS
<1>1. CASE UNCHANGED vars
  BY <1>1 DEF vars, SourceInv, CommInv, NetInv
<1>2. ASSUME NEW p \in Procs, Step(p)
      PROVE  SourceInv'
  <2>1. CASE Create(p) \/ mona_comm_dup(p) \/ mona_comm_subset(p)
    BY <2>1, MakeKeeps
  <2>2. CASE mona_comm_set_use_unexpected_msg(p) \/ mona_comm_free(p)
    BY <2>2, ChangeKeeps
  <2>3. CASE mona_comm_addr(p) \/ mona_addr_free(p)
    BY <2>3 DEF mona_comm_addr, mona_addr_free, SourceInv, CommInv, NetInv
  <2>4. CASE mona_comm_send(p)
    BY <2>4, SendKeeps
  <2>5. CASE mona_comm_recv(p)
    BY <2>5, RecvQueuedKeeps, RecvNewKeeps, RecvExpectedKeeps DEF mona_comm_recv
  <2>6. CASE mona_comm_iprobe(p)
    BY <2>6, ProbeKeeps
  <2> QED
    BY <1>2, <2>1, <2>2, <2>3, <2>4, <2>5, <2>6 DEF Step
<1>3. QED
  BY <1>1, <1>2 DEF Next

LEMMA SourceInvImplies == SourceInv => SourceRight
<1> SUFFICES ASSUME SourceInv, got # Nothing, got.asked
             PROVE  /\ got.actual_src = ANY <=> got.from \notin ToSet(got.all)
                    /\ \A d \in ToSet(comms[got.from]) :
                         d.all = got.all => got.actual_src = d.rank
  BY DEF SourceRight
<1>1. /\ got.all \in Seq(Procs)
      /\ got.from \in Procs
      /\ got.actual_src = IF got.from \in ToSet(got.all)
                            THEN IndexOf(got.all, got.from) ELSE ANY
  BY DEF SourceInv, Right
<1>2. got.from \in ToSet(got.all) => IndexOf(got.all, got.from) # ANY
  BY <1>1, IndexOfNat DEF ANY
<1>3. ASSUME NEW d \in ToSet(comms[got.from]), d.all = got.all
      PROVE  got.actual_src = d.rank
  <2>1. PICK i \in DOMAIN comms[got.from] : d = comms[got.from][i]
    BY <1>3 DEF ToSet
  <2>2. Own(got.from, d)
    BY <1>1, <2>1 DEF SourceInv, CommInv
  <2> QED
    BY <1>1, <1>3, <2>2 DEF Own
<1>4. QED
  BY <1>1, <1>2, <1>3

(***************************************************************************)
(* A receive or a probe from any source reports the sender by the rank the *)
(* sender has in its own communicator over the same list, and as unknown   *)
(* exactly when it is not in the list (the loops of mona_comm_recv and     *)
(* mona_comm_iprobe over comm->all.addrs).                                 *)
(***************************************************************************)
THEOREM SourceReported == Spec => []SourceRight
<1>1. Init => SourceInv
  BY SourceInvInit
<1>2. SourceInv /\ [Next]_vars => SourceInv'
  BY SourceInvNext
<1>3. SourceInv => SourceRight
  BY SourceInvImplies
<1>4. QED
  BY <1>1, <1>2, <1>3, PTL DEF Spec

-----------------------------------------------------------------------------
(***************************************************************************)
(* How often an address is in a list: counts add up, and each way to make  *)
(* a list longer or shorter counts what it puts in or takes out.           *)
(***************************************************************************)
LEMMA SameCount ==
  ASSUME NEW S, NEW T, IsFiniteSet(S), NEW f \in [S -> T],
         \A x, y \in S : f[x] = f[y] => x = y,
         \A y \in T : \E x \in S : f[x] = y
  PROVE  IsFiniteSet(T) /\ Cardinality(T) = Cardinality(S)
<1>1. f \in Bijection(S, T)
  BY DEF Bijection, Injection, Surjection, IsInjective
<1>2. ExistsBijection(S, T)
  BY <1>1 DEF ExistsBijection
<1>3. QED
  BY <1>2, FS_Bijection

LEMMA TimesFinite ==
  ASSUME NEW S, NEW s \in Seq(S), NEW a
  PROVE  IsFiniteSet({i \in DOMAIN s : s[i] = a}) /\ Times(s, a) \in Nat
<1>1. Len(s) \in Nat /\ DOMAIN s = 1..Len(s)
  BY LenProperties
<1>2. IsFiniteSet(DOMAIN s)
  BY <1>1, FS_Interval
<1>3. IsFiniteSet({i \in DOMAIN s : s[i] = a})
  BY <1>2, FS_Subset
<1>4. QED
  BY <1>3, FS_CardinalityType DEF Times

LEMMA TimesEmpty ==
  ASSUME NEW a
  PROVE  Times(<< >>, a) = 0
<1>1. {i \in DOMAIN << >> : << >>[i] = a} = {}
  OBVIOUS
<1>2. QED
  BY <1>1, FS_EmptySet DEF Times

LEMMA TimesAppend ==
  ASSUME NEW S, NEW s \in Seq(S), NEW x \in S, NEW a
  PROVE  Times(Append(s, x), a) = Times(s, a) + IF x = a THEN 1 ELSE 0
<1> DEFINE I == {i \in DOMAIN s : s[i] = a}
           J == {i \in DOMAIN Append(s, x) : Append(s, x)[i] = a}
           n == Len(s) + 1
<1>1. /\ Len(s) \in Nat /\ DOMAIN s = 1..Len(s)
      /\ Append(s, x) \in Seq(S)
      /\ Len(Append(s, x)) = n
      /\ Append(s, x)[n] = x
      /\ \A j \in 1..Len(s) : Append(s, x)[j] = s[j]
  BY AppendElements, LenProperties
<1>2. DOMAIN Append(s, x) = 1..n
  BY <1>1, LenProperties
<1>3. IsFiniteSet(I)
  BY TimesFinite
<1>4. n \notin I /\ J = IF x = a THEN I \cup {n} ELSE I
  BY <1>1, <1>2
<1> HIDE DEF I, J, n
<1>5. Cardinality(I) \in Nat /\ Cardinality(I \cup {n}) = Cardinality(I) + 1
  BY <1>3, <1>4, FS_AddElement, FS_CardinalityType
<1>6. Cardinality(J) = Cardinality(I) + IF x = a THEN 1 ELSE 0
  BY <1>4, <1>5
<1>7. QED
  BY <1>6 DEF Times, I, J

LEMMA TimesOne ==
  ASSUME NEW x, NEW a
  PROVE  /\ Times(<<x>>, a) = IF x = a THEN 1 ELSE 0
         /\ Times(<<x, x>>, a) = IF x = a THEN 2 ELSE 0
<1>1. {i \in DOMAIN <<x>> : <<x>>[i] = a} = IF x = a THEN {1} ELSE {}
  OBVIOUS
<1>2. {i \in DOMAIN <<x, x>> : <<x, x>>[i] = a} = IF x = a THEN {1} \cup {2} ELSE {}
  <2> DEFINE s == <<x, x>>
  <2>1. DOMAIN s = 1..2 /\ s[1] = x /\ s[2] = x
    OBVIOUS
  <2> HIDE DEF s
  <2>2. \A i : i \in DOMAIN s <=> i = 1 \/ i = 2
    BY <2>1
  <2>3. {i \in DOMAIN s : s[i] = a} = IF x = a THEN {1} \cup {2} ELSE {}
    BY <2>1, <2>2
  <2> QED
    BY <2>3 DEF s
<1>3. IsFiniteSet({1}) /\ Cardinality({1}) = 1 /\ Cardinality({}) = 0
  BY FS_Singleton, FS_EmptySet
<1>4. Cardinality({1} \cup {2}) = 2
  BY <1>3, FS_AddElement
<1>5. QED
  BY <1>1, <1>2, <1>3, <1>4 DEF Times

LEMMA TimesConcat ==
  ASSUME NEW S, NEW s \in Seq(S), NEW t \in Seq(S), NEW a
  PROVE  Times(s \o t, a) = Times(s, a) + Times(t, a)
<1> DEFINE I == {i \in DOMAIN s : s[i] = a}
           J == {i \in DOMAIN t : t[i] = a}
           K == {i \in DOMAIN (s \o t) : (s \o t)[i] = a}
           L == {i \in K : i > Len(s)}
           f == [j \in J |-> j + Len(s)]
<1>1. /\ Len(s) \in Nat /\ DOMAIN s = 1..Len(s)
      /\ Len(t) \in Nat /\ DOMAIN t = 1..Len(t)
  BY LenProperties
<1>2. /\ s \o t \in Seq(S)
      /\ Len(s \o t) = Len(s) + Len(t)
      /\ \A i \in 1..(Len(s) + Len(t)) :
           (s \o t)[i] = IF i <= Len(s) THEN s[i] ELSE t[i - Len(s)]
  BY ConcatProperties
<1>3. DOMAIN (s \o t) = 1..(Len(s) + Len(t))
  BY <1>2, LenProperties
<1>4. IsFiniteSet(I) /\ IsFiniteSet(J)
  BY TimesFinite
<1>5. \A i : i \in K <=> i \in 1..(Len(s) + Len(t)) /\ (s \o t)[i] = a
  BY <1>3
<1>6. \A i : i \in I => i \in K /\ i <= Len(s)
  BY <1>1, <1>2, <1>5
<1>7. \A i \in K : i <= Len(s) => i \in I
  BY <1>1, <1>2, <1>5
<1>8. \A j \in J : j + Len(s) \in L
  BY <1>1, <1>2, <1>5
<1>9. \A i \in L : i - Len(s) \in J /\ i - Len(s) + Len(s) = i
  BY <1>1, <1>2, <1>5
<1>10. K \subseteq Nat /\ J \subseteq Nat
  BY <1>1, <1>5
<1> HIDE DEF I, J, K
<1>11. f \in [J -> L]
  BY <1>8
<1>12. \A x, y \in J : f[x] = f[y] => x = y
  BY <1>1, <1>10
<1>13. \A y \in L : \E x \in J : f[x] = y
  BY <1>9
<1> HIDE DEF f
<1>14. IsFiniteSet(L) /\ Cardinality(L) = Cardinality(J)
  BY <1>4, <1>11, <1>12, <1>13, SameCount
<1>15. K = I \cup L /\ I \cap L = {}
  <2>1. \A i \in K : i <= Len(s) \/ i > Len(s)
    BY <1>1, <1>10
  <2>2. \A i : ~ (i \in I /\ i \in L)
    <3>1. \A i \in L : i \in Nat /\ ~ (i <= Len(s))
      BY <1>1, <1>10
    <3> QED
      BY <1>6, <3>1
  <2>3. \A i : i \in K <=> i \in I \/ i \in L
    BY <1>6, <1>7, <2>1
  <2> HIDE DEF L
  <2>4. QED
    BY <2>2, <2>3
<1> HIDE DEF L
<1>16. Cardinality(I \cup L) = Cardinality(I) + Cardinality(L) - Cardinality(I \cap L)
  BY <1>4, <1>14, FS_Union
<1>17. Cardinality(I) \in Nat /\ Cardinality(J) \in Nat
  BY <1>4, FS_CardinalityType
<1>18. Cardinality(K) = Cardinality(I) + Cardinality(J)
  <2>1. Cardinality(I \cap L) = 0
    BY <1>15, FS_EmptySet
  <2> QED
    BY <1>14, <1>15, <1>16, <1>17, <2>1
<1>19. QED
  BY <1>18 DEF Times, I, J, K

LEMMA TimesRemoveAt ==
  ASSUME NEW S, NEW s \in Seq(S), NEW i \in 1..Len(s), NEW a
  PROVE  Times(s, a) = Times(RemoveAt(s, i), a) + IF s[i] = a THEN 1 ELSE 0
<1> DEFINE front == SubSeq(s, 1, i - 1)
           back  == SubSeq(s, i + 1, Len(s))
<1>1. Len(s) \in Nat /\ s[i] \in S
  BY LenProperties, ElementOfSeq
<1>2. front \in Seq(S) /\ back \in Seq(S)
  BY <1>1
<1>3. Append(front, s[i]) \in Seq(S)
  BY <1>1, <1>2, AppendProperties
<1>4. s = Append(front, s[i]) \o back
  <2>1. Append(front, s[i]) = SubSeq(s, 1, i)
    BY <1>1
  <2>2. SubSeq(s, 1, i) \o back = SubSeq(s, 1, Len(s))
    BY <1>1, ConcatAdjacentSubSeq
  <2>3. SubSeq(s, 1, Len(s)) = s
    BY SubSeqFull
  <2> QED
    BY <2>1, <2>2, <2>3
<1> HIDE DEF front, back
<1>5. Times(Append(front, s[i]) \o back, a) = Times(Append(front, s[i]), a) + Times(back, a)
  BY <1>2, <1>3, TimesConcat
<1>6. Times(Append(front, s[i]), a) = Times(front, a) + IF s[i] = a THEN 1 ELSE 0
  BY <1>1, <1>2, TimesAppend
<1>7. RemoveAt(s, i) = front \o back
  BY DEF RemoveAt, front, back
<1>8. Times(front \o back, a) = Times(front, a) + Times(back, a)
  BY <1>2, TimesConcat
<1>9. Times(front, a) \in Nat /\ Times(back, a) \in Nat
  BY <1>2, TimesFinite
<1>10. Times(s, a) = Times(Append(front, s[i]) \o back, a)
  BY <1>4
<1>11. QED
  BY <1>5, <1>6, <1>7, <1>8, <1>9, <1>10

LEMMA TimesTail ==
  ASSUME NEW S, NEW s \in Seq(S), s # << >>, NEW a
  PROVE  Times(s, a) = Times(Tail(s), a) + IF Head(s) = a THEN 1 ELSE 0
<1>1. Head(s) \in S /\ Tail(s) \in Seq(S) /\ s = <<Head(s)>> \o Tail(s)
  OBVIOUS
<1>2. <<Head(s)>> \in Seq(S)
  BY <1>1
<1>3. Times(<<Head(s)>> \o Tail(s), a) = Times(<<Head(s)>>, a) + Times(Tail(s), a)
  BY <1>1, <1>2, TimesConcat
<1>4. Times(Tail(s), a) \in Nat
  BY <1>1, TimesFinite
<1>5. Times(<<Head(s)>>, a) = IF Head(s) = a THEN 1 ELSE 0
  BY <1>1, TimesOne
<1>6. Times(s, a) = Times(<<Head(s)>> \o Tail(s), a)
  BY <1>1
<1>7. QED
  BY <1>3, <1>4, <1>5, <1>6

LEMMA TimesFirst ==
  ASSUME NEW S, NEW s \in Seq(S), NEW i \in 1..Len(s), NEW a
  PROVE  /\ First(s, i) \in Seq(S) /\ First(s, i - 1) \in Seq(S)
         /\ Times(First(s, i), a) = Times(First(s, i - 1), a) + IF s[i] = a THEN 1 ELSE 0
<1>1. Len(s) \in Nat /\ s[i] \in S
  BY LenProperties, ElementOfSeq
<1>2. /\ First(s, i) \in Seq(S) /\ First(s, i - 1) \in Seq(S)
      /\ First(s, i) = Append(First(s, i - 1), s[i])
  BY <1>1 DEF First
<1>3. QED
  BY <1>1, <1>2, TimesAppend

(***************************************************************************)
(* References taken and dropped again.                                     *)
(***************************************************************************)
LEMMA DupRelease ==
  ASSUME NEW r \in [Procs -> Nat], NEW s \in Seq(Procs)
  PROVE  Release(Dup(r, s), s) = r
<1>1. \A a \in Procs : Times(s, a) \in Nat
  BY TimesFinite
<1>2. \A a \in Procs : Release(Dup(r, s), s)[a] = r[a]
  BY <1>1 DEF Release, Dup
<1>3. Release(Dup(r, s), s) = [a \in Procs |-> Release(Dup(r, s), s)[a]]
  BY DEF Release
<1>4. r = [a \in Procs |-> r[a]]
  OBVIOUS
<1>5. QED
  BY <1>2, <1>3, <1>4

(***************************************************************************)
(* The ranks of an address in the live ones of a list of communicators.    *)
(***************************************************************************)
LiveOf(cs) == {c \in DOMAIN cs : cs[c].live}

Ranked(cs, a) ==
  {ci \in LiveOf(cs) \X (1..Cardinality(Procs)) :
     ci[2] \in DOMAIN cs[ci[1]].all /\ cs[ci[1]].all[ci[2]] = a}

(***************************************************************************)
(* What a process holds on an address beyond what it needs.                *)
(***************************************************************************)
Hold(r, cs, co, qu, a) ==
  r[a] - (Cardinality(Ranked(cs, a)) + Times(co, a) + Times(qu, a))

LEMMA HeldIs ==
  ASSUME NEW p \in Procs, NEW a \in Procs
  PROVE  /\ p \notin aborted =>
              Held(p, a) = Hold(refs[p], comms[p], copies[p], queue[p], a)
         /\ p \notin aborted' =>
              Held(p, a)' = Hold(refs'[p], comms'[p], copies'[p], queue'[p], a)
<1>1. ASSUME p \notin aborted
      PROVE  /\ Live(p) = LiveOf(comms[p])
             /\ Needed(p, a) = Cardinality(Ranked(comms[p], a)) + Times(copies[p], a)
                                 + Times(queue[p], a)
  <2>1. Live(p) = LiveOf(comms[p])
    BY <1>1 DEF Live, LiveOf
  <2>2. QED
    BY <2>1, Zenon DEF Needed, Ranked
<1>2. ASSUME p \notin aborted'
      PROVE  /\ Live(p)' = LiveOf(comms'[p])
             /\ Needed(p, a)' = Cardinality(Ranked(comms'[p], a)) + Times(copies'[p], a)
                                  + Times(queue'[p], a)
  <2>1. Live(p)' = LiveOf(comms'[p])
    BY <1>2 DEF Live, LiveOf
  <2>2. QED
    BY <2>1, Zenon DEF Needed, Ranked, Times
<1>3. QED
  BY <1>1, <1>2 DEF Held, Hold

LEMMA RankedFinite ==
  ASSUME NEW cs \in Seq(Comm), NEW a
  PROVE  IsFiniteSet(Ranked(cs, a)) /\ Cardinality(Ranked(cs, a)) \in Nat
<1>1. Len(cs) \in Nat /\ DOMAIN cs = 1..Len(cs)
  BY LenProperties
<1>2. IsFiniteSet(1..Len(cs))
  BY <1>1, FS_Interval
<1>3. LiveOf(cs) \in SUBSET (1..Len(cs))
  BY <1>1 DEF LiveOf
<1>4. IsFiniteSet(LiveOf(cs))
  BY <1>2, <1>3, FS_Subset
<1>5. Cardinality(Procs) \in Nat
  BY CommunicatorsAssumption, FS_CardinalityType
<1>6. IsFiniteSet(1..Cardinality(Procs))
  BY <1>5, FS_Interval
<1>7. IsFiniteSet(LiveOf(cs) \X (1..Cardinality(Procs)))
  BY <1>4, <1>6, FS_Product
<1>8. Ranked(cs, a) \in SUBSET (LiveOf(cs) \X (1..Cardinality(Procs)))
  BY DEF Ranked
<1>9. IsFiniteSet(Ranked(cs, a))
  BY <1>7, <1>8, FS_Subset
<1>10. QED
  BY <1>9, FS_CardinalityType

(***************************************************************************)
(* A communicator has no more ranks than there are processes.              *)
(***************************************************************************)
LEMMA RanksFit ==
  ASSUME NEW all \in Seq(Procs), IsInjective(all)
  PROVE  DOMAIN all \subseteq 1..Cardinality(Procs)
<1>1. Len(all) \in Nat /\ DOMAIN all = 1..Len(all) /\ all \in [1..Len(all) -> Procs]
  BY LenProperties
<1>2. all \in Injection(1..Len(all), Procs)
  BY <1>1 DEF Injection
<1>3. Cardinality(1..Len(all)) <= Cardinality(Procs)
  BY <1>2, CommunicatorsAssumption, FS_Injection
<1>4. Cardinality(1..Len(all)) = Len(all)
  BY <1>1, FS_Interval
<1>5. Cardinality(Procs) \in Nat
  BY CommunicatorsAssumption, FS_CardinalityType
<1>6. QED
  BY <1>1, <1>3, <1>4, <1>5

LEMMA RankedOf ==
  ASSUME NEW all \in Seq(Procs), IsInjective(all), NEW n, NEW a
  PROVE  LET own == {ci \in {n} \X (1..Cardinality(Procs)) :
                       ci[2] \in DOMAIN all /\ all[ci[2]] = a} IN
         IsFiniteSet(own) /\ Cardinality(own) = Times(all, a)
<1> DEFINE own == {ci \in {n} \X (1..Cardinality(Procs)) :
                     ci[2] \in DOMAIN all /\ all[ci[2]] = a}
           I == {i \in DOMAIN all : all[i] = a}
           f == [i \in I |-> <<n, i>>]
<1>1. IsFiniteSet(I)
  BY TimesFinite
<1>2. DOMAIN all \subseteq 1..Cardinality(Procs)
  BY RanksFit
<1>3. \A i \in I : <<n, i>> \in own
  BY <1>2
<1>4. \A ci \in own : ci[2] \in I /\ ci = <<n, ci[2]>>
  OBVIOUS
<1> HIDE DEF own, I
<1>5. f \in [I -> own]
  BY <1>3
<1>6. \A x, y \in I : f[x] = f[y] => x = y
  OBVIOUS
<1>7. \A y \in own : \E x \in I : f[x] = y
  BY <1>4
<1> HIDE DEF f
<1>8. IsFiniteSet(own) /\ Cardinality(own) = Cardinality(I)
  BY <1>1, <1>5, <1>6, <1>7, SameCount
<1>9. QED
  BY <1>8 DEF own, I, Times

(***************************************************************************)
(* One more live communicator, or the same ones.                           *)
(***************************************************************************)
OneMore(cs, ds, n) ==
  /\ n \notin LiveOf(cs) /\ LiveOf(ds) = LiveOf(cs) \cup {n}
  /\ \A c \in LiveOf(cs) : ds[c].all = cs[c].all
  /\ IsInjective(ds[n].all)

LEMMA RankedMore ==
  ASSUME NEW cs \in Seq(Comm), NEW ds \in Seq(Comm), NEW n, NEW a,
         OneMore(cs, ds, n)
  PROVE  Cardinality(Ranked(ds, a)) = Cardinality(Ranked(cs, a)) + Times(ds[n].all, a)
<1>1. /\ n \notin LiveOf(cs) /\ LiveOf(ds) = LiveOf(cs) \cup {n}
      /\ \A c \in LiveOf(cs) : ds[c].all = cs[c].all
      /\ IsInjective(ds[n].all)
  BY DEF OneMore
<1>2. n \in DOMAIN ds
  BY <1>1 DEF LiveOf
<1>3. ds[n].all \in Seq(Procs)
  <2>1. ds[n] \in Comm
    BY <1>2, ElementOfSeq, LenProperties
  <2> QED
    BY <2>1 DEF Comm
<1>4. PICK all : all = ds[n].all
  OBVIOUS
<1> DEFINE own == {ci \in {n} \X (1..Cardinality(Procs)) :
                     ci[2] \in DOMAIN all /\ all[ci[2]] = a}
<1>5. IsFiniteSet(own) /\ Cardinality(own) = Times(all, a)
  <2>1. all \in Seq(Procs) /\ IsInjective(all)
    BY <1>1, <1>3, <1>4
  <2> QED
    BY <2>1, RankedOf
<1>6. Ranked(ds, a) = Ranked(cs, a) \cup own
  <2>1. ASSUME NEW ci
        PROVE  ci \in Ranked(ds, a) <=> ci \in Ranked(cs, a) \/ ci \in own
    <3>1. ci \in (LiveOf(cs) \cup {n}) \X (1..Cardinality(Procs)) <=>
            \/ ci \in LiveOf(cs) \X (1..Cardinality(Procs))
            \/ ci \in {n} \X (1..Cardinality(Procs))
      OBVIOUS
    <3>2. ci \in LiveOf(cs) \X (1..Cardinality(Procs)) => ds[ci[1]].all = cs[ci[1]].all
      BY <1>1
    <3>3. ci \in {n} \X (1..Cardinality(Procs)) => ds[ci[1]].all = all
      BY <1>4
    <3> QED
      BY <1>1, <3>1, <3>2, <3>3, Zenon DEF Ranked
  <2> HIDE DEF own
  <2> QED
    BY <2>1
<1>7. Ranked(cs, a) \cap own = {}
  <2>1. ASSUME NEW ci \in Ranked(cs, a), ci \in own PROVE FALSE
    <3>1. ci[1] \in LiveOf(cs) /\ ci[1] = n
      BY <2>1 DEF Ranked
    <3> QED
      BY <1>1, <3>1
  <2> QED
    BY <2>1
<1> HIDE DEF own
<1>8. IsFiniteSet(Ranked(cs, a)) /\ Cardinality(Ranked(cs, a)) \in Nat
  BY RankedFinite
<1>9. Cardinality(Ranked(cs, a) \cup own)
        = Cardinality(Ranked(cs, a)) + Cardinality(own) - Cardinality(Ranked(cs, a) \cap own)
  BY <1>5, <1>8, FS_Union
<1>10. Cardinality(Ranked(cs, a) \cap own) = 0
  BY <1>7, FS_EmptySet
<1>11. Times(all, a) \in Nat
  BY <1>3, <1>4, TimesFinite
<1>12. QED
  BY <1>4, <1>5, <1>6, <1>8, <1>9, <1>10, <1>11

LEMMA RankedSame ==
  ASSUME NEW cs \in Seq(Comm), NEW ds \in Seq(Comm), NEW a,
         LiveOf(ds) = LiveOf(cs),
         \A c \in LiveOf(cs) : ds[c].all = cs[c].all
  PROVE  Ranked(ds, a) = Ranked(cs, a)
<1>1. ASSUME NEW ci
      PROVE  ci \in Ranked(ds, a) <=> ci \in Ranked(cs, a)
  <2>1. ci \in LiveOf(cs) \X (1..Cardinality(Procs)) => ds[ci[1]].all = cs[ci[1]].all
    OBVIOUS
  <2> QED
    BY <2>1, Zenon DEF Ranked
<1>2. QED
  BY <1>1
LEMMA RankedAppended ==
  ASSUME NEW cs \in Seq(Comm), NEW new \in Comm, new.live = TRUE, IsInjective(new.all), NEW a
  PROVE  Cardinality(Ranked(Append(cs, new), a)) = Cardinality(Ranked(cs, a)) + Times(new.all, a)
<1>1. PICK ds, n : ds = Append(cs, new) /\ n = Len(cs) + 1
  OBVIOUS
<1>2. /\ DOMAIN ds = 1..n /\ DOMAIN cs = 1..Len(cs) /\ Len(cs) \in Nat
      /\ ds \in Seq(Comm) /\ ds[n] = new
      /\ \A i \in 1..Len(cs) : ds[i] = cs[i]
  <2>1. /\ Append(cs, new) \in Seq(Comm)
        /\ Len(Append(cs, new)) = Len(cs) + 1
        /\ Append(cs, new)[Len(cs) + 1] = new
        /\ \A j \in 1..Len(cs) : Append(cs, new)[j] = cs[j]
    BY AppendElements
  <2>2. ds \in Seq(Comm) /\ Len(ds) = n
    BY <1>1, <2>1
  <2>3. DOMAIN ds = 1..Len(ds) /\ DOMAIN cs = 1..Len(cs) /\ Len(cs) \in Nat
    BY <2>2, LenProperties
  <2> QED
    BY <1>1, <2>1, <2>2, <2>3
<1>3. n = Len(cs) + 1
  BY <1>1
<1>4. n \notin LiveOf(cs) /\ LiveOf(ds) = LiveOf(cs) \cup {n}
  BY <1>2, <1>3 DEF LiveOf
<1>5. \A c \in LiveOf(cs) : ds[c].all = cs[c].all
  BY <1>2 DEF LiveOf
<1>6. OneMore(cs, ds, n) /\ ds \in Seq(Comm)
  BY <1>2, <1>4, <1>5 DEF OneMore
<1>7. Cardinality(Ranked(ds, a)) = Cardinality(Ranked(cs, a)) + Times(ds[n].all, a)
  BY <1>6, RankedMore
<1>8. QED
  BY <1>1, <1>2, <1>7

LEMMA CommFields ==
  ASSUME NEW c \in Comm, NEW flag \in BOOLEAN
  PROVE  /\ [c EXCEPT !.live = flag] \in Comm
         /\ [c EXCEPT !.use_unexpected_msg = flag] \in Comm
BY DEF Comm

LEMMA RankedFreed ==
  ASSUME NEW cs \in Seq(Comm), NEW c \in LiveOf(cs), IsInjective(cs[c].all), NEW a
  PROVE  Cardinality(Ranked(cs, a))
           = Cardinality(Ranked([cs EXCEPT ![c].live = FALSE], a)) + Times(cs[c].all, a)
<1>1. PICK bs : bs = [cs EXCEPT ![c].live = FALSE]
  OBVIOUS
<1>2. DOMAIN cs = 1..Len(cs) /\ c \in 1..Len(cs) /\ cs[c] \in Comm /\ cs[c].live
  <2>1. DOMAIN cs = 1..Len(cs)
    BY LenProperties
  <2>2. c \in 1..Len(cs) /\ cs[c].live
    BY <2>1 DEF LiveOf
  <2> QED
    BY <2>1, <2>2, ElementOfSeq
<1> DEFINE old == [cs[c] EXCEPT !.live = FALSE]
<1>4. old \in Comm /\ old.all = cs[c].all /\ old.live = FALSE
  <2>1. old \in Comm
    BY <1>2, CommFields
  <2>2. cs[c] = [all |-> cs[c].all, rank |-> cs[c].rank, teams |-> cs[c].teams,
                 use_unexpected_msg |-> cs[c].use_unexpected_msg, live |-> cs[c].live]
    BY <1>2 DEF Comm
  <2> QED
    BY <2>1, <2>2
<1>5. bs = [cs EXCEPT ![c] = old]
  BY <1>1
<1> HIDE DEF old
<1>6. bs \in Seq(Comm) /\ DOMAIN bs = DOMAIN cs
  BY <1>2, <1>4, <1>5, ExceptSeq
<1>7. bs[c] = old /\ \A i \in DOMAIN cs \ {c} : bs[i] = cs[i]
  BY <1>2, <1>5
<1>8. c \notin LiveOf(bs) /\ LiveOf(cs) = LiveOf(bs) \cup {c}
  BY <1>2, <1>4, <1>6, <1>7 DEF LiveOf
<1>9. \A i \in LiveOf(bs) : cs[i].all = bs[i].all
  BY <1>4, <1>6, <1>7 DEF LiveOf
<1>10. OneMore(bs, cs, c)
  BY <1>8, <1>9 DEF OneMore
<1>11. Cardinality(Ranked(cs, a)) = Cardinality(Ranked(bs, a)) + Times(cs[c].all, a)
  BY <1>6, <1>10, RankedMore
<1>12. QED
  BY <1>1, <1>11

LEMMA RankedMode ==
  ASSUME NEW cs \in Seq(Comm), NEW c \in LiveOf(cs), NEW flag \in BOOLEAN, NEW a
  PROVE  Ranked([cs EXCEPT ![c].use_unexpected_msg = flag], a) = Ranked(cs, a)
<1>1. PICK bs : bs = [cs EXCEPT ![c].use_unexpected_msg = flag]
  OBVIOUS
<1>2. DOMAIN cs = 1..Len(cs) /\ c \in 1..Len(cs) /\ cs[c] \in Comm
  <2>1. DOMAIN cs = 1..Len(cs)
    BY LenProperties
  <2>2. c \in 1..Len(cs)
    BY <2>1 DEF LiveOf
  <2> QED
    BY <2>1, <2>2, ElementOfSeq
<1> DEFINE old == [cs[c] EXCEPT !.use_unexpected_msg = flag]
<1>4. old \in Comm /\ old.all = cs[c].all /\ old.live = cs[c].live
  <2>1. old \in Comm
    BY <1>2, CommFields
  <2>2. cs[c] = [all |-> cs[c].all, rank |-> cs[c].rank, teams |-> cs[c].teams,
                 use_unexpected_msg |-> cs[c].use_unexpected_msg, live |-> cs[c].live]
    BY <1>2 DEF Comm
  <2> QED
    BY <2>1, <2>2
<1>5. bs = [cs EXCEPT ![c] = old]
  BY <1>1
<1> HIDE DEF old
<1>6. bs \in Seq(Comm) /\ DOMAIN bs = DOMAIN cs
  BY <1>2, <1>4, <1>5, ExceptSeq
<1>7. bs[c] = old /\ \A i \in DOMAIN cs \ {c} : bs[i] = cs[i]
  BY <1>2, <1>5
<1>8. LiveOf(bs) = LiveOf(cs) /\ \A i \in LiveOf(cs) : bs[i].all = cs[i].all
  BY <1>4, <1>6, <1>7 DEF LiveOf
<1>9. Ranked(bs, a) = Ranked(cs, a)
  BY <1>6, <1>8, RankedSame
<1>10. QED
  BY <1>1, <1>9

RefTypes ==
  /\ refs \in [Procs -> [Procs -> Nat]]
  /\ copies \in [Procs -> Seq(Procs)]
  /\ aborted \subseteq Procs
  /\ {created, sent, probes, failures} \subseteq Nat

TypeInv == CommInv /\ NetInv /\ RefTypes

(***************************************************************************)
(* A step of p leaves the others alone, and what p holds beyond its needs  *)
(* grows by `extra', unless the allocator stops p.                         *)
(***************************************************************************)
NoExtra == [a \in Procs |-> 0]

Balanced(p, extra) ==
  /\ \A q \in Procs \ {p} : /\ refs'[q] = refs[q] /\ comms'[q] = comms[q]
                            /\ copies'[q] = copies[q] /\ queue'[q] = queue[q]
  /\ refs' \in [Procs -> [Procs -> Int]]
  /\ copies' \in [Procs -> Seq(Procs)]
  /\ p \notin aborted
  /\ \/ aborted' = aborted \cup {p} /\ refs'[p] = refs[p]
     \/ /\ aborted' = aborted
        /\ \A a \in Procs : Hold(refs'[p], comms'[p], copies'[p], queue'[p], a)
                              = Hold(refs[p], comms[p], copies[p], queue[p], a) + extra[a]

LEMMA HoldInt ==
  ASSUME TypeInv, NEW p \in Procs, NEW a \in Procs
  PROVE  Hold(refs[p], comms[p], copies[p], queue[p], a) \in Int
<1>1. comms[p] \in Seq(Comm) /\ copies[p] \in Seq(Procs) /\ queue[p] \in Seq(Procs)
      /\ refs[p][a] \in Nat
  BY DEF TypeInv, CommInv, NetInv, RefTypes
<1>2. Cardinality(Ranked(comms[p], a)) \in Nat /\ Times(copies[p], a) \in Nat
      /\ Times(queue[p], a) \in Nat
  BY <1>1, RankedFinite, TimesFinite
<1>3. QED
  BY <1>1, <1>2 DEF Hold

LEMMA SameBalanced ==
  ASSUME TypeInv, NEW p \in Procs, p \notin aborted,
         refs' = refs, comms' = comms, copies' = copies, queue' = queue,
         aborted' \in {aborted, aborted \cup {p}}
  PROVE  Balanced(p, NoExtra)
<1>1. \A a \in Procs : Hold(refs[p], comms[p], copies[p], queue[p], a) \in Int
  BY HoldInt
<1>2. refs \in [Procs -> [Procs -> Int]] /\ copies \in [Procs -> Seq(Procs)]
  BY DEF TypeInv, RefTypes
<1>3. \A a \in Procs : Hold(refs'[p], comms'[p], copies'[p], queue'[p], a)
                         = Hold(refs[p], comms[p], copies[p], queue[p], a) + NoExtra[a]
  BY <1>1 DEF NoExtra
<1>4. QED
  BY <1>2, <1>3 DEF Balanced

(***************************************************************************)
(* The references change, and the needs by as much.                        *)
(***************************************************************************)
Grows(p, r, extra) ==
  \A a \in Procs : Hold(r, comms'[p], copies'[p], queue'[p], a)
                     = Hold(refs[p], comms[p], copies[p], queue[p], a) + extra[a]

LEMMA ChangeBalanced ==
  ASSUME TypeInv, NEW p \in Procs, p \notin aborted, NEW extra,
         NEW r \in [Procs -> Int], refs' = [refs EXCEPT ![p] = r],
         \A q \in Procs \ {p} : /\ comms'[q] = comms[q] /\ copies'[q] = copies[q]
                                /\ queue'[q] = queue[q],
         copies' \in [Procs -> Seq(Procs)], aborted' = aborted,
         Grows(p, r, extra)
  PROVE  Balanced(p, extra)
<1>1. refs \in [Procs -> [Procs -> Nat]]
  BY DEF TypeInv, RefTypes
<1>2. refs' \in [Procs -> [Procs -> Int]]
  <2>1. refs \in [Procs -> [Procs -> Int]]
    BY <1>1
  <2> QED
    BY <2>1
<1>3. refs'[p] = r /\ \A q \in Procs \ {p} : refs'[q] = refs[q]
  BY <1>1
<1>4. QED
  BY <1>2, <1>3 DEF Balanced, Grows

LEMMA FirstTyped ==
  ASSUME NEW s \in Seq(Procs), NEW n \in 0..Len(s)
  PROVE  First(s, n) \in Seq(Procs)
<1>1. Len(s) \in Nat /\ \A i \in 1..Len(s) : s[i] \in Procs
  BY LenProperties, ElementOfSeq
<1>2. QED
  BY <1>1, SubSeqProperties DEF First

LEMMA CopiedTyped ==
  ASSUME NEW p, NEW s \in Seq(Procs)
  PROVE  Copied(p, s) \in 0..Len(s)
<1>1. Len(s) \in Nat /\ DOMAIN s = 1..Len(s)
  BY LenProperties
<1>2. CASE Again(p, s) = {}
  BY <1>1, <1>2 DEF Copied
<1>3. CASE Again(p, s) # {}
  <2>1. Again(p, s) \in SUBSET Nat /\ Again(p, s) \subseteq 1..Len(s)
    BY <1>1 DEF Again
  <2>2. Min(Again(p, s)) \in Again(p, s)
    BY <1>3, <2>1, MinProperties
  <2>3. Copied(p, s) = Min(Again(p, s))
    BY <1>3 DEF Copied, Min
  <2> QED
    BY <1>1, <2>1, <2>2, <2>3
<1>4. QED
  BY <1>2, <1>3

(***************************************************************************)
(* mona_comm_create: a communicator is made, or every copy is dropped.     *)
(***************************************************************************)
LEMMA CreateBalanced ==
  ASSUME TypeInv, NEW p \in Procs, NEW peers \in Seq(Procs),
         mona_comm_create(p, peers)
  PROVE  Balanced(p, NoExtra)
<1>1. p \notin aborted /\ UNCHANGED <<copies, net, queue>>
  BY DEF mona_comm_create
<1>2. refs \in [Procs -> [Procs -> Nat]] /\ refs[p] \in [Procs -> Nat]
  BY DEF TypeInv, RefTypes
<1>3. Len(peers) \in Nat
  BY LenProperties
<1>4. ASSUME NEW s \in Seq(Procs), refs' = [refs EXCEPT ![p] = Release(Dup(@, s), s)]
      PROVE  refs' = refs
  <2>1. Release(Dup(refs[p], s), s) = refs[p]
    BY <1>2, DupRelease
  <2> QED
    BY <1>2, <1>4, <2>1
<1>5. CASE /\ Acceptable(p, peers)
           /\ refs' = [refs EXCEPT ![p] = Dup(@, peers)]
           /\ comms' = [comms EXCEPT ![p] = Append(@, NewComm(p, peers))]
           /\ UNCHANGED aborted
  <2> DEFINE r == Dup(refs[p], peers)
             new == NewComm(p, peers)
  <2>1. \A a \in Procs : Times(peers, a) \in Nat
    BY TimesFinite
  <2>2. r \in [Procs -> Int] /\ \A a \in Procs : r[a] = refs[p][a] + Times(peers, a)
    BY <1>2, <2>1 DEF Dup
  <2>3. new.all = peers /\ new.live = TRUE /\ IsInjective(peers)
    BY <1>5 DEF NewComm, Acceptable
  <2> HIDE DEF new
  <2>4. comms[p] \in Seq(Comm) /\ comms'[p] = Append(comms[p], new) /\ new \in Comm
    <3>1. comms \in [Procs -> Seq(Comm)]
      BY DEF TypeInv, CommInv
    <3>2. IndexOf(peers, p) \in Int
      BY <1>5, IndexOfNat DEF Acceptable
    <3>3. new \in Comm
      BY <3>2 DEF new, NewComm, Comm
    <3> QED
      BY <1>5, <3>1, <3>3 DEF new
  <2>8. \A a \in Procs : Cardinality(Ranked(comms'[p], a))
                           = Cardinality(Ranked(comms[p], a)) + Times(peers, a)
    BY <2>3, <2>4, RankedAppended
  <2>9. \A a \in Procs : Cardinality(Ranked(comms[p], a)) \in Nat
    BY <2>4, RankedFinite
  <2>10. copies[p] \in Seq(Procs) /\ queue[p] \in Seq(Procs)
    BY DEF TypeInv, RefTypes, NetInv
  <2>11. \A a \in Procs : Times(copies[p], a) \in Nat /\ Times(queue[p], a) \in Nat
    BY <2>10, TimesFinite
  <2> HIDE DEF r
  <2>12. \A a \in Procs : Hold(r, comms'[p], copies'[p], queue'[p], a)
                            = Hold(refs[p], comms[p], copies[p], queue[p], a) + NoExtra[a]
    <3> SUFFICES ASSUME NEW a \in Procs
                 PROVE  Hold(r, comms'[p], copies'[p], queue'[p], a)
                          = Hold(refs[p], comms[p], copies[p], queue[p], a) + 0
      BY DEF NoExtra
    <3>1. copies'[p] = copies[p] /\ queue'[p] = queue[p] /\ refs[p][a] \in Nat
      BY <1>1, <1>2
    <3> QED
      <4>1. /\ r[a] = refs[p][a] + Times(peers, a)
            /\ Cardinality(Ranked(comms'[p], a))
                 = Cardinality(Ranked(comms[p], a)) + Times(peers, a)
        BY <2>2, <2>8
      <4>2. /\ Times(peers, a) \in Nat /\ Times(copies[p], a) \in Nat
            /\ Times(queue[p], a) \in Nat /\ Cardinality(Ranked(comms[p], a)) \in Nat
        BY <2>1, <2>9, <2>11
      <4>3. PICK k : k = Cardinality(Ranked(comms'[p], a))
        OBVIOUS
      <4>4. /\ Hold(r, comms'[p], copies'[p], queue'[p], a)
                 = r[a] - (k + Times(copies[p], a) + Times(queue[p], a))
        BY <3>1, <4>3 DEF Hold
      <4>5. k = Cardinality(Ranked(comms[p], a)) + Times(peers, a)
        BY <4>1, <4>3
      <4> QED
        BY <3>1, <4>1, <4>2, <4>4, <4>5 DEF Hold
  <2>13. /\ \A q \in Procs \ {p} : /\ comms'[q] = comms[q] /\ copies'[q] = copies[q]
                                   /\ queue'[q] = queue[q]
         /\ copies' \in [Procs -> Seq(Procs)]
    BY <1>1, <1>5 DEF TypeInv, CommInv, RefTypes
  <2>14. refs' = [refs EXCEPT ![p] = r]
    BY <1>5 DEF r
  <2>15. aborted' = aborted
    BY <1>5
  <2>16. Grows(p, r, NoExtra)
    BY <2>12 DEF Grows
  <2> QED
    BY <1>1, <2>2, <2>13, <2>14, <2>15, <2>16, ChangeBalanced
<1>6. CASE refs' = [refs EXCEPT ![p] = Rollback(p, peers)] /\ UNCHANGED <<comms, aborted>>
  <2> DEFINE s == First(peers, Copied(p, peers))
  <2>1. s \in Seq(Procs)
    BY CopiedTyped, FirstTyped
  <2>2. refs' = [refs EXCEPT ![p] = Release(Dup(@, s), s)]
    BY <1>6 DEF Rollback
  <2> HIDE DEF s
  <2>3. refs' = refs
    BY <1>4, <2>1, <2>2
  <2> QED
    BY <1>1, <1>6, <2>3, SameBalanced
<1>7. ASSUME NEW n \in 0 .. Copied(p, peers) - 1, UNCHANGED <<comms, aborted>>,
             refs' = [refs EXCEPT ![p] = Release(Dup(@, First(peers, n)), First(peers, n))]
      PROVE  Balanced(p, NoExtra)
  <2>1. n \in 0..Len(peers)
    BY <1>3, CopiedTyped
  <2>2. First(peers, n) \in Seq(Procs)
    BY <2>1, FirstTyped
  <2>3. refs' = refs
    BY <1>4, <1>7, <2>2
  <2> QED
    BY <1>1, <1>7, <2>3, SameBalanced
<1>8. CASE /\ refs' = [refs EXCEPT ![p] = Release(Dup(@, peers), peers)]
           /\ aborted' \in {aborted, aborted \cup {p}}
           /\ UNCHANGED comms
  <2>1. refs' = refs
    BY <1>4, <1>8
  <2> QED
    BY <1>1, <1>8, <2>1, SameBalanced
<1>9. QED
  BY <1>5, <1>6, <1>7, <1>8 DEF mona_comm_create

(***************************************************************************)
(* The references of a process change by d, and what it needs by as much   *)
(* less e.                                                                 *)
(***************************************************************************)
Need(cs, co, qu, a) == Cardinality(Ranked(cs, a)) + Times(co, a) + Times(qu, a)

LEMMA NeedInt ==
  ASSUME NEW cs \in Seq(Comm), NEW co \in Seq(Procs), NEW qu \in Seq(Procs), NEW a
  PROVE  Need(cs, co, qu, a) \in Nat
<1>1. Cardinality(Ranked(cs, a)) \in Nat /\ Times(co, a) \in Nat /\ Times(qu, a) \in Nat
  BY RankedFinite, TimesFinite
<1>2. QED
  BY <1>1 DEF Need

LEMMA HoldBy ==
  ASSUME NEW cs \in Seq(Comm), NEW co \in Seq(Procs), NEW qu \in Seq(Procs), NEW a,
         NEW r, r[a] \in Int,
         NEW cs1, NEW co1, NEW qu1, NEW r1,
         NEW d \in Int, NEW e \in Int,
         r1[a] = r[a] + d, Need(cs1, co1, qu1, a) = Need(cs, co, qu, a) + (d - e)
  PROVE  Hold(r1, cs1, co1, qu1, a) = Hold(r, cs, co, qu, a) + e
<1>1. PICK n \in Nat : n = Need(cs, co, qu, a)
  BY NeedInt
<1>2. Hold(r, cs, co, qu, a) = r[a] - n
  BY <1>1 DEF Hold, Need
<1>3. Need(cs1, co1, qu1, a) = n + (d - e)
  BY <1>1
<1>4. Hold(r1, cs1, co1, qu1, a) = (r[a] + d) - (n + (d - e))
  BY <1>3 DEF Hold, Need
<1>5. QED
  BY <1>2, <1>4

LEMMA Typed ==
  ASSUME TypeInv, NEW p \in Procs
  PROVE  /\ comms[p] \in Seq(Comm) /\ copies[p] \in Seq(Procs) /\ queue[p] \in Seq(Procs)
         /\ net[p].unexpected \in Seq(Procs) /\ net[p].expected \in Seq(Procs)
         /\ refs[p] \in [Procs -> Nat]
         /\ comms \in [Procs -> Seq(Comm)] /\ copies \in [Procs -> Seq(Procs)]
         /\ queue \in [Procs -> Seq(Procs)] /\ refs \in [Procs -> [Procs -> Nat]]
BY DEF TypeInv, CommInv, NetInv, RefTypes

(***************************************************************************)
(* mona_comm_free                                                          *)
(***************************************************************************)
LEMMA FreeBalanced ==
  ASSUME TypeInv, NEW p \in Procs, mona_comm_free(p)
  PROVE  Balanced(p, NoExtra)
<1>1. PICK c \in Live(p) :
        /\ refs' = [refs EXCEPT ![p] = Release(@, comms[p][c].all)]
        /\ comms' = [comms EXCEPT ![p][c].live = FALSE]
        /\ UNCHANGED <<copies, queue, aborted>>
  BY DEF mona_comm_free
<1> DEFINE all == comms[p][c].all
           r == Release(refs[p], all)
           cs == [comms[p] EXCEPT ![c].live = FALSE]
<1>2. /\ comms[p] \in Seq(Comm) /\ copies[p] \in Seq(Procs) /\ queue[p] \in Seq(Procs)
      /\ refs[p] \in [Procs -> Nat] /\ comms \in [Procs -> Seq(Comm)]
      /\ copies \in [Procs -> Seq(Procs)]
  BY Typed
<1>3. c \in LiveOf(comms[p]) /\ p \notin aborted
  BY DEF Live, LiveOf
<1>4. comms[p][c] \in Comm /\ Own(p, comms[p][c])
  BY <1>2, <1>3, ElementOfSeq, LenProperties DEF LiveOf, TypeInv, CommInv
<1>5. all \in Seq(Procs) /\ IsInjective(all)
  BY <1>4 DEF Comm, Own
<1>6. comms'[p] = cs /\ \A q \in Procs \ {p} : comms'[q] = comms[q]
  BY <1>1, <1>2
<1>7. refs' = [refs EXCEPT ![p] = r]
  BY <1>1
<1>8. ASSUME NEW a \in Procs
      PROVE  /\ r[a] = refs[p][a] - Times(all, a)
             /\ Times(all, a) \in Nat /\ refs[p][a] \in Nat
             /\ Cardinality(Ranked(comms[p], a)) = Cardinality(Ranked(cs, a)) + Times(all, a)
             /\ Cardinality(Ranked(comms[p], a)) \in Nat
             /\ Times(copies[p], a) \in Nat /\ Times(queue[p], a) \in Nat
  <2>1. r[a] = refs[p][a] - Times(all, a) /\ refs[p][a] \in Nat
    BY <1>2 DEF Release
  <2>2. /\ Times(all, a) \in Nat /\ Times(copies[p], a) \in Nat /\ Times(queue[p], a) \in Nat
        /\ Cardinality(Ranked(comms[p], a)) \in Nat
    BY <1>2, <1>5, TimesFinite, RankedFinite
  <2>3. Cardinality(Ranked(comms[p], a)) = Cardinality(Ranked(cs, a)) + Times(all, a)
    BY <1>2, <1>3, <1>5, RankedFreed
  <2> QED
    BY <2>1, <2>2, <2>3
<1>9. Cardinality(Ranked(cs, 0)) \in Nat /\ cs \in Seq(Comm)
  <2>1. [comms[p][c] EXCEPT !.live = FALSE] \in Comm
    BY <1>4, CommFields
  <2>2. cs = [comms[p] EXCEPT ![c] = [comms[p][c] EXCEPT !.live = FALSE]]
    OBVIOUS
  <2>3. cs \in Seq(Comm)
    BY <1>2, <1>3, <2>1, <2>2, ExceptSeq DEF LiveOf
  <2> QED
    BY <2>3, RankedFinite
<1> HIDE DEF all, r, cs
<1>10. \A a \in Procs : r[a] \in Int
  BY <1>8
<1>11. r \in [Procs -> Int]
  <2>1. r = [a \in Procs |-> refs[p][a] - Times(all, a)]
    BY DEF r, Release
  <2> QED
    BY <1>8, <2>1
<1>12. ASSUME NEW a \in Procs
       PROVE  Hold(r, comms'[p], copies'[p], queue'[p], a)
                = Hold(refs[p], comms[p], copies[p], queue[p], a) + NoExtra[a]
  <2>1. Cardinality(Ranked(cs, a)) \in Nat
    BY <1>9, RankedFinite
  <2>2. copies'[p] = copies[p] /\ queue'[p] = queue[p]
    BY <1>1
  <2>3. Need(comms'[p], copies'[p], queue'[p], a)
          = Need(comms[p], copies[p], queue[p], a) + (0 - Times(all, a) - 0)
    BY <1>6, <1>8, <2>1, <2>2 DEF Need
  <2>4. r[a] = refs[p][a] + (0 - Times(all, a)) /\ refs[p][a] \in Int
        /\ 0 - Times(all, a) \in Int
    BY <1>8
  <2>5. Hold(r, comms'[p], copies'[p], queue'[p], a)
          = Hold(refs[p], comms[p], copies[p], queue[p], a) + 0
    BY <1>2, <2>3, <2>4, HoldBy
  <2> QED
    BY <2>5 DEF NoExtra
<1>13. \A q \in Procs \ {p} : /\ comms'[q] = comms[q] /\ copies'[q] = copies[q]
                              /\ queue'[q] = queue[q]
  BY <1>1, <1>6
<1>14. aborted' = aborted /\ copies' \in [Procs -> Seq(Procs)]
  BY <1>1, <1>2
<1>15. Grows(p, r, NoExtra)
  BY <1>12 DEF Grows
<1>16. QED
  BY <1>3, <1>7, <1>11, <1>13, <1>14, <1>15, ChangeBalanced

(***************************************************************************)
(* The other calls leave the live communicators and their lists alone: the *)
(* copies and the queue of p change, and its references as much, or by     *)
(* `extra' more.                                                           *)
(***************************************************************************)
Moved(r, p, extra) ==
  \A a \in Procs :
    r[a] = refs[p][a] + ((Times(copies'[p], a) - Times(copies[p], a))
                           + (Times(queue'[p], a) - Times(queue[p], a)) + extra[a])

SameRanked(p) ==
  \A a : Ranked(comms'[p], a) = Ranked(comms[p], a)

LEMMA MoveBalanced ==
  ASSUME TypeInv, NEW p \in Procs, p \notin aborted, NEW extra \in [Procs -> Int],
         NEW r \in [Procs -> Int], Moved(r, p, extra), refs' = [refs EXCEPT ![p] = r],
         SameRanked(p),
         \A q \in Procs \ {p} : /\ comms'[q] = comms[q] /\ copies'[q] = copies[q]
                                /\ queue'[q] = queue[q],
         copies' \in [Procs -> Seq(Procs)], queue'[p] \in Seq(Procs), aborted' = aborted
  PROVE  Balanced(p, extra)
<1>1. /\ comms[p] \in Seq(Comm) /\ copies[p] \in Seq(Procs) /\ queue[p] \in Seq(Procs)
      /\ refs[p] \in [Procs -> Nat]
  BY Typed
<1>2. ASSUME NEW a \in Procs
      PROVE  Hold(r, comms'[p], copies'[p], queue'[p], a)
               = Hold(refs[p], comms[p], copies[p], queue[p], a) + extra[a]
  <2> DEFINE d == (Times(copies'[p], a) - Times(copies[p], a))
                    + (Times(queue'[p], a) - Times(queue[p], a)) + extra[a]
  <2>1. /\ Times(copies[p], a) \in Nat /\ Times(queue[p], a) \in Nat
        /\ Cardinality(Ranked(comms[p], a)) \in Nat
    BY <1>1, TimesFinite, RankedFinite
  <2>2. Times(copies'[p], a) \in Nat /\ Times(queue'[p], a) \in Nat
    BY TimesFinite
  <2>3. PICK e \in Int : e = extra[a]
    OBVIOUS
  <2>4. d \in Int /\ r[a] = refs[p][a] + d
    BY <2>1, <2>2, <2>3 DEF Moved
  <2>5. Cardinality(Ranked(comms'[p], a)) = Cardinality(Ranked(comms[p], a))
    BY DEF SameRanked
  <2>6. Need(comms'[p], copies'[p], queue'[p], a)
          = Need(comms[p], copies[p], queue[p], a) + (d - e)
    <3>1. /\ Need(comms'[p], copies'[p], queue'[p], a)
               = Cardinality(Ranked(comms[p], a)) + Times(copies'[p], a) + Times(queue'[p], a)
          /\ Need(comms[p], copies[p], queue[p], a)
               = Cardinality(Ranked(comms[p], a)) + Times(copies[p], a) + Times(queue[p], a)
      BY <2>5 DEF Need
    <3>2. PICK c, x, y, z, w : /\ c = Cardinality(Ranked(comms[p], a))
                               /\ x = Times(copies'[p], a) /\ y = Times(queue'[p], a)
                               /\ z = Times(copies[p], a) /\ w = Times(queue[p], a)
      OBVIOUS
    <3>3. c \in Nat /\ x \in Nat /\ y \in Nat /\ z \in Nat /\ w \in Nat
      BY <2>1, <2>2, <3>2
    <3>4. d = (x - z) + (y - w) + e
      BY <2>3, <3>2
    <3>5. /\ Need(comms'[p], copies'[p], queue'[p], a) = c + x + y
          /\ Need(comms[p], copies[p], queue[p], a) = c + z + w
      BY <3>1, <3>2
    <3> HIDE DEF d
    <3> QED
      BY <3>3, <3>4, <3>5
  <2>7. refs[p][a] \in Int
    BY <1>1
  <2>8. PICK n \in Int : n = d
    BY <2>4
  <2>9. /\ r[a] = refs[p][a] + n
        /\ Need(comms'[p], copies'[p], queue'[p], a)
             = Need(comms[p], copies[p], queue[p], a) + (n - e)
    BY <2>4, <2>6, <2>8
  <2> HIDE DEF d
  <2>10. Hold(r, comms'[p], copies'[p], queue'[p], a)
          = Hold(refs[p], comms[p], copies[p], queue[p], a) + e
    <3>1. PICK k \in Nat : k = Need(comms[p], copies[p], queue[p], a)
      BY <1>1, NeedInt
    <3>2. Hold(refs[p], comms[p], copies[p], queue[p], a) = refs[p][a] - k
      BY <3>1 DEF Hold, Need
    <3>3. Hold(r, comms'[p], copies'[p], queue'[p], a) = (refs[p][a] + n) - (k + (n - e))
      <4>1. Hold(r, comms'[p], copies'[p], queue'[p], a)
              = r[a] - Need(comms'[p], copies'[p], queue'[p], a)
        BY Zenon DEF Hold, Need
      <4> QED
        BY <2>9, <3>1, <4>1
    <3> QED
      BY <2>7, <3>2, <3>3
  <2> QED
    BY <2>3, <2>10
<1>3. Grows(p, r, extra)
  BY <1>2 DEF Grows
<1>4. QED
  BY <1>3, ChangeBalanced

LEMMA UnchangedRanked ==
  ASSUME NEW p, comms' = comms
  PROVE  SameRanked(p)
BY DEF SameRanked

(***************************************************************************)
(* mona_comm_set_use_unexpected_msg                                        *)
(***************************************************************************)
LEMMA ModeBalanced ==
  ASSUME TypeInv, NEW p \in Procs, mona_comm_set_use_unexpected_msg(p)
  PROVE  Balanced(p, NoExtra)
<1>1. PICK c \in Live(p), flag \in BOOLEAN :
        /\ comms' = [comms EXCEPT ![p][c].use_unexpected_msg = flag]
        /\ UNCHANGED <<refs, copies, queue, aborted>>
  BY DEF mona_comm_set_use_unexpected_msg
<1>2. /\ comms[p] \in Seq(Comm) /\ comms \in [Procs -> Seq(Comm)]
      /\ copies \in [Procs -> Seq(Procs)] /\ queue[p] \in Seq(Procs)
      /\ copies[p] \in Seq(Procs) /\ refs \in [Procs -> [Procs -> Nat]]
  BY Typed
<1>3. c \in LiveOf(comms[p]) /\ p \notin aborted
  BY DEF Live, LiveOf
<1>4. /\ comms'[p] = [comms[p] EXCEPT ![c].use_unexpected_msg = flag]
      /\ \A q \in Procs \ {p} : comms'[q] = comms[q]
  BY <1>1, <1>2
<1>5. SameRanked(p)
  <2>1. \A a : Ranked([comms[p] EXCEPT ![c].use_unexpected_msg = flag], a)
                 = Ranked(comms[p], a)
    BY <1>2, <1>3, RankedMode
  <2> QED
    BY <1>4, <2>1 DEF SameRanked
<1>6. Moved(refs[p], p, NoExtra)
  <2>1. \A a \in Procs : /\ Times(copies[p], a) \in Nat /\ Times(queue[p], a) \in Nat
                         /\ refs[p][a] \in Nat
    BY <1>2, TimesFinite
  <2> QED
    BY <1>1, <2>1 DEF Moved, NoExtra
<1>7. NoExtra \in [Procs -> Int] /\ refs[p] \in [Procs -> Int]
  BY <1>2 DEF NoExtra
<1>8. refs' = [refs EXCEPT ![p] = refs[p]]
  BY <1>1, <1>2
<1>9. /\ copies' \in [Procs -> Seq(Procs)] /\ queue'[p] \in Seq(Procs) /\ aborted' = aborted
      /\ \A q \in Procs \ {p} : /\ comms'[q] = comms[q] /\ copies'[q] = copies[q]
                                /\ queue'[q] = queue[q]
  BY <1>1, <1>2, <1>4
<1>10. QED
  BY <1>3, <1>5, <1>6, <1>7, <1>8, <1>9, MoveBalanced

(***************************************************************************)
(* mona_comm_addr and mona_addr_free                                       *)
(***************************************************************************)
LEMMA AddrBalanced ==
  ASSUME TypeInv, NEW p \in Procs, mona_comm_addr(p)
  PROVE  Balanced(p, NoExtra)
<1>1. PICK c \in Live(p) : \E rank \in Ranks(comms[p][c]) :
        /\ copies' = [copies EXCEPT ![p] = Append(@, Address(comms[p][c], rank))]
        /\ refs' = [refs EXCEPT ![p] = Dup(@, <<Address(comms[p][c], rank)>>)]
        /\ UNCHANGED <<comms, queue, aborted>>
  BY DEF mona_comm_addr
<1>2. PICK rank \in Ranks(comms[p][c]) :
        /\ copies' = [copies EXCEPT ![p] = Append(@, Address(comms[p][c], rank))]
        /\ refs' = [refs EXCEPT ![p] = Dup(@, <<Address(comms[p][c], rank)>>)]
        /\ UNCHANGED <<comms, queue, aborted>>
  BY <1>1
<1>3. /\ comms[p] \in Seq(Comm) /\ copies[p] \in Seq(Procs) /\ queue[p] \in Seq(Procs)
      /\ refs[p] \in [Procs -> Nat] /\ copies \in [Procs -> Seq(Procs)]
  BY Typed
<1>4. p \notin aborted /\ c \in DOMAIN comms[p]
  BY DEF Live
<1>5. PICK x \in Procs : x = Address(comms[p][c], rank)
  <2>1. comms[p][c] \in Comm
    BY <1>3, <1>4, ElementOfSeq, LenProperties
  <2>2. comms[p][c].all \in Seq(Procs)
    BY <2>1 DEF Comm
  <2>3. rank + 1 \in 1..Len(comms[p][c].all)
    BY <2>2, LenProperties DEF Ranks
  <2> QED
    BY <2>2, <2>3, ElementOfSeq DEF Address
<1> DEFINE r == Dup(refs[p], <<x>>)
<1>6. Append(copies[p], x) \in Seq(Procs)
  BY <1>3, AppendProperties
<1>7. copies' = [copies EXCEPT ![p] = Append(copies[p], x)] /\ refs' = [refs EXCEPT ![p] = r]
  BY <1>2, <1>5
<1>8. /\ copies' \in [Procs -> Seq(Procs)] /\ copies'[p] = Append(copies[p], x)
      /\ \A q \in Procs \ {p} : copies'[q] = copies[q]
  BY <1>3, <1>6, <1>7
<1>9. ASSUME NEW a \in Procs
      PROVE  /\ r[a] = refs[p][a] + IF x = a THEN 1 ELSE 0
             /\ Times(copies'[p], a) = Times(copies[p], a) + IF x = a THEN 1 ELSE 0
             /\ Times(copies[p], a) \in Nat /\ Times(queue[p], a) \in Nat
             /\ refs[p][a] \in Nat
  <2>1. Times(<<x>>, a) = IF x = a THEN 1 ELSE 0
    BY TimesOne
  <2>2. r[a] = refs[p][a] + Times(<<x>>, a)
    BY DEF Dup
  <2>3. Times(Append(copies[p], x), a) = Times(copies[p], a) + IF x = a THEN 1 ELSE 0
    BY <1>3, TimesAppend
  <2>4. Times(copies[p], a) \in Nat /\ Times(queue[p], a) \in Nat /\ refs[p][a] \in Nat
    BY <1>3, TimesFinite
  <2> QED
    BY <1>8, <2>1, <2>2, <2>3, <2>4
<1>10. r \in [Procs -> Int]
  <2>1. r = [a \in Procs |-> r[a]]
    BY DEF Dup
  <2>2. \A a \in Procs : r[a] \in Int
    BY <1>9
  <2> QED
    BY <2>1, <2>2
<1> HIDE DEF r
<1>11. Moved(r, p, NoExtra)
  <2>1. queue'[p] = queue[p]
    BY <1>2
  <2> QED
    BY <1>9, <2>1 DEF Moved, NoExtra
<1>12. SameRanked(p)
  BY <1>2, UnchangedRanked
<1>13. /\ queue'[p] \in Seq(Procs) /\ aborted' = aborted /\ NoExtra \in [Procs -> Int]
       /\ \A q \in Procs \ {p} : /\ comms'[q] = comms[q] /\ copies'[q] = copies[q]
                                 /\ queue'[q] = queue[q]
  BY <1>2, <1>3, <1>8 DEF NoExtra
<1>14. QED
  BY <1>4, <1>7, <1>8, <1>10, <1>11, <1>12, <1>13, MoveBalanced

LEMMA AddrFreeBalanced ==
  ASSUME TypeInv, NEW p \in Procs, mona_addr_free(p)
  PROVE  Balanced(p, NoExtra)
<1>1. /\ p \notin aborted /\ copies[p] # << >>
      /\ refs' = [refs EXCEPT ![p] = Release(@, <<Head(copies[p])>>)]
      /\ copies' = [copies EXCEPT ![p] = Tail(@)]
      /\ UNCHANGED <<comms, queue, aborted>>
  BY DEF mona_addr_free
<1>2. /\ copies[p] \in Seq(Procs) /\ queue[p] \in Seq(Procs)
      /\ refs[p] \in [Procs -> Nat] /\ copies \in [Procs -> Seq(Procs)]
  BY Typed
<1>3. Head(copies[p]) \in Procs /\ Tail(copies[p]) \in Seq(Procs)
  BY <1>1, <1>2
<1>4. PICK x \in Procs : x = Head(copies[p])
  BY <1>3
<1> DEFINE r == Release(refs[p], <<x>>)
<1>5. copies' = [copies EXCEPT ![p] = Tail(copies[p])] /\ refs' = [refs EXCEPT ![p] = r]
  BY <1>1, <1>4
<1>6. /\ copies' \in [Procs -> Seq(Procs)] /\ copies'[p] = Tail(copies[p])
      /\ \A q \in Procs \ {p} : copies'[q] = copies[q]
  BY <1>2, <1>3, <1>5
<1>7. ASSUME NEW a \in Procs
      PROVE  /\ r[a] = refs[p][a] - IF x = a THEN 1 ELSE 0
             /\ Times(copies[p], a) = Times(copies'[p], a) + IF x = a THEN 1 ELSE 0
             /\ Times(copies'[p], a) \in Nat /\ Times(queue[p], a) \in Nat
             /\ refs[p][a] \in Nat
  <2>1. Times(<<x>>, a) = IF x = a THEN 1 ELSE 0
    BY TimesOne
  <2>2. r[a] = refs[p][a] - Times(<<x>>, a)
    BY DEF Release
  <2>3. Times(copies[p], a) = Times(Tail(copies[p]), a) + IF x = a THEN 1 ELSE 0
    BY <1>1, <1>2, <1>4, TimesTail
  <2>4. Times(Tail(copies[p]), a) \in Nat /\ Times(queue[p], a) \in Nat /\ refs[p][a] \in Nat
    BY <1>2, <1>3, TimesFinite
  <2> QED
    BY <1>6, <2>1, <2>2, <2>3, <2>4
<1>8. r \in [Procs -> Int]
  <2>1. r = [a \in Procs |-> r[a]]
    BY DEF Release
  <2>2. \A a \in Procs : r[a] \in Int
    BY <1>7
  <2> QED
    BY <2>1, <2>2
<1> HIDE DEF r
<1>9. Moved(r, p, NoExtra)
  <2>1. queue'[p] = queue[p]
    BY <1>1
  <2> QED
    BY <1>7, <2>1 DEF Moved, NoExtra
<1>10. SameRanked(p)
  BY <1>1, UnchangedRanked
<1>11. /\ queue'[p] \in Seq(Procs) /\ aborted' = aborted /\ NoExtra \in [Procs -> Int]
       /\ \A q \in Procs \ {p} : /\ comms'[q] = comms[q] /\ copies'[q] = copies[q]
                                 /\ queue'[q] = queue[q]
  BY <1>1, <1>2, <1>6 DEF NoExtra
<1>12. QED
  BY <1>1, <1>5, <1>6, <1>8, <1>9, <1>10, <1>11, MoveBalanced

(***************************************************************************)
(* The queue alone changes, and the references.                            *)
(***************************************************************************)
QueueMoved(r, s, p, extra) ==
  /\ DOMAIN r = Procs /\ r = [a \in Procs |-> r[a]]
  /\ \A a \in Procs : r[a] = refs[p][a] + ((Times(s, a) - Times(queue[p], a)) + extra[a])

LEMMA RefsAt ==
  ASSUME NEW r, NEW s, NEW a \in Procs
  PROVE  Dup(r, s)[a] = r[a] + Times(s, a) /\ Release(r, s)[a] = r[a] - Times(s, a)
BY DEF Dup, Release

LEMMA QueueBalanced ==
  ASSUME TypeInv, NEW p \in Procs, p \notin aborted, NEW extra \in [Procs -> Int],
         NEW r, refs' = [refs EXCEPT ![p] = r],
         NEW s \in Seq(Procs), queue' = [queue EXCEPT ![p] = s],
         QueueMoved(r, s, p, extra), UNCHANGED <<comms, copies, aborted>>
  PROVE  Balanced(p, extra)
<1>1. /\ copies[p] \in Seq(Procs) /\ queue[p] \in Seq(Procs)
      /\ refs[p] \in [Procs -> Nat] /\ copies \in [Procs -> Seq(Procs)]
      /\ queue \in [Procs -> Seq(Procs)]
  BY Typed
<1>2. queue'[p] = s /\ \A q \in Procs \ {p} : queue'[q] = queue[q]
  BY <1>1
<1>3. ASSUME NEW a \in Procs
      PROVE  /\ r[a] \in Int
             /\ r[a] = refs[p][a] + ((Times(copies'[p], a) - Times(copies[p], a))
                                       + (Times(queue'[p], a) - Times(queue[p], a)) + extra[a])
  <2>1. /\ Times(copies[p], a) \in Nat /\ Times(queue[p], a) \in Nat /\ Times(s, a) \in Nat
        /\ refs[p][a] \in Nat
    BY <1>1, TimesFinite
  <2>2. copies'[p] = copies[p] /\ queue'[p] = s
    BY <1>2
  <2>3. PICK e \in Int : e = extra[a]
    OBVIOUS
  <2>4. r[a] = refs[p][a] + ((Times(s, a) - Times(queue[p], a)) + e)
    BY <2>3 DEF QueueMoved
  <2> QED
    BY <2>1, <2>2, <2>3, <2>4
<1>4. Moved(r, p, extra)
  BY <1>3 DEF Moved
<1>5. r \in [Procs -> Int]
  BY <1>3 DEF QueueMoved
<1>6. SameRanked(p)
  BY UnchangedRanked
<1>7. /\ copies' \in [Procs -> Seq(Procs)] /\ queue'[p] \in Seq(Procs) /\ aborted' = aborted
      /\ \A q \in Procs \ {p} : /\ comms'[q] = comms[q] /\ copies'[q] = copies[q]
                                /\ queue'[q] = queue[q]
  BY <1>1, <1>2
<1>8. QED
  BY <1>4, <1>5, <1>6, <1>7, MoveBalanced

LEMMA QueryLive ==
  ASSUME NEW p, NEW q \in Queries(p)
  PROVE  p \notin aborted
BY DEF Queries, Live

(***************************************************************************)
(* A receive of a message of the queue, or of one from NA.                 *)
(***************************************************************************)
LEMMA RecvQueuedBalanced ==
  ASSUME TypeInv, NEW p \in Procs, RecvQueued(p)
  PROVE  Balanced(p, NoExtra)
<1>1. PICK q \in Queries(p) :
        LET i == Min(Matching(q, queue[p])) IN
        /\ Matching(q, queue[p]) # {}
        /\ queue' = [queue EXCEPT ![p] = RemoveAt(@, i)]
        /\ refs' = [refs EXCEPT ![p] = Release(Dup(@, <<queue[p][i]>>),
                                               <<queue[p][i], queue[p][i]>>)]
        /\ UNCHANGED <<comms, copies, aborted>>
  BY DEF RecvQueued
<1>2. queue[p] \in Seq(Procs) /\ refs[p] \in [Procs -> Nat]
  BY Typed
<1>3. PICK i \in 1..Len(queue[p]), x \in Procs :
        /\ x = queue[p][i]
        /\ queue' = [queue EXCEPT ![p] = RemoveAt(queue[p], i)]
        /\ refs' = [refs EXCEPT ![p] = Release(Dup(refs[p], <<x>>), <<x, x>>)]
        /\ UNCHANGED <<comms, copies, aborted>>
  BY <1>1, <1>2, FirstMatch
<1> DEFINE r == Release(Dup(refs[p], <<x>>), <<x, x>>)
           s == RemoveAt(queue[p], i)
<1>4. s \in Seq(Procs)
  BY <1>2, RemoveAtProperties
<1>5. ASSUME NEW a \in Procs
      PROVE  r[a] = refs[p][a] + ((Times(s, a) - Times(queue[p], a)) + NoExtra[a])
  <2>1. Times(queue[p], a) = Times(s, a) + IF x = a THEN 1 ELSE 0
    BY <1>2, <1>3, TimesRemoveAt
  <2>2. r[a] = (refs[p][a] + Times(<<x>>, a)) - Times(<<x, x>>, a)
    <3>1. r[a] = Dup(refs[p], <<x>>)[a] - Times(<<x, x>>, a)
      BY RefsAt, Zenon
    <3>2. Dup(refs[p], <<x>>)[a] = refs[p][a] + Times(<<x>>, a)
      BY RefsAt, Zenon
    <3> HIDE DEF r
    <3> QED
      BY <3>1, <3>2
  <2>3. /\ Times(<<x>>, a) = IF x = a THEN 1 ELSE 0
        /\ Times(<<x, x>>, a) = IF x = a THEN 2 ELSE 0
    BY TimesOne
  <2>4. Times(s, a) \in Nat /\ refs[p][a] \in Nat
    BY <1>2, <1>4, TimesFinite
  <2> HIDE DEF r, s
  <2> QED
    BY <2>1, <2>2, <2>3, <2>4 DEF NoExtra
<1>6. DOMAIN r = Procs /\ r = [a \in Procs |-> r[a]]
  BY DEF Release
<1>7. refs' = [refs EXCEPT ![p] = r] /\ queue' = [queue EXCEPT ![p] = s]
      /\ UNCHANGED <<comms, copies, aborted>>
  BY <1>3
<1>8. NoExtra \in [Procs -> Int] /\ p \notin aborted
  BY QueryLive DEF NoExtra
<1> HIDE DEF r, s
<1>9. QueueMoved(r, s, p, NoExtra)
  BY <1>5, <1>6 DEF QueueMoved
<1>10. QED
  BY <1>4, <1>7, <1>8, <1>9, QueueBalanced

LEMMA RecvNewBalanced ==
  ASSUME TypeInv, NEW p \in Procs, RecvNew(p)
  PROVE  Balanced(p, NoExtra)
<1> DEFINE new == net[p].unexpected
<1>1. PICK q \in Queries(p) :
        LET i == Min(Matching(q, new)) IN
        /\ Matching(q, new) # {}
        /\ queue' = [queue EXCEPT ![p] = @ \o First(new, i - 1)]
        /\ refs' = [refs EXCEPT ![p] = Release(Dup(@, First(new, i)), <<new[i]>>)]
        /\ UNCHANGED <<comms, copies, aborted>>
  BY DEF RecvNew
<1>2. queue[p] \in Seq(Procs) /\ new \in Seq(Procs) /\ refs[p] \in [Procs -> Nat]
  BY Typed
<1>3. PICK i \in 1..Len(new), x \in Procs :
        /\ x = new[i]
        /\ queue' = [queue EXCEPT ![p] = queue[p] \o First(new, i - 1)]
        /\ refs' = [refs EXCEPT ![p] = Release(Dup(refs[p], First(new, i)), <<x>>)]
        /\ UNCHANGED <<comms, copies, aborted>>
  BY <1>1, <1>2, FirstMatch
<1> HIDE DEF new
<1> DEFINE r == Release(Dup(refs[p], First(new, i)), <<x>>)
           s == queue[p] \o First(new, i - 1)
<1>4. First(new, i) \in Seq(Procs) /\ First(new, i - 1) \in Seq(Procs)
  BY <1>2, TimesFirst
<1>5. s \in Seq(Procs)
  BY <1>2, <1>4, ConcatProperties
<1>6. ASSUME NEW a \in Procs
      PROVE  r[a] = refs[p][a] + ((Times(s, a) - Times(queue[p], a)) + NoExtra[a])
  <2>1. Times(s, a) = Times(queue[p], a) + Times(First(new, i - 1), a)
    BY <1>2, <1>4, TimesConcat
  <2>2. r[a] = (refs[p][a] + Times(First(new, i), a)) - Times(<<x>>, a)
    <3>1. r[a] = Dup(refs[p], First(new, i))[a] - Times(<<x>>, a)
      BY RefsAt, Zenon
    <3>2. Dup(refs[p], First(new, i))[a] = refs[p][a] + Times(First(new, i), a)
      BY RefsAt, Zenon
    <3> HIDE DEF r
    <3> QED
      BY <3>1, <3>2
  <2>3. Times(<<x>>, a) = IF x = a THEN 1 ELSE 0
    BY TimesOne
  <2>4. Times(First(new, i), a) = Times(First(new, i - 1), a) + IF x = a THEN 1 ELSE 0
    BY <1>2, <1>3, TimesFirst
  <2>5. /\ Times(queue[p], a) \in Nat /\ refs[p][a] \in Nat
        /\ Times(First(new, i - 1), a) \in Nat
    BY <1>2, <1>4, TimesFinite
  <2> HIDE DEF r, s
  <2> QED
    BY <2>1, <2>2, <2>3, <2>4, <2>5 DEF NoExtra
<1>7. DOMAIN r = Procs /\ r = [a \in Procs |-> r[a]]
  BY DEF Release
<1>8. refs' = [refs EXCEPT ![p] = r] /\ queue' = [queue EXCEPT ![p] = s]
      /\ UNCHANGED <<comms, copies, aborted>>
  BY <1>3
<1>9. NoExtra \in [Procs -> Int] /\ p \notin aborted
  BY QueryLive DEF NoExtra
<1> HIDE DEF r, s
<1>10. QueueMoved(r, s, p, NoExtra)
  BY <1>6, <1>7 DEF QueueMoved
<1>11. QED
  BY <1>5, <1>8, <1>9, <1>10, QueueBalanced

(***************************************************************************)
(* A probe that finds its message and one that does not.                   *)
(***************************************************************************)
OneExtra(x) == [a \in Procs |-> IF a = x THEN 1 ELSE 0]

LEMMA ProbeQueuedBalanced ==
  ASSUME TypeInv, NEW p \in Procs, ProbeQueued(p)
  PROVE  /\ probes' = probes + 1
         /\ \/ Balanced(p, NoExtra)
            \/ \E x \in Procs : Balanced(p, OneExtra(x))
<1>1. PICK q \in Queries(p) :
        LET a == queue[p][Min(Matching(q, queue[p]))] IN
        /\ Matching(q, queue[p]) # {}
        /\ probes' = probes + 1
        /\ refs' = [refs EXCEPT ![p] =
                      IF Asks(q) THEN Release(Dup(@, <<a>>), <<a>>) ELSE Dup(@, <<a>>)]
        /\ UNCHANGED <<comms, copies, queue, aborted>>
  BY DEF ProbeQueued
<1>2. /\ queue[p] \in Seq(Procs) /\ refs[p] \in [Procs -> Nat]
      /\ refs \in [Procs -> [Procs -> Nat]] /\ queue \in [Procs -> Seq(Procs)]
  BY Typed
<1>3. PICK x \in Procs :
        /\ \/ refs' = [refs EXCEPT ![p] = Release(Dup(refs[p], <<x>>), <<x>>)]
           \/ refs' = [refs EXCEPT ![p] = Dup(refs[p], <<x>>)]
        /\ UNCHANGED <<comms, copies, queue, aborted>>
  BY <1>1, <1>2, FirstMatch
<1>4. p \notin aborted
  BY QueryLive
<1>5. CASE refs' = [refs EXCEPT ![p] = Release(Dup(refs[p], <<x>>), <<x>>)]
  <2>1. <<x>> \in Seq(Procs)
    OBVIOUS
  <2>2. Release(Dup(refs[p], <<x>>), <<x>>) = refs[p]
    BY <1>2, <2>1, DupRelease
  <2>3. refs' = refs
    BY <1>2, <1>5, <2>2
  <2>4. Balanced(p, NoExtra)
    BY <1>3, <1>4, <2>3, SameBalanced
  <2> QED
    BY <1>1, <2>4
<1>6. CASE refs' = [refs EXCEPT ![p] = Dup(refs[p], <<x>>)]
  <2> DEFINE r == Dup(refs[p], <<x>>)
  <2>1. ASSUME NEW a \in Procs
        PROVE  r[a] = refs[p][a]
                        + ((Times(queue[p], a) - Times(queue[p], a)) + OneExtra(x)[a])
    <3>1. r[a] = refs[p][a] + Times(<<x>>, a)
      BY DEF Dup
    <3>2. Times(<<x>>, a) = IF x = a THEN 1 ELSE 0
      BY TimesOne
    <3>3. Times(queue[p], a) \in Nat /\ refs[p][a] \in Nat
      BY <1>2, TimesFinite
    <3> HIDE DEF r
    <3> QED
      BY <3>1, <3>2, <3>3 DEF OneExtra
  <2>2. DOMAIN r = Procs /\ r = [a \in Procs |-> r[a]] /\ OneExtra(x) \in [Procs -> Int]
    BY DEF Dup, OneExtra
  <2>3. refs' = [refs EXCEPT ![p] = r] /\ queue' = [queue EXCEPT ![p] = queue[p]]
        /\ UNCHANGED <<comms, copies, aborted>>
    BY <1>2, <1>3, <1>6
  <2> HIDE DEF r
  <2>4. QueueMoved(r, queue[p], p, OneExtra(x))
    BY <2>1, <2>2 DEF QueueMoved
  <2>5. Balanced(p, OneExtra(x))
    BY <1>2, <1>4, <2>2, <2>3, <2>4, QueueBalanced
  <2> QED
    BY <1>1, <2>5
<1>7. QED
  BY <1>3, <1>5, <1>6

LEMMA ProbeNewBalanced ==
  ASSUME TypeInv, NEW p \in Procs, ProbeNew(p)
  PROVE  Balanced(p, NoExtra)
<1> DEFINE new == net[p].unexpected
           x == Head(new)
           r == Dup(refs[p], <<x>>)
           s == Append(queue[p], x)
<1>1. /\ p \notin aborted /\ new # << >>
      /\ queue' = [queue EXCEPT ![p] = Append(@, x)]
      /\ refs' = [refs EXCEPT ![p] = Dup(@, <<x>>)]
      /\ UNCHANGED <<comms, copies, aborted>>
  BY QueryLive DEF ProbeNew
<1>2. queue[p] \in Seq(Procs) /\ new \in Seq(Procs) /\ refs[p] \in [Procs -> Nat]
  BY Typed
<1>3. x \in Procs
  BY <1>1, <1>2
<1>4. refs' = [refs EXCEPT ![p] = r] /\ queue' = [queue EXCEPT ![p] = s]
  BY <1>1
<1> HIDE DEF x
<1>5. s \in Seq(Procs)
  BY <1>2, <1>3, AppendProperties
<1>6. ASSUME NEW a \in Procs
      PROVE  r[a] = refs[p][a] + ((Times(s, a) - Times(queue[p], a)) + NoExtra[a])
  <2>1. Times(s, a) = Times(queue[p], a) + IF x = a THEN 1 ELSE 0
    BY <1>2, <1>3, TimesAppend
  <2>2. r[a] = refs[p][a] + Times(<<x>>, a)
    BY DEF Dup
  <2>3. Times(<<x>>, a) = IF x = a THEN 1 ELSE 0
    BY TimesOne
  <2>4. Times(queue[p], a) \in Nat /\ refs[p][a] \in Nat
    BY <1>2, TimesFinite
  <2> HIDE DEF r, s
  <2> QED
    BY <2>1, <2>2, <2>3, <2>4 DEF NoExtra
<1>7. DOMAIN r = Procs /\ r = [a \in Procs |-> r[a]] /\ NoExtra \in [Procs -> Int]
  BY DEF Dup, NoExtra
<1> HIDE DEF r, s
<1>8. QueueMoved(r, s, p, NoExtra)
  BY <1>6, <1>7 DEF QueueMoved
<1>9. QED
  BY <1>1, <1>4, <1>5, <1>7, <1>8, QueueBalanced

-----------------------------------------------------------------------------
(***************************************************************************)
(* The function that a fold over a finite set is defined by: it takes an   *)
(* element c[s] of each set s in turn.                                     *)
(***************************************************************************)
FoldOn(f, s, base, op, c) ==
  f[s] = IF s = {} THEN base ELSE op[<<c[s], f[s \ {c[s]}]>>]

Picks(c, S) == \A s \in SUBSET S : s # {} => c[s] \in s

LEMMA Smaller ==
  ASSUME NEW S, IsFiniteSet(S), NEW s \in SUBSET S, NEW x \in s
  PROVE  /\ Cardinality(s) \in Nat /\ Cardinality(s) # 0
         /\ s \ {x} \in SUBSET S
         /\ Cardinality(s \ {x}) \in Nat /\ Cardinality(s \ {x}) = Cardinality(s) - 1
<1>1. IsFiniteSet(s)
  BY FS_Subset
<1>2. IsFiniteSet(s \ {x}) /\ Cardinality(s \ {x}) = Cardinality(s) - 1
  BY <1>1, FS_RemoveElement
<1>3. Cardinality(s) \in Nat /\ Cardinality(s \ {x}) \in Nat
  BY <1>1, <1>2, FS_CardinalityType
<1>4. QED
  BY <1>2, <1>3

CanFold(S, V, base, op, c) ==
  IsFiniteSet(S) /\ base \in V /\ op \in [S \X V -> V] /\ Picks(c, S)

LEMMA FoldExists ==
  ASSUME NEW S, NEW V, NEW base, NEW op, NEW c, CanFold(S, V, base, op, c)
  PROVE  \E f \in [SUBSET S -> V] : \A s \in SUBSET S : FoldOn(f, s, base, op, c)
<1> DEFINE small(n) == {s \in SUBSET S : Cardinality(s) <= n}
           done == {n \in Nat : \E g \in [small(n) -> V] :
                                  \A s \in small(n) : FoldOn(g, s, base, op, c)}
<1>1. IsFiniteSet(S) /\ base \in V /\ op \in [S \X V -> V] /\ Picks(c, S)
  BY DEF CanFold
<1>2. \A s \in SUBSET S : Cardinality(s) \in Nat /\ (Cardinality(s) = 0 <=> s = {})
  <2> SUFFICES ASSUME NEW s \in SUBSET S
               PROVE  Cardinality(s) \in Nat /\ (Cardinality(s) = 0 <=> s = {})
    OBVIOUS
  <2>1. IsFiniteSet(s)
    BY <1>1, FS_Subset
  <2> QED
    BY <2>1, FS_CardinalityType, FS_EmptySet
<1>3. \A s \in SUBSET S : s # {} =>
        /\ c[s] \in S /\ s \ {c[s]} \in SUBSET S
        /\ Cardinality(s \ {c[s]}) \in Nat /\ Cardinality(s \ {c[s]}) = Cardinality(s) - 1
  <2> SUFFICES ASSUME NEW s \in SUBSET S, s # {}
               PROVE  /\ c[s] \in S /\ s \ {c[s]} \in SUBSET S
                      /\ Cardinality(s \ {c[s]}) \in Nat
                      /\ Cardinality(s \ {c[s]}) = Cardinality(s) - 1
    OBVIOUS
  <2>1. PICK x \in s : x = c[s]
    BY <1>1 DEF Picks
  <2>2. /\ s \ {x} \in SUBSET S
        /\ Cardinality(s \ {x}) \in Nat /\ Cardinality(s \ {x}) = Cardinality(s) - 1
    BY <1>1, Smaller
  <2> QED
    BY <2>1, <2>2
<1>4. 0 \in done
  <2> DEFINE g == [s \in small(0) |-> base]
  <2>1. \A s \in small(0) : s = {}
    BY <1>2
  <2>2. g \in [small(0) -> V] /\ \A s \in small(0) : FoldOn(g, s, base, op, c)
    BY <1>1, <2>1 DEF FoldOn
  <2> QED
    BY <2>2
<1>5. ASSUME NEW n \in Nat, n \in done
      PROVE  n + 1 \in done
  <2>1. PICK g \in [small(n) -> V] : \A s \in small(n) : FoldOn(g, s, base, op, c)
    BY <1>5
  <2> DEFINE h == [s \in small(n + 1) |->
                     IF s = {} THEN base ELSE op[<<c[s], g[s \ {c[s]}]>>]]
  <2>2. \A s \in small(n + 1) : s # {} => s \ {c[s]} \in small(n) /\ c[s] \in S
    BY <1>2, <1>3
  <2>3. \A s \in small(n) : s \in small(n + 1)
    BY <1>2
  <2> HIDE DEF small
  <2>4. \A s \in small(n) : h[s] = g[s]
    BY <2>1, <2>3 DEF FoldOn
  <2>5. h \in [small(n + 1) -> V]
    <3>1. \A s \in small(n + 1) :
            (IF s = {} THEN base ELSE op[<<c[s], g[s \ {c[s]}]>>]) \in V
      BY <1>1, <2>2
    <3> QED
      BY <3>1
  <2>6. ASSUME NEW s \in small(n + 1)
        PROVE  FoldOn(h, s, base, op, c)
    <3>1. h[s] = IF s = {} THEN base ELSE op[<<c[s], g[s \ {c[s]}]>>]
      OBVIOUS
    <3>2. s # {} => h[s \ {c[s]}] = g[s \ {c[s]}]
      BY <2>2, <2>4
    <3> HIDE DEF h
    <3> QED
      BY <3>1, <3>2 DEF FoldOn
  <2> HIDE DEF h
  <2> QED
    BY <2>5, <2>6
<1>6. PICK n \in Nat : n = Cardinality(S)
  BY <1>1, FS_CardinalityType
<1>7. n \in done
  <2> HIDE DEF done
  <2>1. \A i \in Nat : i \in done => i + 1 \in done
    BY <1>5
  <2> QED
    BY <1>4, <2>1, Counting
<1>8. small(n) = SUBSET S
  <2>1. \A s \in SUBSET S : Cardinality(s) <= n
    BY <1>1, <1>6, FS_Subset
  <2> QED
    BY <2>1
<1> HIDE DEF small
<1>9. QED
  BY <1>7, <1>8

(***************************************************************************)
(* Sums over a finite set, as MapThenSumSet adds them up.                  *)
(***************************************************************************)
Some(s) == CHOOSE x \in s : TRUE

SumOf(f, h, S) ==
  /\ h \in [S -> Int]
  /\ f \in [SUBSET S -> Int]
  /\ \A s \in SUBSET S : f[s] = IF s = {} THEN 0 ELSE h[Some(s)] + f[s \ {Some(s)}]

LEMMA SumExists ==
  ASSUME NEW S, IsFiniteSet(S), NEW h \in [S -> Int]
  PROVE  \E f : SumOf(f, h, S)
<1> DEFINE c == [s \in SUBSET S |-> Some(s)]
           op == [xv \in S \X Int |-> h[xv[1]] + xv[2]]
<1>1. \A s \in SUBSET S : s # {} => Some(s) \in s
  BY DEF Some
<1>2. Picks(c, S)
  BY <1>1 DEF Picks
<1>3. op \in [S \X Int -> Int]
  OBVIOUS
<1>4. \A x \in S, v \in Int : op[<<x, v>>] = h[x] + v
  OBVIOUS
<1>5. \A s \in SUBSET S : c[s] = Some(s)
  OBVIOUS
<1> HIDE DEF c, op
<1>6. PICK f \in [SUBSET S -> Int] : \A s \in SUBSET S : FoldOn(f, s, 0, op, c)
  <2>1. CanFold(S, Int, 0, op, c)
    BY <1>2, <1>3 DEF CanFold
  <2> QED
    BY <2>1, FoldExists
<1>7. ASSUME NEW s \in SUBSET S
      PROVE  f[s] = IF s = {} THEN 0 ELSE h[Some(s)] + f[s \ {Some(s)}]
  <2>1. f[s] = IF s = {} THEN 0 ELSE op[<<Some(s), f[s \ {Some(s)}]>>]
    BY <1>5, <1>6 DEF FoldOn
  <2>2. CASE s = {}
    BY <2>1, <2>2
  <2>3. CASE s # {}
    <3>1. Some(s) \in S /\ f[s \ {Some(s)}] \in Int
      BY <1>1, <2>3
    <3> QED
      BY <1>4, <2>1, <2>3, <3>1
  <2> QED
    BY <2>2, <2>3
<1>8. QED
  BY <1>7 DEF SumOf

LEMMA SumStep ==
  ASSUME NEW S, IsFiniteSet(S), NEW h, NEW f, SumOf(f, h, S),
         NEW s \in SUBSET S, s # {}
  PROVE  \E x \in s : x = Some(s) /\ f[s] = h[x] + f[s \ {x}]
                      /\ h[x] \in Int /\ f[s \ {x}] \in Int /\ f[s] \in Int
<1>1. Some(s) \in s /\ s \ {Some(s)} \in SUBSET S
  BY DEF Some
<1>2. f[s] = h[Some(s)] + f[s \ {Some(s)}]
  BY DEF SumOf
<1>3. h[Some(s)] \in Int /\ f[s \ {Some(s)}] \in Int /\ f[s] \in Int
  BY <1>1 DEF SumOf
<1>4. QED
  BY <1>1, <1>2, <1>3

LEMMA SumAtMost ==
  ASSUME NEW S, IsFiniteSet(S), NEW h, NEW f, SumOf(f, h, S),
         NEW T, IsFiniteSet(T), NEW g, NEW e, SumOf(e, g, T),
         NEW U, U \subseteq S, U \subseteq T, NEW z, NEW one \in Nat,
         \A x \in U : g[x] <= h[x] + IF x = z THEN one ELSE 0
  PROVE  e[U] <= f[U] + IF z \in U THEN one ELSE 0
<1> DEFINE P(s) == e[s] <= f[s] + IF z \in s THEN one ELSE 0
           done == {n \in Nat : \A s \in SUBSET U : Cardinality(s) = n => P(s)}
<1>1. IsFiniteSet(U)
  BY FS_Subset
<1>2. \A s \in SUBSET U : Cardinality(s) \in Nat /\ (Cardinality(s) = 0 <=> s = {})
  <2> SUFFICES ASSUME NEW s \in SUBSET U
               PROVE  Cardinality(s) \in Nat /\ (Cardinality(s) = 0 <=> s = {})
    OBVIOUS
  <2>1. IsFiniteSet(s)
    BY <1>1, FS_Subset
  <2> QED
    BY <2>1, FS_CardinalityType, FS_EmptySet
<1>3. 0 \in done
  <2>1. e[{}] = 0 /\ f[{}] = 0
    BY DEF SumOf
  <2>2. P({})
    BY <2>1
  <2>3. \A s \in SUBSET U : Cardinality(s) = 0 => s = {}
    BY <1>2
  <2> HIDE DEF P
  <2> QED
    BY <2>2, <2>3
<1>4. ASSUME NEW n \in Nat, n \in done
      PROVE  n + 1 \in done
  <2> HIDE DEF P
  <2> SUFFICES ASSUME NEW s \in SUBSET U, Cardinality(s) = n + 1
               PROVE  P(s)
    OBVIOUS
  <2>1. s # {} /\ s \in SUBSET S /\ s \in SUBSET T
    BY <1>2
  <2>2. PICK x \in s : /\ x = Some(s) /\ f[s] = h[x] + f[s \ {x}]
                       /\ h[x] \in Int /\ f[s \ {x}] \in Int /\ f[s] \in Int
    <3>1. \E x \in s : x = Some(s) /\ f[s] = h[x] + f[s \ {x}]
                      /\ h[x] \in Int /\ f[s \ {x}] \in Int /\ f[s] \in Int
      BY <2>1, SumStep, Zenon
    <3> QED
      BY <3>1, Zenon
  <2>3. e[s] = g[x] + e[s \ {x}] /\ g[x] \in Int /\ e[s \ {x}] \in Int
    <3>1. PICK y \in s : /\ y = Some(s) /\ e[s] = g[y] + e[s \ {y}]
                         /\ g[y] \in Int /\ e[s \ {y}] \in Int
      BY <2>1, SumStep
    <3> QED
      BY <2>2, <3>1
  <2>4. P(s \ {x})
    <3>1. Cardinality(s \ {x}) = Cardinality(s) - 1
      BY <1>1, Smaller
    <3>2. s \ {x} \in SUBSET U /\ Cardinality(s \ {x}) = n
      BY <3>1
    <3> QED
      BY <1>4, <3>2
  <2>5. g[x] <= h[x] + IF x = z THEN one ELSE 0
    OBVIOUS
  <2>6. CASE x = z
    <3>1. z \in s /\ z \notin s \ {x}
      BY <2>6
    <3> QED
      BY <2>2, <2>3, <2>4, <2>5, <2>6, <3>1 DEF P
  <2>7. CASE x # z
    <3>1. z \in s <=> z \in s \ {x}
      BY <2>7
    <3> QED
      BY <2>2, <2>3, <2>4, <2>5, <2>7, <3>1 DEF P
  <2> QED
    BY <2>6, <2>7
<1>5. PICK n \in Nat : n = Cardinality(U)
  BY <1>1, FS_CardinalityType
<1>6. n \in done
  <2> HIDE DEF done
  <2>1. \A i \in Nat : i \in done => i + 1 \in done
    BY <1>4
  <2> QED
    BY <1>3, <2>1, Counting
<1>7. QED
  <2>1. P(U)
    <3> HIDE DEF P
    <3> QED
      BY <1>5, <1>6
  <2> QED
    BY <2>1

(***************************************************************************)
(* Whichever element is taken first, and whatever is left out of terms     *)
(* that are not negative.                                                  *)
(***************************************************************************)
LEMMA SumRemove ==
  ASSUME NEW S, IsFiniteSet(S), NEW h, NEW f, SumOf(f, h, S),
         NEW t \in SUBSET S, NEW y \in t
  PROVE  f[t] = h[y] + f[t \ {y}]
<1> DEFINE done == {n \in Nat : \A s \in SUBSET S : \A x \in s :
                                  Cardinality(s) = n => f[s] = h[x] + f[s \ {x}]}
<1>1. 0 \in done
  <2> SUFFICES ASSUME NEW s \in SUBSET S, NEW x \in s, Cardinality(s) = 0
               PROVE  FALSE
    OBVIOUS
  <2>1. Cardinality(s) # 0
    BY Smaller
  <2> QED
    BY <2>1
<1>2. ASSUME NEW n \in Nat, n \in done
      PROVE  n + 1 \in done
  <2> SUFFICES ASSUME NEW s \in SUBSET S, NEW x \in s, Cardinality(s) = n + 1
               PROVE  f[s] = h[x] + f[s \ {x}]
    OBVIOUS
  <2>1. PICK c \in s : /\ f[s] = h[c] + f[s \ {c}]
                       /\ h[c] \in Int /\ f[s \ {c}] \in Int
    BY SumStep
  <2>2. CASE c = x
    BY <2>1, <2>2
  <2>3. CASE c # x
    <3>1. /\ s \ {c} \in SUBSET S /\ s \ {x} \in SUBSET S
          /\ Cardinality(s \ {c}) = n /\ Cardinality(s \ {x}) = n
      <4>1. Cardinality(s \ {c}) = Cardinality(s) - 1 /\ Cardinality(s \ {x}) = Cardinality(s) - 1
        BY Smaller
      <4> QED
        BY <4>1
    <3>2. x \in s \ {c} /\ c \in s \ {x}
      BY <2>3
    <3>3. f[s \ {c}] = h[x] + f[(s \ {c}) \ {x}]
      BY <1>2, <3>1, <3>2
    <3>4. f[s \ {x}] = h[c] + f[(s \ {x}) \ {c}]
      BY <1>2, <3>1, <3>2
    <3>5. (s \ {c}) \ {x} = (s \ {x}) \ {c}
      OBVIOUS
    <3>6. h[x] \in Int /\ h[c] \in Int /\ f[(s \ {x}) \ {c}] \in Int
      BY DEF SumOf
    <3>7. PICK v \in Int : v = f[(s \ {x}) \ {c}]
      BY <3>6
    <3>8. f[s] = h[c] + (h[x] + v) /\ f[s \ {x}] = h[c] + v
      BY <2>1, <3>3, <3>4, <3>5, <3>7
    <3> QED
      BY <3>6, <3>8
  <2> QED
    BY <2>2, <2>3
<1>3. PICK n \in Nat : n = Cardinality(t)
  BY Smaller
<1>4. n \in done
  <2> HIDE DEF done
  <2>1. \A i \in Nat : i \in done => i + 1 \in done
    BY <1>2
  <2> QED
    BY <1>1, <2>1, Counting
<1>5. QED
  BY <1>3, <1>4

LEMMA SumSubset ==
  ASSUME NEW S, IsFiniteSet(S), NEW h, NEW f, SumOf(f, h, S),
         \A x \in S : h[x] >= 0, NEW T \in SUBSET S
  PROVE  f[T] <= f[S]
<1> DEFINE done == {n \in Nat : \A s \in SUBSET S :
                      T \subseteq s /\ Cardinality(s) = n => f[T] <= f[s]}
<1>1. 0 \in done
  <2> SUFFICES ASSUME NEW s \in SUBSET S, T \subseteq s, Cardinality(s) = 0
               PROVE  f[T] <= f[s]
    OBVIOUS
  <2>1. IsFiniteSet(s)
    BY FS_Subset
  <2>2. s = {} /\ T = {}
    BY <2>1, FS_EmptySet
  <2>3. f[s] \in Int
    BY DEF SumOf
  <2> QED
    BY <2>2, <2>3
<1>2. ASSUME NEW n \in Nat, n \in done
      PROVE  n + 1 \in done
  <2> SUFFICES ASSUME NEW s \in SUBSET S, T \subseteq s, Cardinality(s) = n + 1
               PROVE  f[T] <= f[s]
    OBVIOUS
  <2>1. CASE s = T
    <3>1. f[s] \in Int
      BY DEF SumOf
    <3> QED
      BY <2>1, <3>1
  <2>2. CASE s # T
    <3>1. PICK x \in s : x \notin T
      BY <2>2
    <3>2. f[s] = h[x] + f[s \ {x}]
      BY SumRemove
    <3>3. Cardinality(s \ {x}) = Cardinality(s) - 1
      BY Smaller
    <3>4. f[T] <= f[s \ {x}]
      <4>1. s \ {x} \in SUBSET S /\ T \subseteq s \ {x} /\ Cardinality(s \ {x}) = n
        BY <3>1, <3>3
      <4> QED
        BY <1>2, <4>1
    <3>5. h[x] \in Int /\ h[x] >= 0 /\ f[s \ {x}] \in Int /\ f[T] \in Int
      BY DEF SumOf
    <3> QED
      BY <3>2, <3>4, <3>5
  <2> QED
    BY <2>1, <2>2
<1>3. PICK n \in Nat : n = Cardinality(S)
  BY FS_CardinalityType
<1>4. n \in done
  <2> HIDE DEF done
  <2>1. \A i \in Nat : i \in done => i + 1 \in done
    BY <1>2
  <2> QED
    BY <1>1, <2>1, Counting
<1>5. QED
  BY <1>3, <1>4

(***************************************************************************)
(* What all processes that still run hold beyond their needs.              *)
(***************************************************************************)
Pairs(stopped) == (Procs \ stopped) \X Procs

Holds(stopped, r, cs, co, qu) ==
  [pa \in Pairs(stopped) |->
     Hold(r[pa[1]], cs[pa[1]], co[pa[1]], qu[pa[1]], pa[2])]

Forgotten(stopped, r, cs, co, qu, n) ==
  /\ \A pa \in Pairs(stopped) : Holds(stopped, r, cs, co, qu)[pa] >= 0
  /\ \E f : SumOf(f, Holds(stopped, r, cs, co, qu), Pairs(stopped)) /\ f[Pairs(stopped)] <= n

RefsInv ==
  /\ SourceInv /\ RefTypes
  /\ Forgotten(aborted, refs, comms, copies, queue, probes)

LEMMA PairsFinite ==
  ASSUME NEW stopped
  PROVE  IsFiniteSet(Pairs(stopped))
<1>1. Procs \ stopped \in SUBSET Procs
  OBVIOUS
<1>2. IsFiniteSet(Procs \ stopped)
  BY <1>1, CommunicatorsAssumption, FS_Subset
<1>3. QED
  BY <1>2, CommunicatorsAssumption, FS_Product DEF Pairs

(***************************************************************************)
(* One step: `one' is what the step may forget of the address x.           *)
(***************************************************************************)
Keeps(p, x, one) ==
  Balanced(p, [a \in Procs |-> IF a = x THEN one ELSE 0])

LEMMA ForgottenStep ==
  ASSUME RefsInv, SourceInv', NEW p \in Procs, NEW x \in Procs, NEW one \in {0, 1},
         Keeps(p, x, one), probes' \in Nat, probes' >= probes + one
  PROVE  /\ refs' \in [Procs -> [Procs -> Nat]]
         /\ copies' \in [Procs -> Seq(Procs)] /\ aborted' \subseteq Procs
         /\ Forgotten(aborted', refs', comms', copies', queue', probes')
<1> DEFINE extra == [a \in Procs |-> IF a = x THEN one ELSE 0]
           S == Pairs(aborted)
           T == Pairs(aborted')
           h == Holds(aborted, refs, comms, copies, queue)
           g == Holds(aborted', refs', comms', copies', queue')
           z == <<p, x>>
<1>1. /\ \A q \in Procs \ {p} : /\ refs'[q] = refs[q] /\ comms'[q] = comms[q]
                                /\ copies'[q] = copies[q] /\ queue'[q] = queue[q]
      /\ refs' \in [Procs -> [Procs -> Int]] /\ copies' \in [Procs -> Seq(Procs)]
      /\ p \notin aborted
      /\ aborted' = aborted \/ aborted' = aborted \cup {p}
      /\ aborted' = aborted \cup {p} => refs'[p] = refs[p] \/ aborted' = aborted
  BY DEF Keeps, Balanced
<1>2. p \notin aborted' =>
        \A a \in Procs : Hold(refs'[p], comms'[p], copies'[p], queue'[p], a)
          = Hold(refs[p], comms[p], copies[p], queue[p], a) + IF a = x THEN one ELSE 0
  <2> SUFFICES ASSUME p \notin aborted', NEW a \in Procs
               PROVE  Hold(refs'[p], comms'[p], copies'[p], queue'[p], a)
          = Hold(refs[p], comms[p], copies[p], queue[p], a) + IF a = x THEN one ELSE 0
    OBVIOUS
  <2>1. Hold(refs'[p], comms'[p], copies'[p], queue'[p], a)
          = Hold(refs[p], comms[p], copies[p], queue[p], a) + extra[a]
    BY DEF Keeps, Balanced
  <2>2. extra[a] = IF a = x THEN one ELSE 0
    OBVIOUS
  <2> HIDE DEF extra
  <2> QED
    BY <2>1, <2>2
<1>3. TypeInv /\ aborted' \subseteq Procs
  BY <1>1 DEF RefsInv, SourceInv, TypeInv, RefTypes
<1>4. /\ comms' \in [Procs -> Seq(Comm)] /\ queue' \in [Procs -> Seq(Procs)]
  BY DEF SourceInv, CommInv, NetInv
<1>5. \A pa \in S : h[pa] = Hold(refs[pa[1]], comms[pa[1]], copies[pa[1]], queue[pa[1]], pa[2])
  BY DEF Holds
<1>6. \A pa \in T : g[pa] = Hold(refs'[pa[1]], comms'[pa[1]], copies'[pa[1]], queue'[pa[1]], pa[2])
  BY DEF Holds
<1>7. T \subseteq S
  BY <1>1 DEF Pairs
<1>8. PICK f : SumOf(f, h, S) /\ f[S] <= probes
  BY DEF RefsInv, Forgotten
<1>9. \A pa \in S : h[pa] >= 0
  BY DEF RefsInv, Forgotten
<1>10. \A pa \in S : h[pa] \in Int
  BY <1>8 DEF SumOf
<1> HIDE DEF h, g
<1>11. ASSUME NEW pa \in T
       PROVE  g[pa] = h[pa] + IF pa = z THEN one ELSE 0
  <2>1. pa = <<pa[1], pa[2]>> /\ pa[1] \in Procs /\ pa[1] \notin aborted' /\ pa[2] \in Procs
        /\ pa \in S /\ h[pa] \in Int
    BY <1>7, <1>10 DEF Pairs
  <2>2. CASE pa[1] # p
    <3>1. g[pa] = h[pa]
      <4>1. PICK q \in Procs \ {p} : q = pa[1]
        BY <2>1, <2>2
      <4>2. /\ refs'[q] = refs[q] /\ comms'[q] = comms[q]
            /\ copies'[q] = copies[q] /\ queue'[q] = queue[q]
        BY <1>1
      <4>3. /\ g[pa] = Hold(refs'[q], comms'[q], copies'[q], queue'[q], pa[2])
            /\ h[pa] = Hold(refs[q], comms[q], copies[q], queue[q], pa[2])
        BY <1>5, <1>6, <2>1, <4>1
      <4> QED
        BY <4>2, <4>3
    <3>2. pa # z
      BY <2>2
    <3> QED
      BY <2>1, <3>1, <3>2
  <2>3. CASE pa[1] = p
    <3>1. pa = z <=> pa[2] = x
      BY <2>1, <2>3
    <3>2. g[pa] = Hold(refs'[p], comms'[p], copies'[p], queue'[p], pa[2])
      BY <1>6, <2>3
    <3>3. h[pa] = Hold(refs[p], comms[p], copies[p], queue[p], pa[2])
      BY <1>5, <2>1, <2>3
    <3>4. p \notin aborted'
      BY <2>1, <2>3
    <3>5. Hold(refs'[p], comms'[p], copies'[p], queue'[p], pa[2])
            = Hold(refs[p], comms[p], copies[p], queue[p], pa[2]) + IF pa[2] = x THEN one ELSE 0
      BY <1>2, <2>1, <3>4
    <3> QED
      BY <3>1, <3>2, <3>3, <3>5
  <2> QED
    BY <2>2, <2>3
<1>12. \A pa \in T : g[pa] \in Int /\ g[pa] >= 0
  BY <1>7, <1>9, <1>10, <1>11
<1>13. g \in [T -> Int]
  BY <1>12 DEF g, Holds
<1>14. IsFiniteSet(S) /\ IsFiniteSet(T)
  BY PairsFinite
<1>15. PICK e : SumOf(e, g, T)
  BY <1>13, <1>14, SumExists
<1>16. e[T] <= f[T] + IF z \in T THEN one ELSE 0
  <2>1. \A pa \in T : g[pa] <= h[pa] + IF pa = z THEN one ELSE 0
    BY <1>7, <1>10, <1>11
  <2>2. one \in Nat
    OBVIOUS
  <2> HIDE DEF S, T, z
  <2> QED
    BY <1>7, <1>8, <1>14, <1>15, <2>1, <2>2, SumAtMost
<1>17. f[T] <= f[S]
  <2> HIDE DEF S, T
  <2> QED
    BY <1>7, <1>8, <1>9, <1>14, SumSubset
<1>18. e[T] \in Int /\ f[T] \in Int /\ f[S] \in Int /\ probes \in Nat
  BY <1>7, <1>8, <1>15 DEF SumOf, RefsInv, RefTypes
<1>19. e[T] <= probes'
  BY <1>8, <1>16, <1>17, <1>18
<1>20. Forgotten(aborted', refs', comms', copies', queue', probes')
  <2>1. (\A pa \in T : g[pa] >= 0) /\ SumOf(e, g, T) /\ e[T] <= probes'
    BY <1>12, <1>15, <1>19
  <2> QED
    BY <2>1 DEF Forgotten, g
<1>21. ASSUME NEW q \in Procs, NEW a \in Procs
       PROVE  refs'[q][a] \in Nat
  <2>1. refs[q][a] \in Nat
    BY DEF RefsInv, RefTypes
  <2>2. CASE q # p
    BY <1>1, <2>1, <2>2
  <2>3. CASE q = p /\ p \in aborted'
    <3>1. refs'[p] = refs[p]
      BY <1>1, <2>3
    <3> QED
      BY <2>1, <2>3, <3>1
  <2>4. CASE q = p /\ p \notin aborted'
    <3>1. PICK pa : pa = <<p, a>>
      OBVIOUS
    <3>2. pa \in T /\ pa[1] = p /\ pa[2] = a
      BY <2>4, <3>1 DEF Pairs
    <3>3. Hold(refs'[p], comms'[p], copies'[p], queue'[p], a) >= 0
      BY <1>6, <1>12, <3>2
    <3>4. comms'[p] \in Seq(Comm) /\ copies'[p] \in Seq(Procs) /\ queue'[p] \in Seq(Procs)
          /\ refs'[p][a] \in Int
      BY <1>1, <1>4
    <3>5. PICK n \in Nat : n = Need(comms'[p], copies'[p], queue'[p], a)
      BY <3>4, NeedInt
    <3>6. Hold(refs'[p], comms'[p], copies'[p], queue'[p], a) = refs'[p][a] - n
      BY <3>5 DEF Hold, Need
    <3> QED
      BY <2>4, <3>3, <3>4, <3>6
  <2> QED
    BY <2>2, <2>3, <2>4
<1>22. refs' \in [Procs -> [Procs -> Nat]]
  <2>1. \A q \in Procs : refs'[q] \in [Procs -> Nat]
    BY <1>1, <1>21
  <2> QED
    BY <1>1, <2>1
<1>23. QED
  BY <1>1, <1>3, <1>20, <1>22

LEMMA KeepsNothing ==
  ASSUME NEW p \in Procs, Balanced(p, NoExtra)
  PROVE  Keeps(p, p, 0)
<1>1. NoExtra = [a \in Procs |-> IF a = p THEN 0 ELSE 0]
  BY DEF NoExtra
<1>2. QED
  BY <1>1, Zenon DEF Keeps

(***************************************************************************)
(* Each call leaves what a process holds beyond its needs as it was, but   *)
(* for a probe, which may forget one reference.                            *)
(***************************************************************************)
LEMMA StepKeeps ==
  ASSUME RefsInv, NEW p \in Procs, Step(p)
  PROVE  /\ \E x \in Procs, one \in {0, 1} : Keeps(p, x, one) /\ probes' >= probes + one
         /\ {created, sent, probes, failures}' \subseteq Nat
<1>1. TypeInv /\ CommInv
  BY DEF RefsInv, SourceInv, TypeInv
<1>2. {created, sent, probes, failures} \subseteq Nat
  BY DEF RefsInv, RefTypes
<1>3. ASSUME Balanced(p, NoExtra), probes' = probes
      PROVE  \E x \in Procs, one \in {0, 1} : Keeps(p, x, one) /\ probes' >= probes + one
  <2>1. Keeps(p, p, 0) /\ probes' >= probes + 0
    BY <1>2, <1>3, KeepsNothing
  <2> QED
    BY <2>1
<1>4. CASE Create(p) \/ mona_comm_dup(p) \/ mona_comm_subset(p)
  <2>1. PICK peers \in Seq(Procs) : mona_comm_create(p, peers)
    BY <1>1, <1>4, MadeOf
  <2>2. Balanced(p, NoExtra)
    BY <1>1, <2>1, CreateBalanced
  <2>3. /\ created' = created + 1 /\ sent' = sent /\ probes' = probes
        /\ failures' = failures \/ failures' = failures + 1
    BY <2>1 DEF mona_comm_create, Fails
  <2> QED
    BY <1>2, <1>3, <2>2, <2>3
<1>5. CASE mona_comm_free(p) \/ mona_comm_set_use_unexpected_msg(p)
  <2>1. Balanced(p, NoExtra)
    BY <1>1, <1>5, FreeBalanced, ModeBalanced
  <2>2. created' = created /\ sent' = sent /\ probes' = probes /\ failures' = failures
    BY <1>5 DEF mona_comm_free, mona_comm_set_use_unexpected_msg, bounds
  <2> QED
    BY <1>2, <1>3, <2>1, <2>2
<1>6. CASE mona_comm_addr(p) \/ mona_addr_free(p)
  <2>1. Balanced(p, NoExtra)
    BY <1>1, <1>6, AddrBalanced, AddrFreeBalanced
  <2>2. created' = created /\ sent' = sent /\ probes' = probes /\ failures' = failures
    BY <1>6 DEF mona_comm_addr, mona_addr_free, bounds
  <2> QED
    BY <1>2, <1>3, <2>1, <2>2
<1>7. CASE mona_comm_send(p)
  <2>1. /\ p \notin aborted /\ UNCHANGED <<comms, refs, copies, queue, aborted>>
        /\ created' = created /\ sent' = sent + 1 /\ probes' = probes /\ failures' = failures
    BY <1>7 DEF mona_comm_send, Live
  <2>2. Balanced(p, NoExtra)
    BY <1>1, <2>1, SameBalanced
  <2> QED
    BY <1>2, <1>3, <2>1, <2>2
<1>8. CASE mona_comm_recv(p)
  <2>1. Balanced(p, NoExtra)
    <3>1. CASE RecvQueued(p) \/ RecvNew(p)
      BY <1>1, <3>1, RecvQueuedBalanced, RecvNewBalanced
    <3>2. CASE RecvExpected(p)
      <4>1. p \notin aborted /\ UNCHANGED <<comms, refs, copies, queue, aborted>>
        BY <3>2, QueryLive DEF RecvExpected
      <4> QED
        BY <1>1, <4>1, SameBalanced
    <3> QED
      BY <1>8, <3>1, <3>2 DEF mona_comm_recv
  <2>2. created' = created /\ sent' = sent /\ probes' = probes /\ failures' = failures
    BY <1>8 DEF mona_comm_recv, RecvQueued, RecvNew, RecvExpected, bounds
  <2> QED
    BY <1>2, <1>3, <2>1, <2>2
<1>9. CASE ProbeQueued(p)
  <2>1. /\ probes' = probes + 1
        /\ \/ Balanced(p, NoExtra)
           \/ \E x \in Procs : Balanced(p, OneExtra(x))
    BY <1>1, <1>9, ProbeQueuedBalanced
  <2>2. created' = created /\ sent' = sent /\ failures' = failures
    BY <1>9 DEF ProbeQueued
  <2>3. CASE Balanced(p, NoExtra)
    <3>1. Keeps(p, p, 0) /\ probes' >= probes + 0
      BY <1>2, <2>1, <2>3, KeepsNothing
    <3>2. \E x \in Procs, one \in {0, 1} : Keeps(p, x, one) /\ probes' >= probes + one
      BY <3>1
    <3> QED
      BY <1>2, <2>1, <2>2, <3>2
  <2>4. ASSUME NEW x \in Procs, Balanced(p, OneExtra(x))
        PROVE  \E y \in Procs, one \in {0, 1} : Keeps(p, y, one) /\ probes' >= probes + one
    <3>1. Keeps(p, x, 1)
      BY <2>4, Zenon DEF Keeps, OneExtra
    <3>2. probes' >= probes + 1
      BY <1>2, <2>1
    <3> QED
      BY <3>1, <3>2
  <2> QED
    BY <1>2, <2>1, <2>2, <2>3, <2>4
<1>10. CASE ProbeNew(p)
  <2>1. Balanced(p, NoExtra)
    BY <1>1, <1>10, ProbeNewBalanced
  <2>2. created' = created /\ sent' = sent /\ probes' = probes /\ failures' = failures
    BY <1>10 DEF ProbeNew, bounds
  <2> QED
    BY <1>2, <1>3, <2>1, <2>2
<1>11. QED
  BY <1>4, <1>5, <1>6, <1>7, <1>8, <1>9, <1>10 DEF Step, mona_comm_iprobe

LEMMA RefsInvInit == Init => RefsInv
<1> SUFFICES ASSUME Init PROVE RefsInv
  OBVIOUS
<1>1. SourceInv
  BY SourceInvInit
<1>2. RefTypes
  BY DEF Init, RefTypes
<1> DEFINE S == Pairs(aborted)
           h == Holds(aborted, refs, comms, copies, queue)
           f == [s \in SUBSET S |-> 0]
<1>3. ASSUME NEW a
      PROVE  Cardinality(Ranked(<< >>, a)) = 0
  <2>1. LiveOf(<< >>) = {}
    BY DEF LiveOf
  <2>2. Ranked(<< >>, a) = {}
    BY <2>1 DEF Ranked
  <2> QED
    BY <2>2, FS_EmptySet
<1>4. ASSUME NEW pa \in S
      PROVE  h[pa] = 0
  <2>1. PICK p \in Procs, a \in Procs : p = pa[1] /\ a = pa[2]
    BY DEF Pairs
  <2>2. h[pa] = Hold(refs[p], comms[p], copies[p], queue[p], a)
    BY <2>1 DEF Holds
  <2>3. refs[p][a] = 0 /\ comms[p] = << >> /\ copies[p] = << >> /\ queue[p] = << >>
    BY DEF Init
  <2>4. Cardinality(Ranked(comms[p], a)) = 0 /\ Times(copies[p], a) = 0 /\ Times(queue[p], a) = 0
    BY <1>3, <2>3, TimesEmpty
  <2> QED
    BY <2>2, <2>3, <2>4 DEF Hold
<1>5. DOMAIN h = S /\ h = [pa \in S |-> h[pa]]
  BY DEF Holds
<1> HIDE DEF h, S
<1>6. h \in [S -> Int]
  BY <1>4, <1>5
<1>7. SumOf(f, h, S)
  <2>1. ASSUME NEW s \in SUBSET S, s # {}
        PROVE  f[s] = h[Some(s)] + f[s \ {Some(s)}]
    <3>1. Some(s) \in S /\ s \ {Some(s)} \in SUBSET S
      BY <2>1 DEF Some
    <3>2. h[Some(s)] = 0
      BY <1>4, <3>1
    <3> QED
      BY <3>1, <3>2
  <2>2. f \in [SUBSET S -> Int] /\ f[{}] = 0
    OBVIOUS
  <2> HIDE DEF f
  <2> QED
    BY <1>6, <2>1, <2>2 DEF SumOf
<1>8. f[S] <= probes
  BY DEF Init
<1>9. Forgotten(aborted, refs, comms, copies, queue, probes)
  BY <1>4, <1>7, <1>8 DEF Forgotten, h, S
<1>10. QED
  BY <1>1, <1>2, <1>9 DEF RefsInv

LEMMA RefsInvNext == RefsInv /\ [Next]_vars => RefsInv'
<1> SUFFICES ASSUME RefsInv, [Next]_vars PROVE RefsInv'
  OBVIOUS
<1>1. SourceInv'
  BY SourceInvNext DEF RefsInv
<1>2. CASE UNCHANGED vars
  BY <1>1, <1>2 DEF vars, bounds, RefsInv, RefTypes
<1>3. ASSUME NEW p \in Procs, Step(p)
      PROVE  RefsInv'
  <2>1. PICK x \in Procs, one \in {0, 1} : Keeps(p, x, one) /\ probes' >= probes + one
    BY <1>3, StepKeeps
  <2>2. {created', sent', probes', failures'} \subseteq Nat
    BY <1>3, StepKeeps
  <2>3. probes' \in Nat
    BY <2>2
  <2>4. /\ refs' \in [Procs -> [Procs -> Nat]]
        /\ copies' \in [Procs -> Seq(Procs)] /\ aborted' \subseteq Procs
        /\ Forgotten(aborted', refs', comms', copies', queue', probes')
    BY <1>1, <2>1, <2>3, ForgottenStep
  <2> QED
    BY <1>1, <2>2, <2>4 DEF RefsInv, RefTypes
<1>4. QED
  BY <1>2, <1>3 DEF Next

LEMMA SumUnique ==
  ASSUME NEW S, IsFiniteSet(S), NEW h, NEW f, SumOf(f, h, S), NEW e,
         \A s \in SUBSET S : e[s] = IF s = {} THEN 0 ELSE h[Some(s)] + e[s \ {Some(s)}]
  PROVE  e[S] = f[S]
<1> DEFINE done == {n \in Nat : \A s \in SUBSET S : Cardinality(s) = n => e[s] = f[s]}
<1>1. 0 \in done
  <2>1. e[{}] = 0 /\ f[{}] = 0
    BY DEF SumOf
  <2> SUFFICES ASSUME NEW s \in SUBSET S, Cardinality(s) = 0
               PROVE  e[s] = f[s]
    OBVIOUS
  <2>2. IsFiniteSet(s)
    BY FS_Subset
  <2>3. s = {}
    BY <2>2, FS_EmptySet
  <2> QED
    BY <2>1, <2>3
<1>2. ASSUME NEW n \in Nat, n \in done
      PROVE  n + 1 \in done
  <2> SUFFICES ASSUME NEW s \in SUBSET S, Cardinality(s) = n + 1
               PROVE  e[s] = f[s]
    OBVIOUS
  <2>1. s # {}
    BY FS_EmptySet
  <2>2. PICK x \in s : x = Some(s) /\ f[s] = h[x] + f[s \ {x}]
    BY <2>1, SumStep
  <2>3. e[s] = h[x] + e[s \ {x}]
    BY <2>1, <2>2
  <2>4. Cardinality(s \ {x}) = Cardinality(s) - 1
    BY Smaller
  <2>5. e[s \ {x}] = f[s \ {x}]
    BY <1>2, <2>4
  <2> QED
    BY <2>2, <2>3, <2>5
<1>3. PICK n \in Nat : n = Cardinality(S)
  BY FS_CardinalityType
<1>4. n \in done
  <2> HIDE DEF done
  <2>1. \A i \in Nat : i \in done => i + 1 \in done
    BY <1>2
  <2> QED
    BY <1>1, <2>1, Counting
<1>5. QED
  BY <1>3, <1>4

(***************************************************************************)
(* The fold that RefsBalanced writes is such a sum.                        *)
(***************************************************************************)
IsSum(f, S) ==
  f = [s \in SUBSET S |->
         IF s = {} THEN 0
         ELSE Held((CHOOSE x \in s : TRUE)[1], (CHOOSE x \in s : TRUE)[2])
                + f[s \ {CHOOSE x \in s : TRUE}]]

LEMMA SumFold ==
  ASSUME NEW S, NEW f, f = CHOOSE g : IsSum(g, S)
  PROVE  MapThenSumSet(LAMBDA pa : Held(pa[1], pa[2]), S) = f[S]
<1>1. f = CHOOSE g : g = [s \in SUBSET S |->
            IF s = {} THEN 0
            ELSE Held((CHOOSE x \in s : TRUE)[1], (CHOOSE x \in s : TRUE)[2])
                   + g[s \ {CHOOSE x \in s : TRUE}]]
  BY DEF IsSum
<1>2. QED
  BY <1>1 DEF MapThenSumSet, MapThenFoldSet

LEMMA RefsInvImplies == RefsInv => RefsBalanced
<1> SUFFICES ASSUME RefsInv PROVE RefsBalanced
  OBVIOUS
<1> DEFINE S == Pairs(aborted)
           h == Holds(aborted, refs, comms, copies, queue)
<1>1. \A pa \in S : h[pa] >= 0
  BY DEF RefsInv, Forgotten
<1>2. PICK f : SumOf(f, h, S) /\ f[S] <= probes
  BY DEF RefsInv, Forgotten
<1>3. ASSUME NEW pa \in S
      PROVE  Held(pa[1], pa[2]) = h[pa]
  <2>1. PICK p \in Procs \ aborted, a \in Procs : p = pa[1] /\ a = pa[2]
    BY DEF Pairs
  <2>2. h[pa] = Hold(refs[p], comms[p], copies[p], queue[p], a)
    BY <2>1 DEF Holds
  <2>3. Held(p, a) = Hold(refs[p], comms[p], copies[p], queue[p], a)
    BY HeldIs
  <2> QED
    BY <2>1, <2>2, <2>3
<1>4. IsFiniteSet(S)
  BY PairsFinite
<1> HIDE DEF h, S
<1>5. ASSUME NEW s \in SUBSET S, s # {}
      PROVE  h[Some(s)] = Held((CHOOSE x \in s : TRUE)[1], (CHOOSE x \in s : TRUE)[2])
  <2>1. Some(s) \in S
    BY <1>5 DEF Some
  <2>2. Held(Some(s)[1], Some(s)[2]) = h[Some(s)]
    BY <1>3, <2>1
  <2> QED
    BY <2>2 DEF Some
<1>6. IsSum(f, S)
  <2>1. \A s \in SUBSET S : f[s] = IF s = {} THEN 0 ELSE h[Some(s)] + f[s \ {Some(s)}]
    BY <1>2 DEF SumOf
  <2>2. f = [s \in SUBSET S |-> f[s]]
    BY <1>2 DEF SumOf
  <2>3. \A s \in SUBSET S : f[s] = IF s = {} THEN 0
           ELSE Held((CHOOSE x \in s : TRUE)[1], (CHOOSE x \in s : TRUE)[2])
                  + f[s \ {CHOOSE x \in s : TRUE}]
    BY <1>5, <2>1 DEF Some
  <2> QED
    BY <2>2, <2>3 DEF IsSum
<1>7. PICK e : e = CHOOSE g : IsSum(g, S)
  OBVIOUS
<1>8. IsSum(e, S)
  BY <1>6, <1>7
<1>9. ASSUME NEW s \in SUBSET S
      PROVE  e[s] = IF s = {} THEN 0 ELSE h[Some(s)] + e[s \ {Some(s)}]
  <2>1. e[s] = IF s = {} THEN 0
           ELSE Held((CHOOSE x \in s : TRUE)[1], (CHOOSE x \in s : TRUE)[2])
                  + e[s \ {CHOOSE x \in s : TRUE}]
    BY <1>8 DEF IsSum
  <2>2. CASE s = {}
    BY <2>1, <2>2
  <2>3. CASE s # {}
    BY <1>5, <2>1, <2>3 DEF Some
  <2> QED
    BY <2>2, <2>3
<1>10. e[S] = f[S]
  BY <1>2, <1>4, <1>9, SumUnique
<1>11. MapThenSumSet(LAMBDA pa : Held(pa[1], pa[2]), S) = e[S]
  BY <1>7, SumFold
<1>12. MapThenSumSet(LAMBDA pa : Held(pa[1], pa[2]), S) <= probes
  BY <1>2, <1>10, <1>11
<1>13. \A pa \in S : Held(pa[1], pa[2]) >= 0
  BY <1>1, <1>3
<1>14. QED
  BY <1>12, <1>13, Zenon DEF RefsBalanced, S, Pairs

LEMMA TypesFollow == RefsInv => TypeOK
<1> SUFFICES ASSUME RefsInv PROVE TypeOK
  OBVIOUS
<1>1. /\ CommInv /\ NetInv /\ RefTypes
  BY DEF RefsInv, SourceInv
<1>2. ASSUME NEW p \in Procs, NEW c \in ToSet(comms[p])
      PROVE  IsComm(p, c)
  <2>1. PICK i \in DOMAIN comms[p] : c = comms[p][i]
    BY DEF ToSet
  <2>2. c \in Comm /\ Own(p, c)
    BY <1>1, <2>1, ElementOfSeq, LenProperties DEF CommInv
  <2>3. PICK all \in Seq(Procs) : all = c.all
    BY <2>2 DEF Comm
  <2>4. /\ p \in ToSet(all) /\ c.rank = IndexOf(all, p) /\ IsInjective(all)
        /\ c.use_unexpected_msg \in BOOLEAN /\ c.live \in BOOLEAN
    BY <2>2, <2>3 DEF Comm, Own
  <2>5. DOMAIN all = 1..Len(all) /\ Len(all) \in Nat
    BY LenProperties
  <2>6. PICK j \in DOMAIN all : all[j] = p /\ c.rank = j - 1
    <3>1. \E j \in DOMAIN all : all[j] = p
      BY <2>4 DEF ToSet
    <3> QED
      BY <2>4, <3>1 DEF IndexOf
  <2>7. c.rank \in Ranks(c) /\ Address(c, c.rank) = p
    <3>1. c.rank + 1 = j /\ c.rank \in 0 .. Len(all) - 1
      BY <2>5, <2>6
    <3> QED
      BY <2>3, <2>6, <3>1 DEF Ranks, Address
  <2>8. ToSet(c.all) \subseteq Procs
    BY <2>3, <2>5, ElementOfSeq DEF ToSet
  <2> QED
    BY <2>3, <2>4, <2>7, <2>8 DEF IsComm
<1>3. QED
  BY <1>1, <1>2 DEF TypeOK, NetInv, RefTypes

(***************************************************************************)
(* Each communicator of a process has each address once and knows the rank *)
(* of the process itself, references are counts that never fall below      *)
(* zero, and what is queued and copied are addresses (mona_comm_create,    *)
(* NA_Addr_dup and NA_Addr_free in mona-comm.c).                           *)
(***************************************************************************)
THEOREM TypesHold == Spec => []TypeOK
<1>1. Init => RefsInv
  BY RefsInvInit
<1>2. RefsInv /\ [Next]_vars => RefsInv'
  BY RefsInvNext
<1>3. RefsInv => TypeOK
  BY TypesFollow
<1>4. QED
  BY <1>1, <1>2, <1>3, PTL DEF Spec

(***************************************************************************)
(* No address is released while a communicator, a copy or a queued message *)
(* needs it, whichever way mona_comm_create leaves (its error paths), and  *)
(* what is held for nothing is at most one reference for each probe that   *)
(* found a message: mona_uiprobe copies the address, and mona_comm_iprobe  *)
(* drops the copy only when it has asked for it.                           *)
(***************************************************************************)
THEOREM ReferencesBalanced == Spec => []RefsBalanced
<1>1. Init => RefsInv
  BY RefsInvInit
<1>2. RefsInv /\ [Next]_vars => RefsInv'
  BY RefsInvNext
<1>3. RefsInv => RefsBalanced
  BY RefsInvImplies
<1>4. QED
  BY <1>1, <1>2, <1>3, PTL DEF Spec

-----------------------------------------------------------------------------
(***************************************************************************)
(* setup_teams, turn by turn: teams[i] is what it has after i addresses.   *)
(***************************************************************************)
Known(t, p) == t.known # << >> /\ Last(t.known) = Node[p]

Teams ==
  [known : Seq({Node[p] : p \in Procs}), i : Nat, leaders : Seq(Procs), leaders_rank : Nat,
   local : Seq(Procs), local_rank : Nat, leader_rank : Nat]

TurnByTurn(teams, self, all) ==
  /\ teams \in [0 .. Len(all) -> Teams]
  /\ teams[0] = NoTeams
  /\ \A i \in 0 .. Len(all) - 1 :
       teams[i + 1] = Turn(self, teams[i], all[i + 1], Known(teams[i], all[i + 1]))

LEMMA TurnTyped ==
  ASSUME NEW self \in Procs, NEW t \in Teams, NEW p \in Procs, NEW b \in BOOLEAN
  PROVE  Turn(self, t, p, b) \in Teams
<1>1. /\ t.known \in Seq({Node[q] : q \in Procs}) /\ t.i \in Nat /\ t.leaders \in Seq(Procs)
      /\ t.leaders_rank \in Nat /\ t.local \in Seq(Procs) /\ t.local_rank \in Nat
      /\ t.leader_rank \in Nat
  BY DEF Teams
<1>2. /\ Append(t.known, Node[p]) \in Seq({Node[q] : q \in Procs})
      /\ Append(t.leaders, p) \in Seq(Procs) /\ Append(t.local, p) \in Seq(Procs)
  BY <1>1, AppendProperties
<1>3. Len(t.leaders) \in Nat /\ Len(t.local) \in Nat
  BY <1>1, LenProperties
<1>4. QED
  BY <1>1, <1>2, <1>3 DEF Turn, Teams

IsTeams(f, self, all) ==
  f = [s \in SUBSET DOMAIN all |->
         IF s = {} THEN NoTeams
         ELSE Turn(self, f[s \ {Max(s)}], all[Max(s)],
                   f[s \ {Max(s)}].known # << >>
                     /\ Last(f[s \ {Max(s)}].known) = Node[all[Max(s)]])]

LEMMA TeamsFold ==
  ASSUME NEW self, NEW all, NEW f, f = CHOOSE g : IsTeams(g, self, all)
  PROVE  setup_teams(self, all) = f[DOMAIN all]
<1>1. f = CHOOSE g : g = [s \in SUBSET DOMAIN all |->
            IF s = {} THEN NoTeams
            ELSE Turn(self, g[s \ {Max(s)}], all[Max(s)],
                      g[s \ {Max(s)}].known # << >>
                        /\ Last(g[s \ {Max(s)}].known) = Node[all[Max(s)]])]
  BY DEF IsTeams
<1>2. QED
  BY <1>1, Zenon DEF setup_teams, FoldLeft, MapThenFoldSet

LEMMA MaxIn ==
  ASSUME NEW n \in Nat, NEW s \in SUBSET (1..n), s # {}
  PROVE  Max(s) \in s /\ \A x \in s : x <= Max(s)
<1> DEFINE t == {n - x : x \in s}
<1>1. t \in SUBSET Nat /\ t # {}
  <2>1. PICK y \in s : n - y \in t
    OBVIOUS
  <2>2. \A x \in s : n - x \in Nat
    OBVIOUS
  <2> QED
    BY <2>1, <2>2
<1>2. Min(t) \in t /\ \A x \in t : Min(t) <= x
  <2> HIDE DEF t
  <2> QED
    BY <1>1, MinProperties
<1>3. PICK m \in s : Min(t) = n - m
  BY <1>2
<1>4. \A x \in s : x <= m
  <2> SUFFICES ASSUME NEW x \in s PROVE x <= m
    OBVIOUS
  <2>1. n - m <= n - x
    BY <1>2, <1>3
  <2> QED
    BY <2>1
<1>5. QED
  BY <1>4 DEF Max

LEMMA TeamsExist ==
  ASSUME NEW self \in Procs, NEW all \in Seq(Procs)
  PROVE  \E f \in [SUBSET DOMAIN all -> Teams] : IsTeams(f, self, all)
<1> DEFINE S == DOMAIN all
           c == [s \in SUBSET S |-> Max(s)]
           op == [it \in S \X Teams |-> Turn(self, it[2], all[it[1]], Known(it[2], all[it[1]]))]
<1>1. Len(all) \in Nat /\ S = 1..Len(all) /\ \A i \in S : all[i] \in Procs
  BY LenProperties, ElementOfSeq
<1>2. IsFiniteSet(S)
  BY <1>1, FS_Interval
<1>3. \A s \in SUBSET S : s # {} => Max(s) \in s
  BY <1>1, MaxIn
<1>4. \A s \in SUBSET S : c[s] = Max(s)
  OBVIOUS
<1>5. Picks(c, S)
  BY <1>3, <1>4 DEF Picks
<1>6. NoTeams \in Teams
  BY DEF NoTeams, Teams
<1>7. ASSUME NEW i \in S, NEW t \in Teams
      PROVE  /\ op[<<i, t>>] = Turn(self, t, all[i], Known(t, all[i]))
             /\ op[<<i, t>>] \in Teams
  <2>1. Known(t, all[i]) \in BOOLEAN /\ all[i] \in Procs
    BY <1>1 DEF Known
  <2> QED
    BY <2>1, TurnTyped
<1>8. op \in [S \X Teams -> Teams]
  <2>1. ASSUME NEW it \in S \X Teams
        PROVE  op[it] \in Teams
    <3>1. PICK i \in S, t \in Teams : it = <<i, t>>
      OBVIOUS
    <3> QED
      BY <1>7, <3>1
  <2>2. op = [it \in S \X Teams |-> op[it]]
    OBVIOUS
  <2> HIDE DEF op
  <2> QED
    BY <2>1, <2>2
<1> HIDE DEF S, c, op
<1>9. CanFold(S, Teams, NoTeams, op, c)
  BY <1>2, <1>5, <1>6, <1>8 DEF CanFold
<1>10. PICK f \in [SUBSET S -> Teams] : \A s \in SUBSET S : FoldOn(f, s, NoTeams, op, c)
  <2>1. \A V, base, o, k : CanFold(S, V, base, o, k) =>
          \E f \in [SUBSET S -> V] : \A s \in SUBSET S : FoldOn(f, s, base, o, k)
    BY FoldExists
  <2>2. \E f \in [SUBSET S -> Teams] : \A s \in SUBSET S : FoldOn(f, s, NoTeams, op, c)
    BY <1>9, <2>1, Zenon
  <2> QED
    BY <2>2
<1>11. ASSUME NEW s \in SUBSET S
       PROVE  f[s] = IF s = {} THEN NoTeams
                     ELSE Turn(self, f[s \ {Max(s)}], all[Max(s)],
                               f[s \ {Max(s)}].known # << >>
                                 /\ Last(f[s \ {Max(s)}].known) = Node[all[Max(s)]])
  <2>1. f[s] = IF s = {} THEN NoTeams ELSE op[<<Max(s), f[s \ {Max(s)}]>>]
    BY <1>4, <1>10 DEF FoldOn
  <2>2. CASE s = {}
    BY <2>1, <2>2
  <2>3. CASE s # {}
    <3>1. Max(s) \in S /\ f[s \ {Max(s)}] \in Teams
      BY <1>3, <2>3
    <3>2. f[s] = Turn(self, f[s \ {Max(s)}], all[Max(s)], Known(f[s \ {Max(s)}], all[Max(s)]))
      BY <1>7, <2>1, <2>3, <3>1
    <3> QED
      BY <2>3, <3>2, Zenon DEF Known
  <2> QED
    BY <2>2, <2>3
<1>12. f = [s \in SUBSET S |-> f[s]]
  OBVIOUS
<1>13. IsTeams(f, self, all)
  <2>1. f = [s \in SUBSET S |->
               IF s = {} THEN NoTeams
               ELSE Turn(self, f[s \ {Max(s)}], all[Max(s)],
                         f[s \ {Max(s)}].known # << >>
                           /\ Last(f[s \ {Max(s)}].known) = Node[all[Max(s)]])]
    BY <1>11, <1>12
  <2> QED
    BY <2>1, Zenon DEF IsTeams, S
<1>14. QED
  BY <1>13 DEF S

LEMMA TeamsTurns ==
  ASSUME NEW self \in Procs, NEW all \in Seq(Procs)
  PROVE  \E teams : TurnByTurn(teams, self, all) /\ setup_teams(self, all) = teams[Len(all)]
<1>1. PICK f : f = CHOOSE g : IsTeams(g, self, all)
  OBVIOUS
<1>2. IsTeams(f, self, all) /\ setup_teams(self, all) = f[DOMAIN all]
  BY <1>1, TeamsExist, TeamsFold
<1>3. Len(all) \in Nat /\ DOMAIN all = 1..Len(all)
  BY LenProperties
<1>4. \A s \in SUBSET DOMAIN all :
        f[s] = IF s = {} THEN NoTeams
               ELSE Turn(self, f[s \ {Max(s)}], all[Max(s)], Known(f[s \ {Max(s)}], all[Max(s)]))
  BY <1>2, Zenon DEF IsTeams, Known
<1> DEFINE teams == [i \in 0 .. Len(all) |-> f[1..i]]
<1>5. teams[0] = NoTeams
  <2>1. 1..0 = {} /\ teams[0] = f[1..0]
    BY <1>3
  <2> QED
    BY <1>4, <2>1
<1>6. ASSUME NEW i \in 0 .. Len(all) - 1
      PROVE  teams[i + 1] = Turn(self, teams[i], all[i + 1], Known(teams[i], all[i + 1]))
  <2>1. PICK s \in SUBSET DOMAIN all : s = 1..(i + 1)
    BY <1>3
  <2>2. s # {} /\ i + 1 \in s /\ \A x \in s : x \in Int /\ x <= i + 1
    BY <1>3, <2>1
  <2>3. Max(s) = i + 1
    <3>1. Max(s) \in s /\ \A x \in s : x <= Max(s)
      BY <1>3, <2>2, MaxIn
    <3> QED
      BY <1>3, <2>2, <3>1
  <2>4. s \ {i + 1} = 1..i
    BY <2>1
  <2>5. f[s] = Turn(self, f[s \ {Max(s)}], all[Max(s)], Known(f[s \ {Max(s)}], all[Max(s)]))
    BY <1>4, <2>2
  <2>6. teams[i + 1] = f[s] /\ teams[i] = f[s \ {Max(s)}]
    BY <1>3, <2>1, <2>3, <2>4
  <2> QED
    BY <2>3, <2>5, <2>6
<1>7. teams[Len(all)] = f[DOMAIN all]
  BY <1>3
<1>8. \A i \in 0 .. Len(all) : teams[i] \in Teams
  <2> DEFINE done == {i \in Nat : i <= Len(all) => teams[i] \in Teams}
  <2> HIDE DEF teams
  <2>1. 0 \in done
    <3>1. NoTeams \in Teams
      BY DEF NoTeams, Teams
    <3> QED
      BY <1>5, <3>1
  <2>2. ASSUME NEW i \in Nat, i \in done
        PROVE  i + 1 \in done
    <3> SUFFICES ASSUME i + 1 <= Len(all) PROVE teams[i + 1] \in Teams
      OBVIOUS
    <3>1. i \in 0 .. Len(all) - 1 /\ teams[i] \in Teams
      BY <1>3, <2>2
    <3>2. all[i + 1] \in Procs /\ Known(teams[i], all[i + 1]) \in BOOLEAN
      BY <1>3, <3>1, ElementOfSeq DEF Known
    <3> QED
      BY <1>6, <3>1, <3>2, TurnTyped
  <2>3. \A i \in Nat : i \in done
    <3> HIDE DEF done
    <3> QED
      BY <2>1, <2>2, Counting
  <2> QED
    BY <1>3, <2>3
<1>9. TurnByTurn(teams, self, all)
  <2>1. teams = [i \in 0 .. Len(all) |-> teams[i]]
    OBVIOUS
  <2> HIDE DEF teams
  <2>2. teams \in [0 .. Len(all) -> Teams]
    BY <1>8, <2>1
  <2> QED
    BY <1>5, <1>6, <2>2 DEF TurnByTurn
<1> HIDE DEF teams
<1>10. QED
  BY <1>2, <1>7, <1>9

(***************************************************************************)
(* Two processes go through the list alike.                                *)
(***************************************************************************)
Alike(t, u, p, q, i) ==
  /\ t.known = u.known /\ t.leaders = u.leaders
  /\ t.i = i /\ u.i = i
  /\ Node[p] = Node[q] => t.local = u.local /\ t.leader_rank = u.leader_rank

LEMMA TurnsAlike ==
  ASSUME NEW all \in Seq(Procs), NEW p, NEW q, NEW t, NEW u,
         TurnByTurn(t, p, all), TurnByTurn(u, q, all)
  PROVE  Alike(t[Len(all)], u[Len(all)], p, q, Len(all))
<1> DEFINE done == {i \in Nat : i <= Len(all) => Alike(t[i], u[i], p, q, i)}
<1>1. Len(all) \in Nat
  BY LenProperties
<1>2. 0 \in done
  BY DEF TurnByTurn, NoTeams, Alike
<1>3. ASSUME NEW i \in Nat, i \in done
      PROVE  i + 1 \in done
  <2> SUFFICES ASSUME i + 1 <= Len(all)
               PROVE  Alike(t[i + 1], u[i + 1], p, q, i + 1)
    OBVIOUS
  <2>1. i \in 0 .. Len(all) - 1 /\ Alike(t[i], u[i], p, q, i)
    BY <1>1, <1>3
  <2>2. /\ t[i + 1] = Turn(p, t[i], all[i + 1], Known(t[i], all[i + 1]))
        /\ u[i + 1] = Turn(q, u[i], all[i + 1], Known(u[i], all[i + 1]))
    BY <2>1 DEF TurnByTurn
  <2>3. PICK x, y, a : x = t[i] /\ y = u[i] /\ a = all[i + 1]
    OBVIOUS
  <2>4. Alike(x, y, p, q, i)
    BY <2>1, <2>3
  <2>5. PICK b \in BOOLEAN : b = Known(x, a) /\ b = Known(y, a)
    BY <2>4 DEF Known, Alike
  <2>6. Alike(Turn(p, x, a, b), Turn(q, y, a, b), p, q, i + 1)
    BY <2>4 DEF Alike, Turn
  <2> QED
    BY <2>2, <2>3, <2>5, <2>6
<1>4. \A i \in Nat : i \in done
  <2> HIDE DEF done
  <2> QED
    BY <1>2, <1>3, Counting
<1>5. QED
  BY <1>1, <1>4

(***************************************************************************)
(* What a process has after i addresses: the last node known is that of    *)
(* the last address; the leader of its node is one of those it has passed, *)
(* and a leader; it finds itself where it noted.                           *)
(***************************************************************************)
Sound(t, self, all, i) ==
  /\ t.i = i
  /\ i > 0 => t.known # << >> /\ Last(t.known) = Node[all[i]]
  /\ i = 0 => t.known = << >>
  /\ \A j \in 1..i : Node[all[j]] = Node[self] =>
       /\ t.leader_rank + 1 \in 1..i /\ Node[all[t.leader_rank + 1]] = Node[self]
       /\ all[t.leader_rank + 1] \in ToSet(t.leaders)
  /\ \A j \in 1..i : all[j] = self =>
       t.local_rank + 1 \in DOMAIN t.local /\ t.local[t.local_rank + 1] = self
  /\ self \in ToSet(t.leaders) =>
       /\ t.leaders_rank + 1 \in DOMAIN t.leaders
       /\ t.leaders[t.leaders_rank + 1] = self

LEMMA AppendParts ==
  ASSUME NEW S, NEW s \in Seq(S), NEW x \in S
  PROVE  /\ Append(s, x) # << >> /\ Last(Append(s, x)) = x
         /\ ToSet(Append(s, x)) = ToSet(s) \cup {x}
         /\ DOMAIN s \subseteq DOMAIN Append(s, x)
         /\ \A i \in DOMAIN s : Append(s, x)[i] = s[i]
         /\ Len(s) + 1 \in DOMAIN Append(s, x) /\ Append(s, x)[Len(s) + 1] = x
<1>1. /\ Len(s) \in Nat /\ DOMAIN s = 1..Len(s)
      /\ Append(s, x) \in Seq(S)
      /\ Len(Append(s, x)) = Len(s) + 1
      /\ Append(s, x)[Len(s) + 1] = x
      /\ \A j \in 1..Len(s) : Append(s, x)[j] = s[j]
  BY AppendElements, LenProperties
<1>2. DOMAIN Append(s, x) = 1..(Len(s) + 1)
  BY <1>1, LenProperties
<1>3. Append(s, x) # << >>
  BY <1>1
<1>4. Last(Append(s, x)) = x
  BY <1>1 DEF Last
<1>5. ASSUME NEW y
      PROVE  y \in ToSet(Append(s, x)) <=> y \in ToSet(s) \cup {x}
  <2>1. y \in ToSet(Append(s, x)) <=> \E j \in 1..(Len(s) + 1) : Append(s, x)[j] = y
    BY <1>2 DEF ToSet
  <2>2. y \in ToSet(s) <=> \E j \in 1..Len(s) : s[j] = y
    BY <1>1 DEF ToSet
  <2>3. \A j \in 1..(Len(s) + 1) : j \in 1..Len(s) \/ j = Len(s) + 1
    BY <1>1
  <2>4. \A j \in 1..Len(s) : j \in 1..(Len(s) + 1)
    BY <1>1
  <2>5. Len(s) + 1 \in 1..(Len(s) + 1)
    BY <1>1
  <2> QED
    BY <1>1, <2>1, <2>2, <2>3, <2>4, <2>5
<1>6. QED
  BY <1>1, <1>2, <1>3, <1>4, <1>5

LEMMA TurnsSound ==
  ASSUME NEW self \in Procs, NEW all \in Seq(Procs), IsInjective(all), NEW t,
         TurnByTurn(t, self, all)
  PROVE  Sound(t[Len(all)], self, all, Len(all))
<1> DEFINE done == {i \in Nat : i <= Len(all) => Sound(t[i], self, all, i)}
<1>1. Len(all) \in Nat /\ DOMAIN all = 1..Len(all)
  BY LenProperties
<1>2. 0 \in done
  <2>1. t[0] = NoTeams
    BY DEF TurnByTurn
  <2>2. ToSet(NoTeams.leaders) = {}
    BY DEF NoTeams, ToSet
  <2>3. NoTeams.i = 0 /\ NoTeams.known = << >>
    BY DEF NoTeams
  <2> QED
    BY <2>1, <2>2, <2>3 DEF Sound
<1>3. ASSUME NEW i \in Nat, i \in done
      PROVE  i + 1 \in done
  <2> SUFFICES ASSUME i + 1 <= Len(all)
               PROVE  Sound(t[i + 1], self, all, i + 1)
    OBVIOUS
  <2>1. i \in 0 .. Len(all) - 1 /\ Sound(t[i], self, all, i) /\ t[i] \in Teams
    BY <1>1, <1>3 DEF TurnByTurn
  <2>2. PICK x, a, b : /\ x = t[i] /\ a = all[i + 1] /\ b = Known(x, a)
    OBVIOUS
  <2>3. /\ x \in Teams /\ a \in Procs /\ b \in BOOLEAN /\ Sound(x, self, all, i)
    BY <1>1, <2>1, <2>2, ElementOfSeq DEF Known
  <2>4. PICK y : y = Turn(self, x, a, b) /\ y = t[i + 1]
    BY <2>1, <2>2 DEF TurnByTurn
  <2>5. /\ y.known = (IF b THEN x.known ELSE Append(x.known, Node[a]))
        /\ y.i = x.i + 1
        /\ y.leaders = (IF b THEN x.leaders ELSE Append(x.leaders, a))
        /\ y.leaders_rank = (IF ~ b /\ a = self THEN Len(x.leaders) ELSE x.leaders_rank)
        /\ y.local = (IF Node[a] = Node[self] THEN Append(x.local, a) ELSE x.local)
        /\ y.local_rank = (IF Node[a] = Node[self] /\ a = self THEN Len(x.local)
                           ELSE x.local_rank)
        /\ y.leader_rank = (IF Node[a] = Node[self] /\ ~ b THEN x.i ELSE x.leader_rank)
    BY <2>4 DEF Turn
  <2>6. /\ x.known \in Seq({Node[q] : q \in Procs}) /\ x.leaders \in Seq(Procs)
        /\ x.local \in Seq(Procs) /\ x.leader_rank \in Nat /\ x.leaders_rank \in Nat
        /\ x.local_rank \in Nat /\ x.i = i
    BY <2>3 DEF Teams, Sound
  <2>7. y.i = i + 1
    BY <2>5, <2>6
  <2>8. y.known # << >> /\ Last(y.known) = Node[a]
    <3>1. CASE b
      BY <2>2, <2>5, <3>1 DEF Known
    <3>2. CASE ~ b
      <4>1. PICK K, n, k : K = {Node[q] : q \in Procs} /\ n = Node[a] /\ k = x.known
        OBVIOUS
      <4>2. n \in K /\ k \in Seq(K)
        BY <2>3, <2>6, <4>1
      <4>3. Append(k, n) # << >> /\ Last(Append(k, n)) = n
        BY <4>2, AppendParts
      <4> QED
        BY <2>5, <3>2, <4>1, <4>3
    <3> QED
      BY <3>1, <3>2
  <2>9. /\ ToSet(x.leaders) \subseteq ToSet(y.leaders)
        /\ ~ b => a \in ToSet(y.leaders)
        /\ \A z \in ToSet(y.leaders) : z \in ToSet(x.leaders) \/ (z = a /\ ~ b)
    <3>1. ToSet(Append(x.leaders, a)) = ToSet(x.leaders) \cup {a}
      BY <2>3, <2>6, AppendParts
    <3>2. CASE b
      <4>1. y.leaders = x.leaders
        BY <2>5, <3>2
      <4> QED
        BY <2>3, <3>2, <4>1
    <3>3. CASE ~ b
      <4>1. y.leaders = Append(x.leaders, a)
        BY <2>3, <2>5, <3>3
      <4> QED
        BY <3>1, <3>3, <4>1
    <3> QED
      BY <3>2, <3>3
  <2>10. ASSUME NEW j \in 1..(i + 1), Node[all[j]] = Node[self]
         PROVE  /\ y.leader_rank + 1 \in 1..(i + 1)
                /\ Node[all[y.leader_rank + 1]] = Node[self]
                /\ all[y.leader_rank + 1] \in ToSet(y.leaders)
    <3>1. CASE Node[a] = Node[self] /\ ~ b
      <4>1. y.leader_rank + 1 = i + 1
        BY <2>5, <2>6, <3>1
      <4> QED
        BY <2>2, <2>9, <3>1, <4>1
    <3>2. CASE ~ (Node[a] = Node[self] /\ ~ b)
      <4>1. \E k \in 1..i : Node[all[k]] = Node[self]
        <5>1. CASE j = i + 1
          <6>1. Node[a] = Node[self] /\ b
            BY <2>2, <2>3, <2>10, <3>2, <5>1
          <6>2. x.known # << >> /\ Last(x.known) = Node[self]
            BY <2>2, <6>1 DEF Known
          <6>3. i > 0
            BY <2>3, <6>2 DEF Sound
          <6>4. Last(x.known) = Node[all[i]]
            BY <2>3, <6>3 DEF Sound
          <6> QED
            BY <6>2, <6>3, <6>4
        <5>2. CASE j # i + 1
          BY <2>10, <5>2
        <5> QED
          BY <5>1, <5>2
      <4>2. /\ x.leader_rank + 1 \in 1..i /\ Node[all[x.leader_rank + 1]] = Node[self]
            /\ all[x.leader_rank + 1] \in ToSet(x.leaders)
        BY <2>3, <4>1 DEF Sound
      <4>3. y.leader_rank = x.leader_rank
        BY <2>5, <3>2
      <4> QED
        BY <2>6, <2>9, <4>2, <4>3
    <3> QED
      BY <3>1, <3>2
  <2>11. ASSUME NEW j \in 1..(i + 1), all[j] = self
         PROVE  y.local_rank + 1 \in DOMAIN y.local /\ y.local[y.local_rank + 1] = self
    <3>1. CASE j = i + 1
      <4>1. a = self
        BY <2>2, <2>11, <3>1
      <4>2. y.local = Append(x.local, a) /\ y.local_rank = Len(x.local)
        BY <2>5, <4>1
      <4> QED
        BY <2>3, <2>6, <4>1, <4>2, AppendParts
    <3>2. CASE j # i + 1
      <4>1. j \in 1..i /\ j \in DOMAIN all /\ i + 1 \in DOMAIN all
        BY <1>1, <2>1, <3>2
      <4>2. a # self
        BY <2>2, <2>11, <3>2, <4>1 DEF IsInjective
      <4>3. y.local_rank = x.local_rank
        BY <2>5, <4>2
      <4>4. x.local_rank + 1 \in DOMAIN x.local /\ x.local[x.local_rank + 1] = self
        BY <2>3, <2>11, <4>1 DEF Sound
      <4>5. /\ DOMAIN x.local \subseteq DOMAIN Append(x.local, a)
            /\ \A k \in DOMAIN x.local : Append(x.local, a)[k] = x.local[k]
        BY <2>3, <2>6, AppendParts
      <4> QED
        BY <2>5, <4>3, <4>4, <4>5
    <3> QED
      BY <3>1, <3>2
  <2>12. ASSUME self \in ToSet(y.leaders)
         PROVE  /\ y.leaders_rank + 1 \in DOMAIN y.leaders
                /\ y.leaders[y.leaders_rank + 1] = self
    <3>1. CASE ~ b /\ a = self
      <4>1. y.leaders = Append(x.leaders, a) /\ y.leaders_rank = Len(x.leaders)
        BY <2>5, <3>1
      <4> QED
        BY <2>3, <2>6, <3>1, <4>1, AppendParts
    <3>2. CASE ~ (~ b /\ a = self)
      <4>1. self \in ToSet(x.leaders)
        BY <2>9, <2>12, <3>2
      <4>2. x.leaders_rank + 1 \in DOMAIN x.leaders /\ x.leaders[x.leaders_rank + 1] = self
        BY <2>3, <4>1 DEF Sound
      <4>3. y.leaders_rank = x.leaders_rank
        BY <2>5, <3>2
      <4>4. /\ DOMAIN x.leaders \subseteq DOMAIN Append(x.leaders, a)
            /\ \A k \in DOMAIN x.leaders : Append(x.leaders, a)[k] = x.leaders[k]
        BY <2>3, <2>6, AppendParts
      <4> QED
        BY <2>5, <4>2, <4>3, <4>4
    <3> QED
      BY <3>1, <3>2
  <2>13. Sound(y, self, all, i + 1)
    BY <2>2, <2>7, <2>8, <2>10, <2>11, <2>12 DEF Sound
  <2> QED
    BY <2>4, <2>13
<1>4. \A i \in Nat : i \in done
  <2> HIDE DEF done
  <2> QED
    BY <1>2, <1>3, Counting
<1>5. QED
  BY <1>1, <1>4

(***************************************************************************)
(* When the ranks of a node follow each other a node is known once.        *)
(***************************************************************************)
Runs(t, all, i) ==
  /\ IsInjective(t.known) /\ Len(t.known) = Len(t.leaders)
  /\ \A n : n \in ToSet(t.known) <=> \E j \in 1..i : n = Node[all[j]]
  /\ i > 0 => t.known # << >> /\ Last(t.known) = Node[all[i]]

LEMMA TurnsRun ==
  ASSUME NEW self \in Procs, NEW all \in Seq(Procs), Contiguous(all), NEW t,
         TurnByTurn(t, self, all)
  PROVE  Runs(t[Len(all)], all, Len(all))
<1> DEFINE done == {i \in Nat : i <= Len(all) => Runs(t[i], all, i)}
<1>1. Len(all) \in Nat /\ DOMAIN all = 1..Len(all)
  BY LenProperties
<1>2. 0 \in done
  <2>1. t[0] = NoTeams
    BY DEF TurnByTurn
  <2>2. ToSet(NoTeams.known) = {} /\ NoTeams.known = << >> /\ NoTeams.leaders = << >>
    BY DEF NoTeams, ToSet
  <2>3. IsInjective(NoTeams.known)
    BY <2>2 DEF IsInjective
  <2> QED
    BY <2>1, <2>2, <2>3 DEF Runs
<1>3. ASSUME NEW i \in Nat, i \in done
      PROVE  i + 1 \in done
  <2> SUFFICES ASSUME i + 1 <= Len(all)
               PROVE  Runs(t[i + 1], all, i + 1)
    OBVIOUS
  <2>1. i \in 0 .. Len(all) - 1 /\ Runs(t[i], all, i) /\ t[i] \in Teams
    BY <1>1, <1>3 DEF TurnByTurn
  <2>2. PICK x, a, b : /\ x = t[i] /\ a = all[i + 1] /\ b = Known(x, a)
    OBVIOUS
  <2>3. /\ x \in Teams /\ a \in Procs /\ b \in BOOLEAN /\ Runs(x, all, i)
    BY <1>1, <2>1, <2>2, ElementOfSeq DEF Known
  <2>4. PICK y : y = Turn(self, x, a, b) /\ y = t[i + 1]
    BY <2>1, <2>2 DEF TurnByTurn
  <2>5. /\ y.known = (IF b THEN x.known ELSE Append(x.known, Node[a]))
        /\ y.leaders = (IF b THEN x.leaders ELSE Append(x.leaders, a))
    BY <2>4 DEF Turn
  <2>6. PICK K, n, k : K = {Node[q] : q \in Procs} /\ n = Node[a] /\ k = x.known
    OBVIOUS
  <2>7. /\ n \in K /\ k \in Seq(K) /\ x.leaders \in Seq(Procs)
    BY <2>3, <2>6 DEF Teams
  <2>8. /\ IsInjective(k) /\ Len(k) = Len(x.leaders)
        /\ \A m : m \in ToSet(k) <=> \E j \in 1..i : m = Node[all[j]]
        /\ i > 0 => k # << >> /\ Last(k) = Node[all[i]]
    BY <2>3, <2>6 DEF Runs
  <2>9. b <=> k # << >> /\ Last(k) = n
    BY <2>2, <2>6 DEF Known
  <2>10. \A m : (\E j \in 1..(i + 1) : m = Node[all[j]]) <=>
                  (\E j \in 1..i : m = Node[all[j]]) \/ m = n
    <3>1. \A j : j \in 1..(i + 1) <=> j \in 1..i \/ j = i + 1
      OBVIOUS
    <3> QED
      BY <2>2, <2>6, <3>1
  <2>11. CASE b
    <3>1. y.known = k /\ y.leaders = x.leaders
      BY <2>3, <2>5, <2>6, <2>11
    <3>2. n \in ToSet(k)
      <4>1. Len(k) \in Nat /\ DOMAIN k = 1..Len(k) /\ k # << >> /\ Last(k) = n
        BY <2>7, <2>9, <2>11, LenProperties
      <4>2. Len(k) \in DOMAIN k
        BY <2>7, <4>1, EmptySeq
      <4> QED
        BY <4>1, <4>2 DEF ToSet, Last
    <3>3. k # << >> /\ Last(k) = Node[all[i + 1]]
      BY <2>2, <2>6, <2>9, <2>11
    <3>4. \A m : m \in ToSet(k) <=> \E j \in 1..(i + 1) : m = Node[all[j]]
      BY <2>8, <2>10, <3>2
    <3>5. Runs(y, all, i + 1)
      BY <2>8, <3>1, <3>3, <3>4 DEF Runs
    <3> QED
      BY <2>4, <3>5
  <2>12. CASE ~ b
    <3>1. y.known = Append(k, n) /\ y.leaders = Append(x.leaders, a)
      BY <2>3, <2>5, <2>6, <2>12
    <3>2. n \notin ToSet(k)
      <4> SUFFICES ASSUME n \in ToSet(k) PROVE FALSE
        OBVIOUS
      <4>1. PICK j \in 1..i : n = Node[all[j]]
        BY <2>8
      <4>2. Last(k) = Node[all[i]] /\ Last(k) # n
        BY <2>8, <2>9, <2>12, <4>1
      <4>3. j < i /\ i < i + 1
        BY <4>1, <4>2
      <4>4. j \in DOMAIN all /\ i \in DOMAIN all /\ i + 1 \in DOMAIN all
        BY <1>1, <4>1
      <4>5. Node[all[j]] = Node[all[i + 1]]
        BY <2>2, <2>6, <4>1
      <4>6. Node[all[i]] = Node[all[j]]
        BY <4>3, <4>4, <4>5 DEF Contiguous
      <4> QED
        BY <4>1, <4>2, <4>6
    <3>3. /\ y.known # << >> /\ Last(y.known) = n
          /\ ToSet(y.known) = ToSet(k) \cup {n}
      BY <2>7, <3>1, AppendParts
    <3>4. Len(y.known) = Len(y.leaders)
      BY <2>3, <2>7, <2>8, <3>1, AppendElements
    <3>5. IsInjective(y.known)
      <4>1. /\ Len(k) \in Nat /\ DOMAIN k = 1..Len(k)
            /\ Append(k, n) \in Seq(K) /\ Len(Append(k, n)) = Len(k) + 1
            /\ Append(k, n)[Len(k) + 1] = n
            /\ \A j \in 1..Len(k) : Append(k, n)[j] = k[j]
        BY <2>7, AppendElements, LenProperties
      <4>2. DOMAIN Append(k, n) = 1..(Len(k) + 1)
        BY <4>1, LenProperties
      <4>3. \A j \in 1..Len(k) : k[j] \in ToSet(k)
        BY <4>1 DEF ToSet
      <4>4. \A j \in 1..(Len(k) + 1) : j \in 1..Len(k) \/ j = Len(k) + 1
        BY <4>1
      <4>5. ASSUME NEW j \in 1..(Len(k) + 1), NEW m \in 1..(Len(k) + 1),
                   Append(k, n)[j] = Append(k, n)[m]
            PROVE  j = m
        <5>1. CASE j \in 1..Len(k) /\ m \in 1..Len(k)
          BY <2>8, <4>1, <4>5, <5>1 DEF IsInjective
        <5>2. CASE j = Len(k) + 1 /\ m \in 1..Len(k)
          BY <3>2, <4>1, <4>3, <4>5, <5>2
        <5>3. CASE j \in 1..Len(k) /\ m = Len(k) + 1
          BY <3>2, <4>1, <4>3, <4>5, <5>3
        <5> QED
          BY <4>4, <5>1, <5>2, <5>3
      <4> QED
        BY <3>1, <4>2, <4>5 DEF IsInjective
    <3>6. \A m : m \in ToSet(y.known) <=> \E j \in 1..(i + 1) : m = Node[all[j]]
      BY <2>8, <2>10, <3>3
    <3>7. Last(y.known) = Node[all[i + 1]]
      BY <2>2, <2>6, <3>3
    <3>8. Runs(y, all, i + 1)
      BY <3>3, <3>4, <3>5, <3>6, <3>7 DEF Runs
    <3> QED
      BY <2>4, <3>8
  <2> QED
    BY <2>3, <2>11, <2>12
<1>4. \A i \in Nat : i \in done
  <2> HIDE DEF done
  <2> QED
    BY <1>2, <1>3, Counting
<1>5. QED
  BY <1>1, <1>4

LEMMA OneLeaderEach ==
  ASSUME NEW self \in Procs, NEW all \in Seq(Procs), Contiguous(all), NEW t,
         TurnByTurn(t, self, all)
  PROVE  Len(t[Len(all)].leaders) = Cardinality({Node[a] : a \in ToSet(all)})
<1>1. PICK k, x : x = t[Len(all)] /\ k = x.known
  OBVIOUS
<1>2. /\ IsInjective(k) /\ Len(k) = Len(x.leaders)
      /\ \A n : n \in ToSet(k) <=> \E j \in 1..Len(all) : n = Node[all[j]]
  <2>1. Runs(x, all, Len(all))
    BY <1>1, TurnsRun
  <2> QED
    BY <1>1, <2>1, Zenon DEF Runs
<1>3. Len(all) \in Nat /\ DOMAIN all = 1..Len(all)
  BY LenProperties
<1>4. k \in Seq({Node[p] : p \in Procs})
  BY <1>1, <1>3 DEF TurnByTurn, Teams
<1>5. Len(k) \in Nat /\ DOMAIN k = 1..Len(k)
  BY <1>4, LenProperties
<1> DEFINE N == {Node[a] : a \in ToSet(all)}
<1>6. ASSUME NEW n
      PROVE  n \in N <=> n \in ToSet(k)
  <2>1. n \in N <=> \E j \in 1..Len(all) : n = Node[all[j]]
    BY <1>3 DEF ToSet
  <2> QED
    BY <1>2, <2>1
<1> HIDE DEF N
<1>7. \A j \in 1..Len(k) : k[j] \in N
  BY <1>5, <1>6 DEF ToSet
<1>8. \A n \in N : \E j \in 1..Len(k) : k[j] = n
  BY <1>5, <1>6 DEF ToSet
<1>9. k \in [1..Len(k) -> N]
  <2>1. k = [j \in 1..Len(k) |-> k[j]]
    BY <1>4, <1>5
  <2> QED
    BY <1>7, <2>1
<1>10. \A i, j \in 1..Len(k) : k[i] = k[j] => i = j
  <2>1. IsInjective(k)
    BY <1>2
  <2>2. \A i, j \in DOMAIN k : k[i] = k[j] => i = j
    BY <2>1, Zenon DEF IsInjective
  <2> QED
    BY <1>5, <2>2
<1>11. IsFiniteSet(1..Len(k)) /\ Cardinality(1..Len(k)) = Len(k)
  <2>1. PICK m \in Nat : m = Len(k)
    BY <1>5
  <2>2. IsFiniteSet(1..m) /\ Cardinality(1..m) = m
    BY FS_Interval
  <2> QED
    BY <2>1, <2>2
<1>12. Cardinality(N) = Len(k)
  BY <1>8, <1>9, <1>10, <1>11, SameCount
<1>13. QED
  BY <1>1, <1>2, <1>12 DEF N

(***************************************************************************)
(* What TeamsAgree asks of two communicators over the same list.           *)
(***************************************************************************)
Agreed(p, q, c, d) ==
  /\ c.teams.leaders = d.teams.leaders
  /\ Node[p] = Node[q] =>
       /\ c.teams.local = d.teams.local
       /\ c.teams.leader_rank = d.teams.leader_rank
  /\ LET leader == Address(c, c.teams.leader_rank) IN
     Node[leader] = Node[p] /\ leader \in ToSet(c.teams.leaders)
  /\ c.teams.local[c.teams.local_rank + 1] = p
  /\ p \in ToSet(c.teams.leaders) => c.teams.leaders[c.teams.leaders_rank + 1] = p
  /\ Contiguous(c.all) =>
       Len(c.teams.leaders) = Cardinality({Node[a] : a \in ToSet(c.all)})

LEMMA TeamsSound ==
  ASSUME NEW p \in Procs, NEW q \in Procs, NEW c \in Comm, NEW d \in Comm,
         Own(p, c), Own(q, d), c.all = d.all
  PROVE  Agreed(p, q, c, d)
<1>1. PICK all \in Seq(Procs) : all = c.all /\ all = d.all
  BY DEF Comm
<1>2. p \in ToSet(all) /\ q \in ToSet(all) /\ IsInjective(all)
      /\ c.teams = setup_teams(p, all) /\ d.teams = setup_teams(q, all)
  BY <1>1 DEF Own
<1>3. PICK t : TurnByTurn(t, p, all) /\ c.teams = t[Len(all)]
  BY <1>2, TeamsTurns
<1>4. PICK u : TurnByTurn(u, q, all) /\ d.teams = u[Len(all)]
  BY <1>2, TeamsTurns
<1>5. Alike(c.teams, d.teams, p, q, Len(all))
  BY <1>3, <1>4, TurnsAlike
<1>6. Sound(c.teams, p, all, Len(all))
  BY <1>2, <1>3, TurnsSound
<1>7. Contiguous(all) => Len(c.teams.leaders) = Cardinality({Node[a] : a \in ToSet(all)})
  BY <1>3, OneLeaderEach
<1>8. PICK j \in 1..Len(all) : all[j] = p
  BY <1>2, LenProperties DEF ToSet
<1>9. /\ Node[all[c.teams.leader_rank + 1]] = Node[p]
      /\ all[c.teams.leader_rank + 1] \in ToSet(c.teams.leaders)
      /\ c.teams.local[c.teams.local_rank + 1] = p
      /\ p \in ToSet(c.teams.leaders) => c.teams.leaders[c.teams.leaders_rank + 1] = p
  BY <1>6, <1>8 DEF Sound
<1>10. /\ c.teams.leaders = d.teams.leaders
       /\ Node[p] = Node[q] =>
            c.teams.local = d.teams.local /\ c.teams.leader_rank = d.teams.leader_rank
  BY <1>5 DEF Alike
<1>11. Address(c, c.teams.leader_rank) = all[c.teams.leader_rank + 1]
  BY <1>1 DEF Address
<1>12. QED
  BY <1>1, <1>7, <1>9, <1>10, <1>11, Zenon DEF Agreed

LEMMA SourceInvTeams == SourceInv => TeamsAgree
<1> SUFFICES ASSUME SourceInv, NEW p \in Procs, NEW q \in Procs,
                    NEW c \in ToSet(comms[p]), NEW d \in ToSet(comms[q]), c.all = d.all
             PROVE  Agreed(p, q, c, d)
  BY Zenon DEF TeamsAgree, Agreed
<1>1. c \in Comm /\ Own(p, c)
  <2>1. PICK i \in DOMAIN comms[p] : c = comms[p][i]
    BY DEF ToSet
  <2> QED
    BY <2>1, ElementOfSeq, LenProperties DEF SourceInv, CommInv
<1>2. d \in Comm /\ Own(q, d)
  <2>1. PICK i \in DOMAIN comms[q] : d = comms[q][i]
    BY DEF ToSet
  <2> QED
    BY <2>1, ElementOfSeq, LenProperties DEF SourceInv, CommInv
<1>3. QED
  BY <1>1, <1>2, TeamsSound

(***************************************************************************)
(* Processes that made communicators over the same list, in whatever order *)
(* its nodes come, agree on the leaders, on who is local to a node and on  *)
(* the leader of that node, who is among the leaders; each finds itself    *)
(* where it noted its rank, and there is one leader for a node when its    *)
(* ranks follow each other (setup_teams in mona-comm.c).                   *)
(***************************************************************************)
THEOREM TeamsConsistent == Spec => []TeamsAgree
<1>1. Init => SourceInv
  BY SourceInvInit
<1>2. SourceInv /\ [Next]_vars => SourceInv'
  BY SourceInvNext
<1>3. SourceInv => TeamsAgree
  BY SourceInvTeams
<1>4. QED
  BY <1>1, <1>2, <1>3, PTL DEF Spec

=============================================================================

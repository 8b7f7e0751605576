---------------------------- MODULE Collectives ----------------------------
(***************************************************************************)
(* The collective operations on a communicator: ranks go through the steps *)
(* of Schedules.  They call one collective after another, all with the     *)
(* same tag: nothing but the order of messages between two ranks tells the *)
(* calls apart.                                                            *)
(*                                                                         *)
(* Point-to-point messages are those of UnexpectedRecv and Transfer seen   *)
(* from above: a small message is sent when it has left, a large one when  *)
(* the receiver has taken it.  Between two ranks NA delivers in order.     *)
(* But on the path of mona_urecv, the default, the receives a rank has     *)
(* posted share one queue, and the one that takes over from another the    *)
(* role of listener may not see what is in it (mona-unexpected.c:556-567,  *)
(* NothingMissed of UnexpectedRecv).  Nothing else receives on the         *)
(* instances meanwhile, and nothing fails.                                 *)
(***************************************************************************)
EXTENDS Schedules, BagsExt

CONSTANTS
  Sizes,        \* the sizes of communicator
  Radixes,      \* the radixes that mona_hint_set_reduce_radix may set
  Programs(_)   \* the sequences of calls, for a communicator

(***************************************************************************)
(* A call: its root, whether its messages are large, whether MONA_IN_PLACE *)
(* is passed where MPI allows it (the root of a reduce, every rank of an   *)
(* allreduce), and the ranks whose block in gatherv is of size 0.          *)
(***************************************************************************)
Kinds == {"barrier", "bcast", "reduce", "allreduce", "gather", "allgather",
          "scatter", "alltoall"}

Calls(n) == [kind : Kinds, root : 0..(n - 1), large : BOOLEAN,
             inplace : BOOLEAN, empty : SUBSET (0..(n - 1))]

(***************************************************************************)
(* A communicator: its size, reduce_radix and use_unexpected_msg.          *)
(***************************************************************************)
Comms == [size : Sizes, radix : Radixes, unexpected : BOOLEAN]

ASSUME CollectivesAssumption ==
  /\ Sizes \subseteq Nat \ {0, 1}
  /\ Radixes \subseteq Nat \ {0, 1}
  /\ \A c \in Comms : Programs(c) \subseteq Seq(Calls(c.size))

VARIABLES
  comm,      \* the communicator
  program,   \* the collectives every rank calls
  calls,     \* how many each rank has called
  steps,     \* what each rank has yet to do in its current call
  buf,       \* each rank's receive buffer, in blocks
  chan,      \* messages on their way between two ranks
  posted,    \* the sources for which each rank has posted a receive
  inbox,     \* messages received and not waited for yet
  queued,    \* how many messages of chan, from the oldest, are in the queue
             \* of pending messages after a posted receive has missed them
  blind      \* the posted receive, if any, that listens and has missed them

setting == <<comm, program>>
queue   == <<queued, blind>>
vars == <<setting, calls, steps, buf, chan, posted, inbox, queue>>

size  == comm.size
Ranks == 0..(size - 1)

Current(r) == program[calls[r]]

(***************************************************************************)
(* The content of a buffer is the bag of the blocks that went into it; the *)
(* i-th block that rank r contributes is <<r, i>>.  Garbage comes from an  *)
(* address that is not a buffer.                                           *)
(***************************************************************************)
Block(r, i) == SetToBag({<<r, i>>})
Unset       == EmptyBag
Garbage     == Block(size, 0)

NoMessage == [nth |-> 0]

-----------------------------------------------------------------------------
(***************************************************************************)
(* What a rank does in a call.                                             *)
(***************************************************************************)
Steps(r, c) == Schedule(size, comm.radix, r, c)

-----------------------------------------------------------------------------
(***************************************************************************)
(* The first value of the receive buffer of a reduction: the send buffer   *)
(* is copied by every rank but a root that passes MONA_IN_PLACE.           *)
(***************************************************************************)
FirstValue(r, c) ==
  LET root    == IF c.kind = "allreduce" THEN 0 ELSE c.root
      inplace == c.inplace /\ (c.kind = "allreduce" \/ r = root)
  IN  IF inplace /\ r # root THEN Garbage ELSE Block(r, 0)

(***************************************************************************)
(* The receive buffer after the copies a rank makes from its send buffer.  *)
(***************************************************************************)
InitialBuf(r, c) ==
  LET Only(i, b) == [j \in Ranks |-> IF j = i THEN b ELSE Unset] IN
  CASE c.kind = "barrier" -> Only(0, Unset)
    [] c.kind = "bcast" -> Only(0, IF r = c.root THEN Block(r, 0) ELSE Unset)
    [] c.kind \in {"reduce", "allreduce"} -> Only(0, FirstValue(r, c))
    [] c.kind = "gather" -> Only(r, IF r = c.root THEN Block(r, 0) ELSE Unset)
    [] c.kind = "allgather" -> Only(r, IF r = 0 THEN Block(r, 0) ELSE Unset)
    [] c.kind = "scatter" -> Only(0, IF r = c.root THEN Block(r, r) ELSE Unset)
    [] c.kind = "alltoall" -> Only(r, Block(r, r))

(***************************************************************************)
(* What a rank sends to a peer.                                            *)
(***************************************************************************)
Sent(r, p, of) ==
  CASE of = "barrier" -> Unset
    [] of = "bcast" -> buf[r]
    [] of = "reduce" -> buf[r][0]
    [] of = "gather" -> Block(r, 0)
    [] of \in {"scatter", "alltoall"} -> Block(r, p)

(***************************************************************************)
(* The operation replaces the value instead of adding to it.               *)
(***************************************************************************)
Stored_(r, p, of, data) ==
  CASE of = "barrier" -> buf[r]
    [] of = "bcast" -> data
    [] of \in {"reduce", "scatter"} -> [buf[r] EXCEPT ![0] = data]
    [] of \in {"gather", "alltoall"} -> [buf[r] EXCEPT ![p] = data]

(***************************************************************************)
(* The receive buffer with what came from a peer in its place.             *)
(***************************************************************************)
Stored(r, p, of, data) ==
  CASE of = "barrier" -> buf[r]
    [] of = "bcast" -> data
    [] of = "reduce" -> [buf[r] EXCEPT ![0] = @ (+) data]
    [] of = "scatter" -> [buf[r] EXCEPT ![0] = data]
    [] of \in {"gather", "alltoall"} -> [buf[r] EXCEPT ![p] = data]

-----------------------------------------------------------------------------
Init ==
  /\ comm \in Comms
  /\ program \in Programs(comm)
  /\ calls = [r \in Ranks |-> 0]
  /\ steps = [r \in Ranks |-> << >>]
  /\ buf = [r \in Ranks |-> [i \in Ranks |-> Unset]]
  /\ chan = [s \in Ranks |-> [r \in Ranks |-> << >>]]
  /\ posted = [r \in Ranks |-> {}]
  /\ inbox = [r \in Ranks |-> [s \in Ranks |-> NoMessage]]
  /\ queued = [r \in Ranks |-> [s \in Ranks |-> 0]]
  /\ blind = [r \in Ranks |-> {}]

(***************************************************************************)
(* A rank calls the next collective.                                       *)
(***************************************************************************)
Enter(r) ==
  /\ steps[r] = << >>
  /\ calls[r] < Len(program)
  /\ calls' = [calls EXCEPT ![r] = @ + 1]
  /\ LET c == program[calls[r] + 1] IN
     /\ steps' = [steps EXCEPT ![r] = Steps(r, c)]
     /\ buf' = [buf EXCEPT ![r] = InitialBuf(r, c)]
  /\ UNCHANGED <<setting, chan, posted, inbox, queue>>

(***************************************************************************)
(* The next step of r is of this kind, with this peer.                     *)
(***************************************************************************)
AtStep(r, do) == steps[r] # << >> /\ Head(steps[r]).do = do

Peer(r) == Head(steps[r]).peer

Done(r) == steps' = [steps EXCEPT ![r] = Tail(@)]

PostReceive(r) ==
  /\ AtStep(r, "post")
  /\ posted' = [posted EXCEPT ![r] = @ \cup {Peer(r)}]
  /\ Done(r)
  /\ UNCHANGED <<setting, calls, buf, chan, inbox, queue>>

StartSend(r) ==
  /\ AtStep(r, "start")
  /\ chan' = [chan EXCEPT ![r][Peer(r)] =
                Append(@, [nth |-> calls[r],
                           data |-> Sent(r, Peer(r), Head(steps[r]).of)])]
  /\ Done(r)
  /\ UNCHANGED <<setting, calls, buf, posted, inbox, queue>>

(***************************************************************************)
(* A large send is over when its message, the one of this call, is taken;  *)
(* the barrier's messages are empty.                                       *)
(***************************************************************************)
IsLarge(c) == c.large /\ c.kind # "barrier"

FinishSend(r) ==
  /\ AtStep(r, "finish")
  /\ IsLarge(Current(r)) =>
       \A i \in 1..Len(chan[r][Peer(r)]) : chan[r][Peer(r)][i].nth # calls[r]
  /\ Done(r)
  /\ UNCHANGED <<setting, calls, buf, chan, posted, inbox, queue>>

(***************************************************************************)
(* The wait for a receive is over.                                         *)
(***************************************************************************)
AwaitReceive(r) ==
  /\ AtStep(r, "await")
  /\ inbox[r][Peer(r)] # NoMessage
  /\ buf' = [buf EXCEPT ![r] =
               Stored(r, Peer(r), Head(steps[r]).of, inbox[r][Peer(r)].data)]
  /\ inbox' = [inbox EXCEPT ![r][Peer(r)] = NoMessage]
  /\ Done(r)
  /\ UNCHANGED <<setting, calls, chan, posted, queue>>

(***************************************************************************)
(* The ULT of a posted receive takes the oldest message of its source, or  *)
(* the oldest it has not missed.  The others find theirs in the queue      *)
(* while it listens.  When it was the listener and leaves, one that sleeps *)
(* may find, woken, that nobody listens, and listen without searching the  *)
(* queue: it misses what came for it since it searched (n messages), and   *)
(* listens until another message comes.                                    *)
(***************************************************************************)
Oldest(s, r) == IF s \in blind[r] THEN queued[r][s] + 1 ELSE 1

Listens(s, r) == blind[r] = {s} \/ (blind[r] = {} /\ queued[r][s] = 0)

Kept(s, r) ==       \* what is in the queue for s when its receive is over
  IF s \in blind[r] \/ queued[r][s] = 0 THEN queued[r][s] ELSE queued[r][s] - 1

Miss(s, r) ==
  /\ comm.unexpected
  /\ Listens(s, r)
  /\ \E q \in posted[r] \ {s} : \E n \in 1..Len(chan[q][r]) :
       /\ queued[r][q] = 0
       /\ queued' = [queued EXCEPT ![r][s] = Kept(s, r), ![r][q] = n]
       /\ blind' = [blind EXCEPT ![r] = {q}]

Deliver(s, r) ==
  /\ s \in posted[r]
  /\ Oldest(s, r) <= Len(chan[s][r])
  /\ inbox' = [inbox EXCEPT ![r][s] = chan[s][r][Oldest(s, r)]]
  /\ chan' = [chan EXCEPT ![s][r] = RemoveAt(@, Oldest(s, r))]
  /\ posted' = [posted EXCEPT ![r] = @ \ {s}]
  /\ \/ Miss(s, r)
     \/ /\ queued' = [queued EXCEPT ![r][s] = Kept(s, r)]
        /\ blind' = [blind EXCEPT ![r] = @ \ {s}]
  /\ UNCHANGED <<setting, calls, steps, buf>>

Step(r) == PostReceive(r) \/ StartSend(r) \/ FinishSend(r) \/ AwaitReceive(r)

Next ==
  \E r \in Ranks : Enter(r) \/ Step(r) \/ \E s \in Ranks : Deliver(s, r)

Spec == Init /\ [][Next]_vars

(***************************************************************************)
(* Every rank is a ULT that is scheduled, as are those of its receives;    *)
(* and the application makes the calls of the program on every rank.       *)
(***************************************************************************)
AnyRank == 0..(Max(Sizes) - 1)

Fairness ==
  \A r \in AnyRank :
    /\ WF_vars(r \in Ranks /\ (Enter(r) \/ Step(r)))
    /\ WF_vars(r \in Ranks /\ \E s \in Ranks : Deliver(s, r))

FairSpec == Spec /\ Fairness

-----------------------------------------------------------------------------
(***************************************************************************)
(* Types: above all, every rank that a step names is one.                  *)
(***************************************************************************)
TypeOK ==
  /\ comm \in Comms
  /\ calls \in [Ranks -> 0..Len(program)]
  /\ \A r \in Ranks : \A i \in 1..Len(steps[r]) : steps[r][i].peer \in Ranks \ {r}
  /\ posted \in [Ranks -> SUBSET Ranks]
  /\ DOMAIN chan = Ranks /\ \A r \in Ranks : DOMAIN chan[r] = Ranks
  /\ \A r, s \in Ranks : inbox[r][s].nth \in 0..Len(program)
  /\ queued \in [Ranks -> [Ranks -> Nat]] /\ blind \in [Ranks -> SUBSET Ranks]

(***************************************************************************)
(* When no message can be missed: the communicator does not use mona_urecv *)
(* (mona_comm_set_use_unexpected_msg), or no rank posts a receive before   *)
(* it has waited for the last.  The calls in which some rank does:         *)
(***************************************************************************)
PostsSeveral(c) ==
  \/ c.kind \in {"gather", "allgather", "alltoall"}
  \/ c.kind \in {"reduce", "allreduce"} /\ comm.radix > 2

InTurn ==
  comm.unexpected => \A i \in 1..Len(program) : ~ PostsSeveral(program[i])

(***************************************************************************)
(* When no message can take another's place: none is missed, or no second  *)
(* call uses the tag.  A call of its own tag that posts several receives   *)
(* may still wait for ever for a message that is in the queue; one whose   *)
(* tag is used again may also take a message of a later call.              *)
(***************************************************************************)
Apart == InTurn \/ Len(program) = 1

(***************************************************************************)
(* The c-th call of rank r has returned.                                   *)
(***************************************************************************)
Returned(r, c) == calls[r] > c \/ (calls[r] = c /\ steps[r] = << >>)

(***************************************************************************)
(* No rank leaves a barrier before all have entered it, for any size       *)
(* (mona_comm_barrier: after the last turn a rank has heard of all).       *)
(***************************************************************************)
BarrierHolds ==
  Apart => \A c \in 1..Len(program) : program[c].kind = "barrier" =>
    \A r, q \in Ranks : Returned(r, c) => calls[q] >= c

(***************************************************************************)
(* When a call returns the receive buffer holds what the operation means:  *)
(* each contribution once, in its place.                                   *)
(***************************************************************************)
ResultRight ==
  Apart => \A r \in Ranks : calls[r] > 0 /\ steps[r] = << >> =>
    LET c == Current(r)
        Everyone == SetToBag({<<q, 0>> : q \in Ranks})
        Gathered == \A q \in Ranks \ c.empty : buf[r][q] = Block(q, 0)
    IN  CASE c.kind = "barrier"   -> TRUE
          [] c.kind = "bcast"     -> buf[r][0] = Block(c.root, 0)
          [] c.kind = "reduce"    -> r = c.root => buf[r][0] = Everyone
          [] c.kind = "allreduce" -> buf[r][0] = Everyone
          [] c.kind = "gather"    -> r = c.root => Gathered
          [] c.kind = "allgather" -> Gathered
          [] c.kind = "scatter"   -> buf[r][0] = Block(c.root, r)
          [] c.kind = "alltoall"  -> \A q \in Ranks : buf[r][q] = Block(q, r)

(***************************************************************************)
(* Calls that follow one another with one tag never get each other's       *)
(* messages, although ranks run ahead of one another.                      *)
(***************************************************************************)
NoCrossTalk ==
  Apart => \A r, s \in Ranks : inbox[r][s] # NoMessage => inbox[r][s].nth = calls[r]

(***************************************************************************)
(* A call that returns leaves nothing behind: no receive into buffers that *)
(* it frees, no large send from a buffer that is the caller's again; and   *)
(* when all have returned no message is left for the next call.            *)
(***************************************************************************)
ReturnsClean ==
  Apart =>
    /\ \A r \in Ranks : calls[r] > 0 /\ steps[r] = << >> =>
         /\ posted[r] = {}
         /\ \A s \in Ranks : inbox[r][s] = NoMessage
         /\ IsLarge(Current(r)) =>
              \A s \in Ranks : \A i \in 1..Len(chan[r][s]) :
                chan[r][s][i].nth # calls[r]
    /\ (\A r \in Ranks : steps[r] = << >> /\ calls[r] = calls[0]) =>
         \A r, s \in Ranks : chan[r][s] = << >>

(***************************************************************************)
(* When every rank makes the same calls and misses no message, all of them *)
(* return, even if every message is large and its send waits for the       *)
(* receiver.                                                               *)
(***************************************************************************)
EveryoneReturns ==
  InTurn => <>(\A r \in Ranks : calls[r] = Len(program) /\ steps[r] = << >>)

=============================================================================

# A TLA+ model of MoNA

MoNA is a library for point-to-point messages and MPI-like collectives on top
of Mercury's network abstraction (NA) and the user-level threads (ULTs) of
Argobots. This directory holds TLA+ modules translated from its source, the TLC
configurations that check them on small instances, and proofs of the main
safety properties for instances of any size.

`PROJECT.json` gives, for every definition that models code, the lines it stands
for; for every property, a mistake in the code ("mutant", a definition whose
name ends in `_`) that makes TLC find the property violated; and the hazards
the properties were written for.

## 1. The system

| Component | State | Operations | Interacts with |
|---|---|---|---|
| **Unexpected messages, receive side** `mona-unexpected.c:337-569, 641-1031` | `pending_msg_*` queue, `pending_msg_queue_active`, mutex and condition variable; the shared receive `prob_active/prob_req/prob_msg` | `mona_urecv*`, `mona_uprobe`, `mona_uiprobe` | the progress loop completes the receive; calls of all ULTs share the queue |
| **Message transfer** `mona-unexpected.c:74-276, 641-767`, `mona-expected.c` | none of its own: messages in NA, posted receives, registered buffers | `mona_usend*`, `mona_send*`, `mona_urecv*`, `mona_recv*`: small messages carry data, large ones a handle read by RDMA and acknowledged | NA; the unexpected mailbox of the receiver |
| **Instance** `mona.c:14-253, 434-480` | `finalize_flag`, progress ULT, requests and their eventuals | init, progress loop, `mona_wait`, `mona_test`, `mona_wait_any`, `mona_finalize` | NA callbacks set eventuals (`mona-callback.h`); ULTs of non-blocking operations wait for them |
| **Caches** `mona-types.h:110-269` | free lists of operation ids, requests, messages, a mutex each | get, return, clear | every operation |
| **Communicators** `mona-comm.c`, `mona-comm.h` | array of addresses, own rank, teams, hints | create, dup, subset, free, send/recv/probe by rank | both message paths (`use_unexpected_msg`) |
| **Collectives** `mona-barrier.c` ... `mona-alltoall.c`, `mona-sendrecv.c` | none: a schedule of sends and receives per rank | barrier, bcast, reduce, allreduce, gather(v), allgather(v), scatter(v), alltoall, each blocking or in a ULT | communicators |
| **MPI wrappers** `mona-mpi-wrappers.cpp.in`, `wrap/wrap.py` | registries of communicators, datatypes, operations, requests | PMPI interception | collectives, all with tag 0 |

Low-level calls (addresses, memory handles, NA accessors), built-in reduction
operations, tests, examples and benchmarks complete the repository.

What is hard here, and what correctness means:

* **ULTs that share one receive.** One ULT at a time is meant to listen to NA
  and queue what it does not want; the others sleep. Most of the listening is
  done outside the mutex. *One listener, no message lost or delivered twice, in
  order, nobody asleep with nobody left to wake them, no buffer given back that is
  still queued.* Where several ULTs ask for different things, or a receive fails, the
  code does not keep all of this (section 6), and what rests on it is claimed only
  where it does.
* **Acknowledgements without identity.** A large message's buffer belongs to NA
  until the peer has read it, and an acknowledgement is known by source and tag
  only. *A send returns after its own data has been read; the receive for the
  acknowledgement exists before the acknowledgement does.*
* **Schedules computed from ranks**, for sizes that are no powers of anything,
  every root, and messages that may or may not block the sender, one call right
  after another with the same tag. *The right result in the right place, no
  message of another call, no deadlock, nothing left behind.*
* **Objects with several owners.** Operation ids, requests and buffers go from a list
  to a call, to NA, to another call and back, along paths that mostly differ in how
  they fail. *Everything is in one place, nothing NA works on is given to others, what
  is forgotten is bounded.*
* **Names of processes.** Each process has ranks of its own for addresses that are
  counted references. *Every reference is dropped once, processes agree on teams, a
  source is reported by its rank or as unknown.*
* **Finalization** while the loop runs, a probe's receive is posted and, perhaps,
  operations are pending. *Nothing is freed under NA or a ULT, and the call
  returns.*

## 2. Modules

| Module | Models | Extends / instantiates |
|---|---|---|
| `UnexpectedRecv` | the receive side of unexpected messages | `Mailbox` by two refinement mappings |
| `Mailbox` | abstract: what its callers are promised | |
| `SequenceLemmas` | facts about lists that the proofs share | TLAPS |
| `UnexpectedRecvProofs` | its type and safety theorems, and that it implements `Mailbox` | `UnexpectedRecv`, `SequenceLemmas` |
| `Transfer` | one message from sender to receiver, small and large, both paths | |
| `TransferProofs` | its types, the receives it leaves in NA, and what the sender of a large message may rely on | `Transfer`, `SequenceLemmas` |
| `Schedules` | what a rank does in each collective, as functions of size, rank, root and radix | |
| `SchedulesProofs` | theorems on the schedules: who sends to whom, in which order, and which ranks are below which | `Schedules`, `SequenceLemmas` |
| `Collectives` | ranks that go through the schedules, over `mona_recv` or over the shared queue of `mona_urecv` | `Schedules` |
| `CollectivesProofs` | its type and safety theorems | `Collectives`, `SchedulesProofs` |
| `Instance` | progress loop, requests, `mona_wait_any`, `mona_finalize` | |
| `InstanceProofs` | its type and safety theorems | `Instance`, TLAPS |
| `Caches` | the free lists as functions from one state of them to the next | |
| `Operations` | what every operation takes from the lists, gives back and forgets | `Caches` |
| `OperationsProofs` | theorems: every object is in one place, what NA works on is nobody else's, what is forgotten is charged to failures | `Operations`, `SequenceLemmas` |
| `Communicators` | communicators, their references, teams and sources | |
| `CommunicatorsProofs` | theorems: sources are reported right, references balance, teams agree | `Communicators`, `SequenceLemmas` |
| `MC*` | values of the constants for TLC | the module after `MC` |

They stack by what each promises to the next. `UnexpectedRecv` is proved to implement a
mailbox without failures: a call gets a message it asks for, and nobody else gets it.
That it is the oldest, and that a call which has one gets it in the end, is checked
where calls are made one at a time or all ask for the same; `bug_missed` shows that it
is false in general. So `Transfer` gives a call of `mona_urecv` any message that
matches, and takes from the mailbox only that it gives one in the end.
`Collectives` has both kinds of communicator. With `mona_recv` a receive takes the
oldest message of its source. With `mona_urecv`, the default, the receives a rank has
posted at once may miss what is in the queue, as in `bug_missed`, then wait for a later
message or take one of another call. A large send ends when its message has been
taken. `Instance` looks at all
operations from below: posted, completed, triggered, waited for. `Operations` follows
the same calls as `UnexpectedRecv` and `Transfer` with the data left out and the objects
kept: it takes from them that a listener is alone and that a message comes or does
not, which no longer matters once an error exit has broken the lists: there the
behaviours of both modules end. `Communicators` is what turns a rank into the peer that the other modules have.

### UnexpectedRecv

Messages are numbered by their arrival at NA (`arrived[m]` has source and tag);
`taken` of them have left NA. `prob_active`, `prob_req`, `prob_msg`, `pending`,
`queue_active` and `locked` are the fields of `mona->unexpected`; `pc`, `call`
and `got` are a ULT's position, arguments and the message it is about to return or
queue; `stale` is the message in the buffer its local `msg` still points to after it has
queued it and listens again; `consumed`, and the messages whose buffer an error exit has
given back (`recycled`), are history.
One action is one stretch of code between two points where another ULT, the
loop, or a thread of another execution stream can be observed:

| Location (`pc`) | Action | Code |
|---|---|---|
| lock | `Lock` | mutex at 541 |
| search | `SearchHit`, `SearchMiss` | `search_for_matching_unexpected_message`, 337-383 |
| decide | `Decide` | 543-556: return a match, sleep, or listen |
| waiting, woken | `Broadcast` moves sleepers, `Relock` | `ABT_cond_wait`, 556 |
| recheck | `Recheck` | 558: search again only while the queue is active |
| claim | `Claim` | 563-564: become the listener, unlock |
| post | `Post`, `PostFails` | 412-435: adopt the receive a probe left, or post one |
| test | `Test` | 437-445: a probe whose receive is not complete stops listening, with no lock and no broadcast |
| wait | `Reap`, `ReapFails` | 447-477 |
| deliver | `Deliver` | 478-492: the message is the one wanted |
| enqueue | `Enqueue` | 494-516: it is not (or this is a probe): append |
| notify | `Notify` | 484, 520: broadcast; listen again or return |
| error, giveup | `Error`, `Recycle`, `GiveUp` | 521-527: leave by the error exit, unlocking; `Recycle` if `msg` points to a buffer queued before, which goes back to the cache |
| peek, return | `Peek`, `Return` | reading the message found, the loop of `mona_uprobe` |

`Arrive`, `Complete` and `CompleteFails` are NA and the progress loop. Reads and
writes of the `prob_*` fields are separate steps from those under the mutex, as
in the code, so races between execution streams are in the model. A buffer has one
link for the queue and for the free list, so after `Recycle` neither list is what it was;
no call goes on from there (`ListsIntact`), and nothing is claimed of what the code does
next.

`Mailbox` is the promise: a call is given a message that matches and that no
other `mona_urecv` was given (`Ordered = FALSE`), or the oldest such message
(`Ordered = TRUE`); `mona_uiprobe` may always answer that there is none.

### Transfer

Threads have a home process. A call goes through `post` (receive for the
acknowledgement, or for an expected message), `send`, `ackwait` on the sending
side; `take` (unexpected) or `post`/`wait` (expected), then `get` (RDMA) and `ack`
on the receiving side. `Take` gives any unexpected message that matches, the failure of
`take` is `NA_PROTOCOL_ERROR` (668); that a failing receive may also break the queue is in
`UnexpectedRecv`. NA matches expected messages with posted receives by
source and tag, oldest with oldest (`Match`), may drop an expected message that no
receive is posted for (`Drop`, mona.h:1049-1051), fails operations
(`CallFails`, `ReceiveFails`) and completes cancellations late (`Cancelled`). The
completion of a receive whose call is over goes to an eventual nobody looks at.
The wire tags are those of the code: `2 * tag` and `2 * tag + 1` for `mona_send`,
`tag` for both messages of `mona_usend`. Since an acknowledgement says by nothing else
whose it is, what senders are promised needs plans whose tags are `Distinct`: the
receive for an acknowledgement has a source and tag that no receive of another ULT of
the process has and that no expected message is sent to. `MCTransfer` assumes it of the
plans of the `transfer` run (`PlannedAssumption`), `bug_ack` shows what happens without.

### Collectives

For each rank a collective is a sequence of `post`, `start`, `await` and `finish`
steps (`Schedules`), computed from rank, size, root and radix exactly as the loops do: dissemination
barrier, binomial bcast, radix-k reduce (`ReduceSteps`), linear gather(v) and
scatter, pairwise alltoall; allreduce and allgather are a reduce or gather to rank
0 and a bcast. Buffers hold bags of contributions, so that a contribution
missing, doubled or in the wrong block shows. Messages carry the number of the
call that sent them as history only: the code has just the tag, the same for all.
A large send finishes when its message, the one of this call, has been taken, a small one
at once; empty messages of the barrier are small. `Deliver` hands a posted receive its
message. On a communicator that uses `mona_urecv` a rank that has posted several receives
has as many ULTs in the shared queue, each with a wish of its own. When the listener among
them leaves, another may be woken, find that nobody listens, and listen without searching
the queue, in which the listener has put messages for it (`Miss`): `queued` counts those
messages, and the receive that is `blind` to them takes a later one of its source or none.
No other call receives on the instances, and nothing fails.

Two consequences for collectives follow, and TLC shows both if the hypotheses below are
dropped from the properties. In a single gather or alltoall a receive that has missed its
message waits for ever, on 3 ranks, in 11 states: nobody else will send. In two
gathers one after the other it gets the message of the second, in 13. So the
properties have hypotheses: `InTurn`, the communicator does not use `mona_urecv` or no
call of the program posts several receives (barrier, bcast, scatter, and reduce and
allreduce of radix 2 never do: `ScheduleInTurn`); and `Apart`, which also admits a program
of a single call, whose messages nothing can take the place of, even if they are missed.
Return is claimed under `InTurn`, the safety properties under `Apart`. Early returns for one rank or no data leave
no communication and are not modelled (sizes are at least 2).

### Instance

An operation goes from `created` (its ULT exists; those of `Direct` have none, since
`mona_msg_i*`, `mona_iput` and `mona_iget` post in the caller) to `posted`, `event` (completed
in `NA_Progress`, callback not run), `called` (callback run by `NA_Trigger`),
`set` (its ULT, or for `Direct` ones the callback, has set the eventual of the request)
and `freed` (`mona_wait`).
`LoopTest`, `LoopTrigger` and `LoopProgress` are the loop; `Take`, `Skip` and
`EndOfScan` are `mona_wait_any`, called until every request is
`MONA_REQUEST_NULL`; `Cancel`, `CancelFails`, `NoProbe`, `ProbeBack` and `Free` are
`mona_finalize`. A probe's receive may or may not be posted at the start. `Free`
stands for everything `mona_finalize` frees after it has joined the loop and, if
the instance owns one (`mona_init_thread` with `use_progress_es`), the execution
stream, which ends when no ULT is left in its pool. A direct operation has none there,
nor has a blocking call made on another stream, so this waits for neither.

### Caches and Operations

A pool is the four lists, the pointers to objects (`use`, from slots to objects), the
eventuals of requests, and what was forgotten or freed. `Get`, `Return`, `Clear`,
`GetReq`, `Wait` are the functions of `mona-types.h` and `mona_wait`; `Move` is a pointer
handed over, `Forget` a local variable that goes out of scope. Each ULT makes a call
of the interface (`mona_send` ... `NB_OP`) and goes through it in steps that end where it
waits; every function has its failing exits as disjuncts beside its success:

| Actions | Code |
|---|---|
| `Enter`, `Own` | the `i` forms and `NB_OP_INIT`/`NB_OP_POST`: request, ULT, and the caller's `mona_wait` |
| `Oper`, `OperOver`, `Ioper` | `mona_msg_*`, `mona_put`, `mona_get` and their `i` forms |
| `SendSmall`, `SendLarge`, `SendHandle`, `Sent`, `HandleSent`, `Acknowledged` | `mona_send_nc`, `mona_usend_nc` and the `_mem` forms |
| `Recv`, `Received` | `mona_recv_nc`, `mona_recv_mem` |
| `TakeQueued`, `Claim`, `Listen`, `StopListening`, `Reap` | the shared receive and the queue |
| `Recycle` | its error exit after a message was queued: 519, 523 |
| `CopySmall`, `GetLarge`, `Fetched`, `Acknowledge` | a message received |
| `Complete` | NA and `mona_callback` |
| `CancelProbe`, `ReapProbe`, `Free` | `mona_finalize` |

NA refuses an operation on an id it still has (`NA_BUSY`), which is how the early return
of a cancelled id shows. Messages have no content: any may be small or large. `stale` is
the buffer to which the local `msg` of a listener still points after it has queued it;
when the receive then fails, `Recycle` puts that buffer on the free list although the
queue, another call, the list or NA has it, and the link it overwrites is that of
whichever list it is on. From there the instance is `broken` and the behaviour ends. Every
property says what holds up to that exit.

### Communicators

A communicator is the array of addresses, the own rank, the teams and the mode.
`mona_comm_create` is one action with its four ways out: made, refused (an address
twice, or not its own), an address not copied, teams not computed; `mona_comm_dup` and
`mona_comm_subset` go through it. `refs` counts references as `NA_Addr_dup` and
`NA_Addr_free` do. `setup_teams` is a fold over the addresses whose accumulator is the
local variables of the loop. `RecvQueued`, `RecvNew` and `RecvExpected` are
`mona_comm_recv` by where the message is; `ProbeQueued` and `ProbeNew` are
`mona_comm_iprobe`, which `mona_comm_probe` repeats. When `setup_teams` fails it
reallocates two arrays it has freed: the allocator may stop the process (`aborted`).

## 3. Runs

Run `tlc -config <cfg> <module>`. All "pass" runs end without an error; each
"bug" run ends with the counterexample described in section 6.

| Run | cfg | Shows | Bounds |
|---|---|---|---|
| `recv_safety` | `UnexpectedRecv_safety` | mutual exclusion, one listener, exactly once, order of the queue, implements `Mailbox` | 2 ULTs, all three calls, 2 tags, 2 messages |
| `recv_fair` | `UnexpectedRecv_fair` | two usages that avoid the findings: no orphan, progress, implements the FIFO mailbox | 3 ULTs that all use `MONA_ANY_TAG` and do not probe, 3 messages; 3 ULTs, one call at a time, with 2 sources, 2 tags, wildcards, probes, 3 messages and 1 failure |
| `transfer` | `Transfer` | `SourceStable`, `ReadBeforeReturn`, `OwnAck`, `AcksReceivable`, `NoStaleReceive`; every call of a matched plan returns, or its expected message was dropped, if each process has one `mona_urecv` at a time | 2 senders and 2 receivers: 2 calls each, 1 failure, drops; or matched large transfers, one on each path |
| `coll` | `Collectives` | barrier holds, results right, no cross talk, clean return, everybody returns | 3 ranks: pairs of collectives, all small or all large, every root for the first and 0 or 2 for the second, and a barrier before and after small ones; a barrier on 4; trees on 5 with every root, radix 2 and 3. Pairs and radix 3 without `mona_urecv`; with it the barrier, radix 2, pairs of bcast, scatter and allreduce, a gather, an alltoall and an allgather alone, and two gathers and two alltoalls, of which only types are claimed |
| `instance` | `Instance` | requests freed once and when complete, all handed back, finalize blocks and returns | 2 ULTs, 3 requests, one of an operation without a ULT, with and without probe, own or shared execution stream |
| `resources` | `Operations` | until an error exit gives back a queued buffer: objects conserved, NA's objects not reused, losses bounded, no wait without an eventual | 2 ULTs, 8 kinds of call, 3 calls, 1 failure, 1 operation id at the start, 1 message in the queue |
| `comm` | `Communicators` | references balanced, teams agreed on, sources reported right | 3 processes on 2 nodes, 3 lists, 3 communicators, 2 messages, 1 probe that finds one, 1 failure |
| `bug_missed`, `bug_iprobe`, `bug_recycle` | `Bug_missed`, `Bug_iprobe`, `Bug_recycle` | hazards of the shared queue that are real | 2 ULTs, 2 messages; 2 ULTs that probe, 1 message; 1 ULT, 2 messages, 1 failure |
| `bug_ack` | `Bug_ack` | acknowledgements swapped | 2 sends with one tag |
| `bug_finalize` | `Bug_finalize` | finalize does not wait | 3 requests, one of an operation without a ULT |

Why the bounds are enough to be interesting. *UnexpectedRecv*: every hazard is
between one listener and one other ULT; a third ULT is needed for two
sleepers, and three messages for one received, one queued and one still in NA.
The safety part does not depend on the bounds at all: it is proved. It is claimed
without failures (`recv_safety` has none): the error exit breaks it. *Transfer*:
two concurrent sends to one peer are what can be confused; a second call of each
ULT meets what the first left behind. *Collectives*: 3 is the least size that
is no power of two, and at which a rank can be a leaf while two others talk; 5
has trees of three levels with a missing branch for radix 2 and of two for
radix 3; a call can only be confused with the one before or after it. A
barrier on 5 ranks also passes but takes minutes, and is left out of the run.
*Instance*: two requests in one array and another ULT's are enough for
completions in both orders, and for a second thread still at work. *Operations*: two
calls in parallel meet in the lists and in the shared receive; the third, which
`MCOperations` starts when both are over, is given what they left, an id that NA still
has or a request without an eventual included. *Communicators*: with three processes a
list can have a node in two pieces and one process twice; `MCCommunicators` makes all
communicators before messages are sent, puts at most one in expected mode, and lets
only `p1` receive, free and copy an address, since what others can do to `p1` they can
do to each other.

Deadlock checking is off: callers need not call and peers need not send, so
the system may really stop. The properties `EveryCallReturns`, `EveryoneReturns`,
`AllHandedBack`, `FinalizeReturns` and `MatchedProgress` say where it may not.

### Fairness

* `UnexpectedRecv`: weak fairness of `Complete` (the loop at `mona.c:14-40` runs until
  finalization and NA hands out what it holds) and of every step inside a call;
  strong fairness of the steps that take the mutex, because Argobots queues the
  ULTs that block on it. None of `Enter` and `Arrive`.
* `Transfer`: weak fairness of `Match` and of steps inside calls. `AppCalls` is an
  assumption on the application, not on MoNA: it makes the calls it planned. None of
  `Drop`, failures and `Cancelled`.
* `Collectives`: weak fairness of each rank and of the delivery to each rank; a receive
  that is blind to its message has no delivery to be fair to. That
  every rank calls the collectives of the program is part of the hypothesis.
* `Instance`: weak fairness of the loop, of ULTs and of `mona_finalize`; strong
  fairness of completions, which NA makes only inside `NA_Progress`. ULTs that
  poll yield at the end of a scan (`mona.c:476`), the loop yields when its pool is
  not empty (28-29). The probe's receive completes surely only once cancelled.

## 4. Proofs

`tlapm` on `SequenceLemmas`, `UnexpectedRecvProofs`, `InstanceProofs`,
`TransferProofs`, `OperationsProofs`, `CommunicatorsProofs`, `SchedulesProofs` and
`CollectivesProofs`. The assumptions are those on the constants,
`ConstantsAssumption`, `InstanceAssumption`, `TransferAssumption`,
`OperationsAssumption`, `CommunicatorsAssumption` and `CollectivesAssumption`; the
number of ULTs, processes, sources, tags, messages, requests and failures, the size of
a communicator, the radix and the sequence of collectives are arbitrary. Only the
processes of `Communicators`, over which references are summed, are assumed to be finitely
many (`IsFiniteSet(Procs)`); that finitely many ULTs are inside MoNA is proved where it is
needed. Most theorems on `UnexpectedRecv` have the form
`Spec => [](failures = 0 => P)`: the error exit of the code really breaks them
(section 6), so without failures is what can be claimed. Those on `Operations` cover
failures at every point of every call, up to the one exit that gives back a queued
buffer; those on `Collectives` have the hypothesis `Apart` of section 2, but for types.

| Theorem | States | By |
|---|---|---|
| `TypeCorrect` | `TypeOK`, with failures too | `TypeInv`: types, and that `got` and the queue hold messages that exist |
| `QueueProtected`, `SoleListener`, `ActiveHasListener` | `MutualExclusion`, `OneListener`, `ActiveMeansListener` | `ListenerInv` |
| `QueueOrdered` | `ArrivalOrder` | `OrderInv` |
| `NothingLostNothingTwice` | `ExactlyOnce` | `OnceInv` |
| `NoWaiterForgotten` | `NoOrphanWaiter` if no call is a probe | `WaiterInv` |
| `RecvImplementsMailbox` | `ImplementsMailbox` if `MaxFailures = 0` | step simulation with `CallInv`, `OnceInv` |
| `InstanceTypes` | `TypeOK` of `Instance` | `TypeInv`: types, and that a place of an array holds the request put there or nothing |
| `RequestsFreedOnce` | `FreedOnlyWhenSet` | `QueueInv`, `RequestInv` |
| `TransferTypes` | `TypeOK` of `Transfer` | `TypeInv`: types, and for each place of a call what it calls and holds (`CallOK`) |
| `NoReceiveLeft` | `NoStaleReceive` | `PostInv` |
| `AcknowledgedByOwn`, `DataReadBeforeReturn`, `BufferOutlivesReads` | `OwnAck`, `ReadBeforeReturn`, `SourceStable` if the plan's tags are `Distinct` | `SafeInv`: `PostInv`, `KeyInv`, `OnceInv`, `AckInv` |
| `AcknowledgementsReceivable` | `AcksReceivable` if the plan's tags are `Distinct` | `ReadyInv` with `SafeInv` |
| `OperationsTyped`, `ObjectsConserved` | `TypeOK`, `Conserved` of `Operations`, up to `Recycle`, as in the next three | `Inv`: `PoolOK`, `SlotInv`, `ProbInv`, `QueueInv`, `ListenInv` |
| `NAKeepsItsOwn` | `NAOwns` of `Operations` | `NaInv` with `Inv` |
| `WaitersHaveEventuals` | `NoNullWait` of `Operations` | `EventualInv` with `Inv` |
| `LossesBounded` | `LossBounded` of `Operations` | `LossInv` with `EventualInv`, `NaInv`, `Inv` |
| `SchedulePaired`, `ScheduleExchange` | a rank sends to another exactly if the other receives from it, once per call, and waits for all it started | the schedules' own lemmas |
| `ScheduleInTurn` | a barrier, a bcast, a scatter, and a reduce or allreduce of radix 2 wait for one receive before they post another | `OneAtATime` of each turn |
| `CollectivesTypes` | `TypeOK` of `Collectives`, whatever is missed | `TypeInv` |
| `CallsStayApart`, `CallsReturnClean` | `NoCrossTalk`, `ReturnsClean` of `Collectives`, which say `Apart` | `IndInv` (`CollectivesInductive`), `TurnInv`, `SchedulePaired`, `ScheduleInTurn` |
| `BarrierSynchronizes` | `BarrierHolds` of `Collectives`, likewise | `IndInv`, `BarrierInv` |
| `ResultsRight` | `ResultRight` of `Collectives`, likewise, if no allreduce is in place (`NoInPlaceSum`) | `IndInv`, `ResultInv`, the trees of `SchedulesProofs` |
| `SourceReported`, `TypesHold` | `SourceRight`, `TypeOK` of `Communicators` | `SourceInv`, `RefTypes` |
| `ReferencesBalanced` | `RefsBalanced` of `Communicators` | `RefsInv` |
| `TeamsConsistent` | `TeamsAgree` of `Communicators` | `SourceInv`, the turns of `setup_teams` |
| `FinalizeSafe` | `FinalizeBlocks` if `Disciplined`, or if the execution stream is MoNA's and no operation is `Direct` | `FinalInv`, `RequestInv` |

The invariants and why they are needed:

* `ListenerInv`. `OneListener` alone is not inductive: `Claim` makes a listener, and
  to know that there is none before one needs that the queue is inactive there
  (`ClaimIsFree`), which holds because the mutex is held since it was read
  (`SectionsLocked`, `MutualExclusion`), and that every listener has set the flag
  (`ListenerSets`). `NoError` keeps the ULTs out of the error exit.
* `OrderInv` adds that whatever a listener holds, then the posted receive, then what
  NA holds, is newer than the queue (`Bounded`), and that a listener that holds a
  message has reaped the receive (`HolderReaped`), for which it must be alone.
* `OnceInv` states `ExactlyOnce` place by place, over pairs, and that what is in
  any place has left NA (`Old`), so that a newly taken message is in none.
* `WaiterInv` fails with probes: a probe leaves without a broadcast, which is how
  `bug_iprobe` gets stuck.
* The refinement maps a ULT's call to `want`, its `msg` from the moment the function
  is sure to return it to `answer`, and `consumed` plus the messages held to `given`.
* `QueueInv` and `RequestInv`. `FreedOnlyWhenSet` speaks of a request being in nobody's
  array; a step changes one place of one array, so the invariant says it place by
  place, and the assumption that no request is in two places carries it over. That
  the queue holds an operation once is needed when its head's callback runs.
* `FinalInv` takes `FinalizeBlocks` back to the steps before: a disciplined
  application has only ULTs that are done, whose places are all cleared; the probe's
  receive is back before the loop is joined; MoNA's stream ends with its ULTs, which
  says nothing of an operation that has none.
* `PostInv`. That a receive of a finished call belongs to a failed one is not inductive:
  `Match` and the failing exits end waits, and to know which receive goes with them one
  needs that a call has posted one at most and that a receive not yet matched belongs to
  a call that has been handed nothing (`Awaited`).
* `KeyInv` traces each packet to a planned call: a message has source, destination and
  tag of the send in it, an acknowledgement those of the send it acknowledges, and what
  it acknowledges has been read. It holds for any tags. With distinct ones it leaves a
  posted receive for an acknowledgement only the acknowledgements of its own ULT.
* `OnceInv` of `Transfer`: a large message, or its acknowledgement, is in one place at
  most (a mailbox, the network, the hands of a receiver), and while it is anywhere the
  call that sent it waits and has been handed nothing. Without "one place" the wait
  could end with a second copy still to be read. A failed call leaves things behind,
  which is why this, like `AckInv`, is said of ULTs none of whose calls failed (`Sound`).
* `ReadyInv`: a sender that waits for its acknowledgement has its receive in NA. It holds
  for any tags; the tags matter for the count. With distinct ones the acknowledgements
  that one receive could take are all of one message (`KeyInv`), hence one at most
  (`OnceInv`), and its sender, none of whose calls failed, still waits.
* `Inv` of `OperationsProofs`. That an object is in one place (`PoolOK`) is kept by every
  function of `Caches` only if what it is given is right: a slot to be filled is empty, a
  slot to be given back is full and its object is of the kind of the list. So the
  invariant says for each point of each call which slots its ULT holds and of which kind
  (`SlotInv`, by `Has` and `KindAt`), that the three objects of the shared receive are
  held exactly while it is posted (`ProbInv`), and that a message of the queue is under
  its own name (`QueueInv`), so that the next one does not overwrite it. `ListenInv`
  keeps a second listener from taking three objects where three are held. What a step
  reaches in between is said by `Reached`: the roles held, the slots touched.
* `NaInv`. `NAOwns` says what an object of an operation is not: on a list or freed. To
  keep that, one must know where the object is, so the invariant says who owns each
  operation: the ULT blocked in it (`Waits`), the sender whose acknowledgement it receives
  (`Awaits`), the caller who brought the operation id (`Brought`), those who share the
  receive (`Shared`), or nobody, and then its request and its buffer are forgotten and its
  id too unless it was cancelled (`Gone`). Its request is unset (`Pends`), so a wait that
  ends is never for an operation NA still has, and two operations never have the same
  request, so a callback ends one wait only. That a step disturbs no operation of another
  ULT is proved once: `Quiet` says that the pool a step has reached differs from the one
  it began with only in what its ULT holds, what nobody holds and its stack
  (`MayTouch`); every function of `Caches` keeps that, and no operation of another ULT is
  among those (`Untouched`).
* `EventualInv` says of every request, on the list and in a slot, that it has an eventual
  until an operation has run out of memory (`short`): a request comes from the list
  without being looked at, so the whole list has to be right. Within one step the request
  just taken is excepted until its eventual is made (`Sound(p, E)`).
* `LossInv` keeps the accounts behind `LossBounded`. A failure is not paid for when it
  happens: it marks an eventual, and the loss comes when someone looks, perhaps in another
  ULT and another call. So an operation that failed is *in doubt* until whoever waits for
  it looks, and may then cost its own request and that of the ULT it failed in; the latter
  is *owed* until the call that started the ULT looks. The invariant (`Account`) is that
  requests forgotten, twice the doubts and the requests owed are together at most twice
  the failures. It needs that one eventual has one who waits and that a completion marks
  one only, which is `NaInv`, and that the request of a cancelled operation is already
  forgotten (`Cancels`), so that a late callback costs nothing more. For the buffers
  (`BufferInv`), those forgotten and the ULTs with a large message under way are together
  at most the large messages. Without the doubts and debts the bound would not be
  inductive.
* Schedules. A loop with `mask <<= 1` or `p *= k` is a recursive function (`Strides`) and a
  list of the steps of its turns (`FlattenSeq`); which numbers a property holds for is a
  set that contains 0 and with each number the next (`Counting`), which is how induction
  is done here. `Exchange(n, r, s, from, to)` says of the steps `s` of rank `r` that they
  send to `to` and receive from `from`, each once and waited for; a loop whose turns have
  different peers has it if its turns do (`ExchangeFlatten`). Pairing then is arithmetic:
  `rel + i * p` is the child exactly of the rank that `rel - d` leads to.
* `TurnInv` of `CollectivesProofs`. That nothing is missed is not in the model but has to
  be shown: with `InTurn` on a communicator that uses `mona_urecv` a rank has one receive
  posted at most (`Alone`) and waits for it before it posts the next (`Before`, by
  `ScheduleInTurn`), so `Miss` finds no other ULT to wake. With a single call messages can
  be missed, but the order of the calls in a channel (`ChannelInv`) leaves it one message
  at most: a receive that is blind to that one gets nothing.
* `IndInv` of `CollectivesProofs`. `NoCrossTalk` is about a message received; that it is of
  the receiver's current call depends on all the messages before it in the channel. So
  `ChannelInv` says exactly which calls have a message there (`Started` and not `Taken`),
  that they are in order, and nothing was taken that was not started; with the pairing
  of the schedules the oldest is the one the receiver's posted receive is for
  (`HeadIsCurrent`). `ReceiveInv` follows a receive from posting to waiting,
  `StepsInv` says that the rest of a schedule still waits for what it has started, and
  `LargeInv` that a large send that is over has been taken.
* `BarrierInv` says that the wait of one turn comes before the send of a later one. Then,
  by induction on turns, a rank that has gone through `i` of them `Knows` that the `2^i`
  ranks behind it have entered: half of that it knew before, and the other half the
  sender of the last message knew when it sent it. The induction is over turns in one
  state, not over time.
* `ResultInv` says what the buffers and the messages hold in the middle of a call. A call
  has two parts at most, `Up` (barrier, reduce, gather, scatter, alltoall) and `Down` (the
  bcast). As long as a rank's message from above is to come, its buffer is `Partly` filled
  with what came from below, once it has come the buffer is `Whole`; `Filled` says which of
  the two, by the receives still to be awaited, and `Brings` says the same of a message.
  For the two not to mix, the steps left must be in the order of the parts (`Phased`), and
  the bcast must not have begun while a step of the part before it is left (`Ordering`).
  For a reduction the buffer is the sum over the rank itself and the subtrees of the
  children already received from (`Combined`); that a rank has each contribution once is
  that the subtrees of its children are disjoint and cover its own (`SubtreesApart`,
  `SubtreeCovered`): with `p = k^j` the subtree of `rel` is `rel .. rel + p - 1`, cut at
  the number of ranks. What a rank sends up is its whole subtree, since a send comes after
  all receives of its part (`HeadPhase`). `NoInPlaceSum` is needed: with every
  rank passing `MONA_IN_PLACE` to an allreduce, ranks other than 0 copy from that address
  (section 6). A sum is a bag, so neither the order of the operands nor the
  operation matters; `MONA_IN_PLACE` at the root of a reduce is within the theorem.
* `SourceInv` says that a communicator knows its own rank and has its teams from
  `setup_teams`; the rest of `SourceRight` is the search loop.
* `RefsInv`. `RefsBalanced` sums over processes and addresses what is held beyond the
  needs (`Hold`). A step leaves that of other processes alone and changes that of its own by
  what `Balanced(p, extra)` says: nothing, whichever way `mona_comm_create` leaves, or one
  reference for one address when a probe has found a message. A process that the allocator
  stopped is no longer counted. The model's sum is a fold; the proofs say of a function that
  it sums (`SumOf`: nothing for the empty set, and for every other set one of its elements
  and the sum of the rest) and compare such functions of one state and the next.
* `TeamsAgree` is about a loop run by two processes, each with its own node. `TurnByTurn`
  lists the teams after each turn; `Alike` says what two such lists have in common at
  every turn (the leaders, and for processes of one node the local team), `Sound` what
  one process knows of itself and of the leader of its node.

Not proved, checked with TLC only: everything under fairness (`MatchedProgress`,
`EveryCallReturns`, `EveryoneReturns`, `FinalizeReturns`, `AllHandedBack`), and the FIFO
refinement (it is false in general, see `bug_missed`). Every invariant that
a passing run checks is stated by a theorem, some under a hypothesis given in the table
above; the `bug_` runs show that `DataReadBeforeReturn` and `FinalizeSafe` need theirs and why
those on `Operations` stop at `Recycle`.

## 5. Not modelled

* The data inside one message: copying between several buffers of `mona_*_nc`, and the
  offsets of `mona_*_mem`, whose objects are in `Operations`.
* Errors of point-to-point calls inside collectives: what a call that fails leaves
  posted is in `Operations` and `Transfer`, one call at a time. Early expected messages
  that NA drops (mona.h:1049-1051) are in `Transfer` too; `Collectives` keeps them until
  they are received.
* What the code does after an error exit has given back a buffer that is still queued: the
  queue and the free list then share links, and the behaviours of `UnexpectedRecv` and
  `Operations` end.
* Other receives on the instances while a collective runs.
* The variants of `mona_init` and their failures, lookup and conversion of addresses,
  memory handles, accessors: calls of NA and Argobots without a state of their own.
* `mona_comm_*_mem` and the hints of communicators, which no operation reads except the
  radix of a reduce (`Radixes` of `Collectives`).
* Reduction operations (loops over elements), `binary_tree_reduce` and `alltoall_mem`
  (not called).
* The MPI wrappers and `wrap.py`: a translation of handles in front of this library,
  built only on request and single-threaded by its maps.
* Several execution streams make the interleavings of `UnexpectedRecv` real at every
  step; with a single one ULTs switch only where they block or yield. The model
  has all interleavings, so what it shows to hold, holds in both.

## 6. Where code and documentation disagree

Shown by a run:

* `bug_missed`, `mona-unexpected.c:558`. A ULT that wakes up after the listener has
  left goes on to listen without searching the queue, where its message may be. It
  needs the listener to leave before the woken ULT gets the mutex. A gather, an alltoall
  or a reduce of radix 3 or more on a communicator with the default mode is used like that
  by the library itself: it can hang beside a message that has come, or take a message of
  the next call with the same tag (section 2, Collectives).
* `bug_iprobe`, `mona-unexpected.c:442` and 555-557. `mona_uiprobe`, which "will not block"
  (mona.h:763), waits on the condition variable while another ULT listens, for as long as
  no message comes; and if that one is a probe that gives up, it broadcasts to nobody, and
  the one that waits is left for ever.
* `bug_recycle`, `mona-unexpected.c:523`. A receive that has queued a message for another
  and listens again (519) gives back the queued buffer when it fails, and overwrites the
  link of the queue; the call that takes the message gives it back once more.
* `bug_ack`, `mona-unexpected.c:252`. Two large sends to one peer with one tag may be
  acknowledged crosswise.
* `bug_finalize`, `mona.c:224`. `mona_finalize` does not wait for pending operations
  as mona.h:94-96 says. When the loop has an execution stream of its own it waits for
  those that have a ULT in its pool, with the loop stopped, so that one that NA has not
  completed by then keeps it from returning; `mona_msg_i*`, `mona_iput`, `mona_iget` and
  blocking calls of other streams have none and are freed under even then.

Seen while modelling, without a run:

* ranks other than the root of a reduce copy from `sendbuf` even if it is `MONA_IN_PLACE`
  (`mona-reduce.c:139`, where 136-138 says "if it is not the MONA_IN_PLACE for all
  ranks"), and an in-place allreduce passes it on every rank, as `MONA_MPI_Allreduce`
  does (`mona-mpi-wrappers.cpp.in:572-573`);
* the error exit of `receive_new_unexpected_message` (521-527) unlocks a mutex it may
  not hold and leaves `pending_msg_queue_active` set; the proofs exclude it by
  `failures = 0`;
* `mona_uiprobe` reads the message it found after the mutex is released
  (`mona-unexpected.c:997-1009`), when another call may have taken and recycled it; no
  property covers it;
* the acknowledgement of a `mona_usend` with tag `2t` has the wire tag of a
  `mona_send` with tag `t`;
* a large send whose message could not be sent gives back the operation id of the
  receive it has just cancelled (`mona-unexpected.c:265`), and no large send gives
  back the buffer of its acknowledgement (`mona-unexpected.c:245`,
  `mona-expected.c:249`); `LossBounded` says how much is lost;
* a probe that finds its message and is not asked for the source leaks a reference to
  the address (`mona-unexpected.c:1013`), once for each such probe (`RefsBalanced`);
* `mona_wait` frees the request only when the operation succeeded, and `mona_iput` and
  `mona_iget` return a request without eventual to the cache (`mona.c:989`);
* `setup_teams` reallocates what its error exit has freed (`mona-comm.c:75`);
* `mona_urecv_mem` reads to offset 0 and from offset 0, whatever offsets it is given
  (`mona-unexpected.c:881`); `mona_recv_mem` uses both;
* `mona_test` tests the pointer, not the flag (`mona.c:445`), and never yields;
* `setup_teams` compares an address with the last known node only (`mona-comm.c:44`);
* the copy loops for several buffers do not advance the source
  (`mona-expected.c:432-438`, `mona-unexpected.c:680-685`).

## 7. Plan

Done, in this order: `UnexpectedRecv` with its mailbox and proofs; `Transfer`;
`Collectives`; `Instance` with its proofs; `Caches` and `Operations`; `Communicators`;
the proofs of `Communicators`, `Transfer` and `Operations`; those of `Schedules` and
`Collectives`, then with the missed messages of the shared queue; the accounts of `Operations`, the references and teams of
`Communicators` and the acknowledgements of `Transfer`.

Left:

1. Errors in `Collectives`: what a call that fails leaves posted.
2. Tag collisions between the two paths as a plan of `Transfer`.
3. The registries of the MPI wrappers.

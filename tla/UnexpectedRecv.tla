--------------------------- MODULE UnexpectedRecv ---------------------------
(***************************************************************************)
(* The receive side of the unexpected-message path (mona-unexpected.c):    *)
(* mona_urecv, mona_uiprobe and mona_uprobe, called by several ULTs that   *)
(* share one queue of pending messages.  At any time at most one ULT is    *)
(* meant to listen to NA; the messages it does not want go to the queue    *)
(* and the other ULTs sleep on pending_msg_cv until the queue changes.     *)
(*                                                                         *)
(* A message is named by its rank of arrival at NA: message m is           *)
(* arrived[m], and messages 1..taken have left NA.  One action is one      *)
(* stretch of code between two points where another ULT, the progress loop *)
(* or a thread of another execution stream can be observed.                *)
(***************************************************************************)
EXTENDS Naturals, SequencesExt

CONSTANTS
  Threads,        \* the ULTs that call into the instance
  Sources,        \* addresses messages come from
  Tags,           \* tags messages carry
  AnySource,      \* MONA_ANY_ADDR
  AnyTag,         \* MONA_ANY_TAG
  WantSources,    \* sources the calls ask for
  WantTags,       \* tags the calls ask for
  Kinds,          \* functions the callers use
  MaxMessages,    \* bound on the messages that ever arrive
  MaxFailures     \* bound on the NA operations that fail

ASSUME ConstantsAssumption ==
  /\ AnySource \notin Sources
  /\ AnyTag \notin Tags
  /\ WantSources \subseteq Sources \cup {AnySource}
  /\ WantTags \subseteq Tags \cup {AnyTag}
  /\ Kinds \subseteq {"urecv", "uiprobe", "uprobe"}
  /\ MaxMessages \in Nat
  /\ MaxFailures \in Nat

VARIABLES
  arrived,       \* every message NA has received, in order of arrival
  taken,         \* how many of them NA has handed to a posted receive
  prob_active,   \* an unexpected receive is posted and not yet reaped
  prob_req,      \* state of the request of that receive
  prob_msg,      \* the message it received
  pending,       \* the queue pending_msg_oldest .. pending_msg_newest
  queue_active,  \* pending_msg_queue_active
  locked,        \* pending_msg_mtx
  pc,            \* where each ULT is
  call,          \* the call it is executing
  got,           \* its local msg, NoMessage for NULL
  consumed,      \* the messages mona_urecv has returned
  failures,      \* NA operations that have failed so far
  stale,         \* the message it queued, which its local msg still points to
  recycled       \* messages whose buffer an error exit gave back to the cache

na   == <<arrived, taken>>
prob == <<prob_active, prob_req, prob_msg>>
left == <<stale, recycled>>
vars == <<na, prob, pending, queue_active, locked, pc, call, got, consumed,
          failures, left>>

NoMessage == 0
Message   == [src : Sources, tag : Tags]
Call      == [kind : Kinds, src : WantSources, tag : WantTags]
NoCall    == [kind |-> "none", src |-> AnySource, tag |-> AnyTag]

IsProbe(t) == call[t].kind # "urecv"

Location == {"idle", "lock", "search", "decide", "waiting", "woken",
             "recheck", "claim", "post", "test", "wait", "deliver",
             "enqueue", "notify", "error", "giveup", "peek", "return"}

Goto(t, l) == pc' = [pc EXCEPT ![t] = l]

(***************************************************************************)
(* Each definition whose name ends in _ is a plausible mistake in the      *)
(* definition it is named after; a property is trusted to watch the code   *)
(* only if TLC finds it violated once the mistake takes the definition's   *)
(* place.  This one matches the source only.                               *)
(***************************************************************************)
Matches_(c, m) == c.src \in {AnySource, arrived[m].src}

(***************************************************************************)
(* The test the two search sites share: the tag, then the source.          *)
(***************************************************************************)
Matches(c, m) ==
  /\ c.tag \in {AnyTag, arrived[m].tag}
  /\ c.src \in {AnySource, arrived[m].src}

(***************************************************************************)
(* The search walks from pending_msg_newest.                               *)
(***************************************************************************)
IsOldestMatch_(c, i) ==
  /\ Matches(c, pending[i])
  /\ \A j \in (i + 1)..Len(pending) : ~ Matches(c, pending[j])

(***************************************************************************)
(* Position i of the queue holds the oldest message the call asks for.     *)
(***************************************************************************)
IsOldestMatch(c, i) ==
  /\ Matches(c, pending[i])
  /\ \A j \in 1..(i - 1) : ~ Matches(c, pending[j])

Init ==
  /\ arrived = << >>
  /\ taken = 0
  /\ prob_active = FALSE
  /\ prob_req = "null"
  /\ prob_msg = NoMessage
  /\ pending = << >>
  /\ queue_active = FALSE
  /\ locked = FALSE
  /\ pc = [t \in Threads |-> "idle"]
  /\ call = [t \in Threads |-> NoCall]
  /\ got = [t \in Threads |-> NoMessage]
  /\ consumed = {}
  /\ failures = 0
  /\ stale = [t \in Threads |-> NoMessage]
  /\ recycled = {}

-----------------------------------------------------------------------------
(***************************************************************************)
(* NA and the progress loop: a message arrives; a posted receive completes *)
(* with the oldest message NA holds, or fails.                             *)
(***************************************************************************)
Arrive ==
  /\ Len(arrived) < MaxMessages
  /\ \E m \in Message : arrived' = Append(arrived, m)
  /\ UNCHANGED <<taken, prob, pending, queue_active, locked, pc, call, got,
                 consumed, failures, left>>

Complete ==
  /\ prob_req = "pending"
  /\ taken < Len(arrived)
  /\ taken' = taken + 1
  /\ prob_req' = "done"
  /\ prob_msg' = taken + 1
  /\ UNCHANGED <<arrived, prob_active, pending, queue_active, locked, pc,
                 call, got, consumed, failures, left>>

CompleteFails ==
  /\ prob_req = "pending"
  /\ failures < MaxFailures
  /\ failures' = failures + 1
  /\ prob_req' = "failed"
  /\ UNCHANGED <<na, prob_active, prob_msg, pending, queue_active, locked, pc,
                 call, got, consumed, left>>

-----------------------------------------------------------------------------
(***************************************************************************)
(* check_for_matching_unexpected_message.  The mutex is held at "search",  *)
(* "decide", "recheck" and "claim".                                        *)
(***************************************************************************)
Enter(t) ==
  /\ pc[t] = "idle"
  /\ \E c \in Call : call' = [call EXCEPT ![t] = c]
  /\ Goto(t, "lock")
  /\ UNCHANGED <<na, prob, pending, queue_active, locked, got, consumed,
                 failures, left>>

Lock(t) ==
  /\ pc[t] = "lock"
  /\ ~ locked
  /\ locked' = TRUE
  /\ Goto(t, "search")
  /\ UNCHANGED <<na, prob, pending, queue_active, call, got, consumed,
                 failures, left>>

(***************************************************************************)
(* The oldest match leaves the queue unless the call is a probe.           *)
(***************************************************************************)
SearchHit(t) ==
  /\ pc[t] = "search"
  /\ \E i \in 1..Len(pending) :
       /\ IsOldestMatch(call[t], i)
       /\ got' = [got EXCEPT ![t] = pending[i]]
       /\ pending' = IF IsProbe(t) THEN pending ELSE RemoveAt(pending, i)
  /\ locked' = FALSE
  /\ Goto(t, IF IsProbe(t) THEN "peek" ELSE "return")
  /\ UNCHANGED <<na, prob, queue_active, call, consumed, failures, left>>

SearchMiss(t) ==
  /\ pc[t] = "search"
  /\ \A i \in 1..Len(pending) : ~ Matches(call[t], pending[i])
  /\ Goto(t, "decide")
  /\ UNCHANGED <<na, prob, pending, queue_active, locked, call, got, consumed,
                 failures, left>>

(***************************************************************************)
(* Somebody else is listening: release the mutex and sleep.                *)
(***************************************************************************)
Decide(t) ==
  /\ pc[t] = "decide"
  /\ IF queue_active
       THEN /\ locked' = FALSE
            /\ Goto(t, "waiting")
       ELSE /\ Goto(t, "claim")
            /\ UNCHANGED locked
  /\ UNCHANGED <<na, prob, pending, queue_active, call, got, consumed,
                 failures, left>>

(***************************************************************************)
(* The ULT wakes up without the mutex.                                     *)
(***************************************************************************)
Relock_(t) ==
  /\ pc[t] = "woken"
  /\ locked' = TRUE
  /\ Goto(t, "recheck")
  /\ UNCHANGED <<na, prob, pending, queue_active, call, got, consumed,
                 failures, left>>

(***************************************************************************)
(* ABT_cond_wait returns once the mutex is held again.  The queue is       *)
(* searched again only if somebody is still listening.                     *)
(***************************************************************************)
Relock(t) ==
  /\ pc[t] = "woken"
  /\ ~ locked
  /\ locked' = TRUE
  /\ Goto(t, "recheck")
  /\ UNCHANGED <<na, prob, pending, queue_active, call, got, consumed,
                 failures, left>>

(***************************************************************************)
(* A ULT that was woken up takes the listener to be gone.                  *)
(***************************************************************************)
Recheck_(t) ==
  /\ pc[t] = "recheck"
  /\ Goto(t, "claim")
  /\ UNCHANGED <<na, prob, pending, queue_active, locked, call, got, consumed,
                 failures, left>>

Recheck(t) ==
  /\ pc[t] = "recheck"
  /\ Goto(t, IF queue_active THEN "search" ELSE "claim")
  /\ UNCHANGED <<na, prob, pending, queue_active, locked, call, got, consumed,
                 failures, left>>

Claim(t) ==
  /\ pc[t] = "claim"
  /\ queue_active' = TRUE
  /\ locked' = FALSE
  /\ Goto(t, "post")
  /\ UNCHANGED <<na, prob, pending, call, got, consumed, failures, left>>

-----------------------------------------------------------------------------
(***************************************************************************)
(* receive_new_unexpected_message.                                         *)
(***************************************************************************)
(***************************************************************************)
(* A receive is posted whether or not one is.                              *)
(***************************************************************************)
Post_(t) ==
  /\ pc[t] = "post"
  /\ prob_active' = TRUE
  /\ prob_req' = "pending"
  /\ UNCHANGED prob_msg
  /\ Goto(t, IF IsProbe(t) THEN "test" ELSE "wait")
  /\ UNCHANGED <<na, pending, queue_active, locked, call, got, consumed,
                 failures, left>>

Post(t) ==
  /\ pc[t] = "post"
  /\ IF prob_active
       THEN UNCHANGED prob
       ELSE /\ prob_active' = TRUE
            /\ prob_req' = "pending"
            /\ UNCHANGED prob_msg
  /\ Goto(t, IF IsProbe(t) THEN "test" ELSE "wait")
  /\ UNCHANGED <<na, pending, queue_active, locked, call, got, consumed,
                 failures, left>>

PostFails(t) ==
  /\ pc[t] = "post"
  /\ ~ prob_active
  /\ failures < MaxFailures
  /\ failures' = failures + 1
  /\ Goto(t, "error")
  /\ UNCHANGED <<na, prob, pending, queue_active, locked, call, got,
                 consumed, left>>

(***************************************************************************)
(* A probe that finds nothing leaves the receive posted and stops          *)
(* listening: without the mutex, and without waking anybody.               *)
(***************************************************************************)
Test(t) ==
  /\ pc[t] = "test"
  /\ IF prob_req = "pending"
       THEN /\ queue_active' = FALSE
            /\ Goto(t, "return")
       ELSE /\ Goto(t, "wait")
            /\ UNCHANGED queue_active
  /\ UNCHANGED <<na, prob, pending, locked, call, got, consumed, failures,
                 left>>

(***************************************************************************)
(* prob_msg is cleared before it is copied to the local message.           *)
(***************************************************************************)
Reap_(t) ==
  /\ pc[t] = "wait"
  /\ prob_req = "done"
  /\ prob_active' = FALSE
  /\ prob_req' = "null"
  /\ prob_msg' = NoMessage
  /\ got' = [got EXCEPT ![t] = NoMessage]
  /\ stale' = [stale EXCEPT ![t] = NoMessage]
  /\ Goto(t, IF ~ IsProbe(t) /\ Matches(call[t], prob_msg)
               THEN "deliver" ELSE "enqueue")
  /\ UNCHANGED <<na, pending, queue_active, locked, call, consumed, failures,
                 recycled>>

(***************************************************************************)
(* mona_wait returned: the receive is over and its outcome is local.       *)
(***************************************************************************)
Reap(t) ==
  /\ pc[t] = "wait"
  /\ prob_req = "done"
  /\ prob_active' = FALSE
  /\ prob_req' = "null"
  /\ prob_msg' = NoMessage
  /\ got' = [got EXCEPT ![t] = prob_msg]
  /\ stale' = [stale EXCEPT ![t] = NoMessage]
  /\ Goto(t, IF ~ IsProbe(t) /\ Matches(call[t], prob_msg)
               THEN "deliver" ELSE "enqueue")
  /\ UNCHANGED <<na, pending, queue_active, locked, call, consumed, failures,
                 recycled>>

ReapFails(t) ==
  /\ pc[t] = "wait"
  /\ prob_req = "failed"
  /\ prob_active' = FALSE
  /\ prob_req' = "null"
  /\ Goto(t, "error")
  /\ UNCHANGED <<na, prob_msg, pending, queue_active, locked, call, got,
                 consumed, failures, left>>

(***************************************************************************)
(* The listener has its message and forgets to stop listening.             *)
(***************************************************************************)
Deliver_(t) ==
  /\ pc[t] = "deliver"
  /\ ~ locked
  /\ Goto(t, "notify")
  /\ UNCHANGED <<na, prob, pending, queue_active, locked, call, got, consumed,
                 failures, left>>

Deliver(t) ==
  /\ pc[t] = "deliver"
  /\ ~ locked
  /\ queue_active' = FALSE
  /\ Goto(t, "notify")
  /\ UNCHANGED <<na, prob, pending, locked, call, got, consumed, failures,
                 left>>

(***************************************************************************)
(* The message is put at the head of the queue.                            *)
(***************************************************************************)
Enqueue_(t) ==
  /\ pc[t] = "enqueue"
  /\ ~ locked
  /\ pending' = <<got[t]>> \o pending
  /\ got' = [got EXCEPT ![t] = NoMessage]
  /\ stale' = [stale EXCEPT ![t] = got[t]]
  /\ queue_active' = (queue_active /\ ~ IsProbe(t))
  /\ Goto(t, "notify")
  /\ UNCHANGED <<na, prob, locked, call, consumed, failures, recycled>>

(***************************************************************************)
(* The message goes to the end of the queue; msg still points to it.       *)
(***************************************************************************)
Enqueue(t) ==
  /\ pc[t] = "enqueue"
  /\ ~ locked
  /\ pending' = Append(pending, got[t])
  /\ got' = [got EXCEPT ![t] = NoMessage]
  /\ stale' = [stale EXCEPT ![t] = got[t]]
  /\ queue_active' = (queue_active /\ ~ IsProbe(t))
  /\ Goto(t, "notify")
  /\ UNCHANGED <<na, prob, locked, call, consumed, failures, recycled>>

(***************************************************************************)
(* ABT_cond_broadcast, after which t goes to l.                            *)
(***************************************************************************)
Broadcast(t, l) ==
  pc' = [u \in Threads |->
           IF u = t THEN l ELSE IF pc[u] = "waiting" THEN "woken" ELSE pc[u]]

(***************************************************************************)
(* Nobody is woken up.                                                     *)
(***************************************************************************)
Notify_(t) ==
  /\ pc[t] = "notify"
  /\ Goto(t, IF IsProbe(t) \/ got[t] # NoMessage THEN "return" ELSE "post")
  /\ UNCHANGED <<na, prob, pending, queue_active, locked, call, got, consumed,
                 failures, left>>

(***************************************************************************)
(* A urecv that queued somebody else's message listens again.              *)
(***************************************************************************)
Notify(t) ==
  /\ pc[t] = "notify"
  /\ Broadcast(t, IF IsProbe(t) \/ got[t] # NoMessage THEN "return" ELSE "post")
  /\ UNCHANGED <<na, prob, pending, queue_active, locked, call, got, consumed,
                 failures, left>>

(***************************************************************************)
(* The error exit releases a mutex its thread does not hold, and leaves    *)
(* queue_active as it is.                                                  *)
(***************************************************************************)
Error(t) ==
  /\ pc[t] = "error"
  /\ stale[t] = NoMessage
  /\ locked' = FALSE
  /\ Goto(t, "giveup")
  /\ UNCHANGED <<na, prob, pending, queue_active, call, got, consumed,
                 failures, left>>

(***************************************************************************)
(* The error exit of a call that queued a message before it listened again *)
(* also gives the buffer of that message back to the cache.                *)
(***************************************************************************)
Recycle(t) ==
  /\ pc[t] = "error"
  /\ stale[t] # NoMessage
  /\ recycled' = recycled \cup {stale[t]}
  /\ locked' = FALSE
  /\ Goto(t, "giveup")
  /\ UNCHANGED <<na, prob, pending, queue_active, call, got, consumed,
                 failures, stale>>

GiveUp(t) ==
  /\ pc[t] = "giveup"
  /\ Broadcast(t, "return")
  /\ UNCHANGED <<na, prob, pending, queue_active, locked, call, got, consumed,
                 failures, left>>

-----------------------------------------------------------------------------
(***************************************************************************)
(* mona_uiprobe found a message and reads its header, the mutex released.  *)
(***************************************************************************)
Peek(t) ==
  /\ pc[t] = "peek"
  /\ got' = [got EXCEPT ![t] = NoMessage]
  /\ call' = [call EXCEPT ![t] = NoCall]
  /\ Goto(t, "idle")
  /\ UNCHANGED <<na, prob, pending, queue_active, locked, consumed, failures,
                 left>>

(***************************************************************************)
(* The call returns: mona_urecv with its message or NA_PROTOCOL_ERROR,     *)
(* mona_uiprobe with flag = 0; mona_uprobe tries again.                    *)
(***************************************************************************)
Return(t) ==
  /\ pc[t] = "return"
  /\ consumed' = consumed \cup ({got[t]} \ {NoMessage})
  /\ got' = [got EXCEPT ![t] = NoMessage]
  /\ stale' = [stale EXCEPT ![t] = NoMessage]
  /\ IF call[t].kind = "uprobe"
       THEN /\ Goto(t, "lock")
            /\ UNCHANGED call
       ELSE /\ Goto(t, "idle")
            /\ call' = [call EXCEPT ![t] = NoCall]
  /\ UNCHANGED <<na, prob, pending, queue_active, locked, failures, recycled>>

-----------------------------------------------------------------------------
(***************************************************************************)
(* The steps of a ULT inside a call: those that may block on the mutex,    *)
(* and the rest.  The cache and the queue link buffers by the same field,  *)
(* so once a queued buffer is given back neither list is what it was: no   *)
(* call goes on, and the model says nothing of what the code does next.    *)
(***************************************************************************)
ListsIntact == recycled = {}

Locking(t) ==
  /\ ListsIntact
  /\ (Lock(t) \/ Relock(t) \/ Deliver(t) \/ Enqueue(t))

Running(t) ==
  /\ ListsIntact
  /\ \/ SearchHit(t) \/ SearchMiss(t) \/ Decide(t) \/ Recheck(t) \/ Claim(t)
     \/ Post(t) \/ PostFails(t) \/ Test(t) \/ Reap(t) \/ ReapFails(t)
     \/ Notify(t) \/ Error(t) \/ Recycle(t) \/ GiveUp(t) \/ Peek(t)
     \/ Return(t)

Next ==
  \/ Arrive \/ Complete \/ CompleteFails
  \/ \E t \in Threads : Enter(t) \/ Locking(t) \/ Running(t)

Spec == Init /\ [][Next]_vars

(***************************************************************************)
(* The progress loop runs until the instance is finalized, so a posted     *)
(* receive completes once NA holds a message; a ULT inside a call is       *)
(* scheduled; pending_msg_mtx starves nobody (Argobots queues the ULTs     *)
(* that block on a mutex).  Nothing makes a caller call or a peer send.    *)
(***************************************************************************)
Fairness ==
  /\ WF_vars(Complete)
  /\ \A t \in Threads : WF_vars(Running(t)) /\ SF_vars(Locking(t))

FairSpec == Spec /\ Fairness

-----------------------------------------------------------------------------
(***************************************************************************)
(* Types.                                                                  *)
(***************************************************************************)
TypeOK ==
  /\ arrived \in Seq(Message)
  /\ Len(arrived) <= MaxMessages
  /\ taken \in 0..Len(arrived)
  /\ prob_active \in BOOLEAN
  /\ prob_req \in {"null", "pending", "done", "failed"}
  /\ prob_msg \in 0..MaxMessages
  /\ pending \in Seq(1..MaxMessages)
  /\ queue_active \in BOOLEAN
  /\ locked \in BOOLEAN
  /\ pc \in [Threads -> Location]
  /\ call \in [Threads -> Call \cup {NoCall}]
  /\ got \in [Threads -> 0..MaxMessages]
  /\ consumed \subseteq 1..MaxMessages
  /\ failures \in 0..MaxFailures
  /\ stale \in [Threads -> 0..MaxMessages]
  /\ recycled \subseteq 1..MaxMessages

(***************************************************************************)
(* t executes code that pending_msg_mtx protects.                          *)
(***************************************************************************)
InSection(t) == pc[t] \in {"search", "decide", "recheck", "claim"}

(***************************************************************************)
(* t is the ULT that took responsibility for listening and has not given   *)
(* it up: from the claim until it clears queue_active.                     *)
(***************************************************************************)
Listening(t) ==
  \/ pc[t] \in {"post", "test", "wait", "deliver", "enqueue"}
  \/ pc[t] = "notify" /\ ~ IsProbe(t) /\ got[t] = NoMessage

(***************************************************************************)
(* The mutex does its work: two ULTs never walk or change the queue at     *)
(* once (mona-unexpected.c:540 "lock the queue of pending messages").      *)
(***************************************************************************)
MutualExclusion ==
  \A t, u \in Threads : InSection(t) /\ InSection(u) => t = u

(***************************************************************************)
(* At most one ULT listens to NA, although most of listening happens       *)
(* outside the mutex: the receive, its request and its message are shared  *)
(* variables of the instance that nothing else protects.                   *)
(***************************************************************************)
OneListener ==
  \A t, u \in Threads : Listening(t) /\ Listening(u) => t = u

(***************************************************************************)
(* queue_active means what line 553 reads it for: somebody is listening.   *)
(* A ULT that goes to sleep on it relies on that.                          *)
(***************************************************************************)
ActiveMeansListener ==
  queue_active => \E t \in Threads : Listening(t)

(***************************************************************************)
(* The places a message that left NA can be in: the posted receive, the    *)
(* queue, the hands of one call, or returned to the application.           *)
(***************************************************************************)
Places(m) ==
  {<<"pending", i>> : i \in {j \in 1..Len(pending) : pending[j] = m}}
  \cup {<<"held", t>> : t \in {u \in Threads : got[u] = m /\ pc[u] # "peek"}}
  \cup {<<"posted", 0>> : x \in {prob_msg} \cap {m}}
  \cup {<<"consumed", 0>> : x \in consumed \cap {m}}

(***************************************************************************)
(* No message is lost, and none is received twice, whichever ULT finds it, *)
(* and also when a probe posts the receive and another call reaps it.      *)
(***************************************************************************)
ExactlyOnce ==
  \A m \in 1..taken :
    /\ Places(m) # {}
    /\ \A p, q \in Places(m) : p = q

(***************************************************************************)
(* The queue keeps the order of arrival, and everything in it is older     *)
(* than what the listener is about to append and than the posted receive;  *)
(* so the search from pending_msg_oldest returns the oldest match.         *)
(***************************************************************************)
ArrivalOrder ==
  /\ \A i, j \in 1..Len(pending) : i < j => pending[i] < pending[j]
  /\ \A i \in 1..Len(pending) :
       /\ prob_msg # NoMessage => pending[i] < prob_msg
       /\ \A t \in Threads : pc[t] = "enqueue" => pending[i] < got[t]

(***************************************************************************)
(* A ULT sleeps on pending_msg_cv only while somebody will broadcast it:   *)
(* a listener, or one that stopped listening and has yet to broadcast.     *)
(* After a failure queue_active may stay set, and nothing is promised.     *)
(***************************************************************************)
NoOrphanWaiter ==
  failures = 0 => \A t \in Threads : pc[t] = "waiting" =>
    \E u \in Threads : Listening(u) \/ pc[u] \in {"notify", "giveup"}

(***************************************************************************)
(* mona-unexpected.c:561 "here no matching message was found": a call that *)
(* starts to listen has nothing to find in the queue.                      *)
(***************************************************************************)
NothingMissed ==
  \A t \in Threads : pc[t] = "claim" =>
    \A i \in 1..Len(pending) : ~ Matches(call[t], pending[i])

(***************************************************************************)
(* mona-unexpected.c:461 "msg will be put back in the cache later": the    *)
(* buffer of a message goes back once its call is done with it, not while  *)
(* the message is in the queue or in the hands of a call.                  *)
(***************************************************************************)
RecycledAreDone ==
  \A m \in recycled :
    /\ ~ Contains(pending, m)
    /\ \A t \in Threads : got[t] # m

(***************************************************************************)
(* A call does not wait for ever beside a message it asks for: it returns, *)
(* or the message goes to another call.  A mona_recv that never returns    *)
(* would stall every collective built on it.  After a failure the          *)
(* functions promise nothing: queue_active may stay set.                   *)
(***************************************************************************)
Awaited(t) ==
  /\ call[t].kind \in {"urecv", "uprobe"}
  /\ \E m \in 1..Len(arrived) : m \notin consumed /\ Matches(call[t], m)

MatchedProgress ==
  \A t \in Threads : Awaited(t) ~> (~ Awaited(t) \/ failures > 0)

(***************************************************************************)
(* mona.h:763 "Same as mona_uprob but will not block": mona_uiprobe        *)
(* returns although no message ever arrives.                               *)
(***************************************************************************)
IprobeReturns ==
  \A t \in Threads :
    (call[t].kind = "uiprobe") ~> (pc[t] = "idle")

(***************************************************************************)
(* The mailbox the callers see: what call each ULT waits on, the message   *)
(* it will be given, and the messages given to a mona_urecv.               *)
(***************************************************************************)
Answer(t) ==
  IF pc[t] \in {"deliver", "notify", "return", "peek"} THEN got[t] ELSE NoMessage

Given == consumed \cup
         {Answer(t) : t \in {u \in Threads : Answer(u) # NoMessage /\ ~ IsProbe(u)}}

AnyMailbox ==
  INSTANCE Mailbox
    WITH Ordered <- FALSE, MayFail <- MaxFailures > 0,
         want <- call, answer <- [t \in Threads |-> Answer(t)], given <- Given

FifoMailbox ==
  INSTANCE Mailbox
    WITH Ordered <- TRUE, MayFail <- MaxFailures > 0,
         want <- call, answer <- [t \in Threads |-> Answer(t)], given <- Given

(***************************************************************************)
(* Whoever interleaves with whom, every call is given a message it asked   *)
(* for that was given to no other mona_urecv.                              *)
(***************************************************************************)
ImplementsMailbox == AnyMailbox!Spec

(***************************************************************************)
(* Every call is given the oldest message it asked for: messages do not    *)
(* overtake each other.                                                    *)
(***************************************************************************)
ImplementsFifoMailbox == FifoMailbox!Spec

=============================================================================

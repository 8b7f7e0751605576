------------------------------ MODULE Transfer ------------------------------
(***************************************************************************)
(* The transfer of one message between two processes: mona_usend and       *)
(* mona_urecv (mona-unexpected.c), mona_send and mona_recv                 *)
(* (mona-expected.c).  A small message carries its data.  For a large one  *)
(* the sender exposes its buffer, posts a receive for an acknowledgement,  *)
(* sends a handle and waits; the receiver reads the buffer by RDMA and     *)
(* acknowledges.  Nothing in an acknowledgement says which message it is   *)
(* for: the sender knows it by its source and its tag only.                *)
(*                                                                         *)
(* The unexpected messages of a process are those that UnexpectedRecv      *)
(* hands out; which of those that match a call gets depends there on who   *)
(* listens.  Expected messages and the receives posted for them are        *)
(* matched by NA on source and tag, the oldest with the oldest.            *)
(***************************************************************************)
EXTENDS Naturals, FiniteSets, SequencesExt

CONSTANTS
  Threads,      \* the ULTs that send and receive
  Nodes,        \* the processes
  Home,         \* the process of each ULT
  AnyNode,      \* MONA_ANY_ADDR
  Plans,        \* what the application may be doing, see below
  MayDrop       \* NA drops expected messages that no receive is posted for

(***************************************************************************)
(* A call sends to, or receives from, a peer on the unexpected or on the   *)
(* expected path.  Only a send knows whether its message is large.         *)
(***************************************************************************)
Sends    == [op : {"send"}, path : {"unexpected", "expected"}, peer : Nodes,
             tag : Nat, large : BOOLEAN]
Receives == [op : {"recv"}, path : {"unexpected"}, peer : Nodes \cup {AnyNode},
             tag : Nat]
            \cup [op : {"recv"}, path : {"expected"}, peer : Nodes, tag : Nat]

(***************************************************************************)
(* A plan bounds what the application does and what goes wrong: the calls  *)
(* each ULT may make, how many it makes, how many NA operations fail, and  *)
(* whether the receives are those the sends need.                          *)
(***************************************************************************)
PlanType == [may : [Threads -> SUBSET (Sends \cup Receives)], calls : Nat,
             failures : Nat, matched : BOOLEAN]

ASSUME TransferAssumption ==
  /\ Home \in [Threads -> Nodes]
  /\ AnyNode \notin Nodes
  /\ Plans \subseteq PlanType
  /\ MayDrop \in BOOLEAN

VARIABLES
  plan,        \* the plan of this execution
  pc,          \* where each ULT is
  call,        \* the call it makes, or the last it made
  calls,       \* how many it has made
  hand,        \* what NA has handed to it during this call
  unexpected,  \* each process's unexpected messages
  expected,    \* expected messages NA has accepted and not matched
  posted,      \* receives posted for expected messages and not matched
  fetched,     \* large messages whose data has been read
  completed,   \* large messages whose send has returned NA_SUCCESS
  failed,      \* calls that have returned an error
  lost         \* expected messages that NA has dropped

ults == <<pc, call, calls>>
net  == <<unexpected, expected, posted>>
past == <<fetched, completed>>
trouble == <<failed, lost>>
state == <<ults, hand, net, past, trouble>>
vars == <<plan, state>>

NoCall == [op |-> "none"]
Nothing == [body |-> "none"]

(***************************************************************************)
(* As in UnexpectedRecv, a name that ends in _ is a plausible mistake in   *)
(* the definition it is named after.  Here, an acknowledgement one tag too *)
(* low.                                                                    *)
(***************************************************************************)
AckTag_(c) == IF c.path = "expected" THEN 2 * c.tag - 1 ELSE c.tag

(***************************************************************************)
(* The tags a call uses on the wire.  mona_send doubles the tag to leave   *)
(* room for the acknowledgement's; mona_usend uses the same for both.      *)
(***************************************************************************)
DataTag(c) == IF c.path = "expected" THEN 2 * c.tag ELSE c.tag
AckTag(c)  == IF c.path = "expected" THEN 2 * c.tag + 1 ELSE c.tag

IsLarge(c) == c.op = "send" /\ c.large

(***************************************************************************)
(* The receive a call posts: for its acknowledgement, or for the message.  *)
(***************************************************************************)
Posts(c)   == IsLarge(c) \/ (c.op = "recv" /\ c.path = "expected")
PostTag(c) == IF IsLarge(c) THEN AckTag(c) ELSE DataTag(c)

(***************************************************************************)
(* The message t is sending: the id stands for the data in its buffer.     *)
(***************************************************************************)
Id(t) == <<t, calls[t]>>

Packet(src, dst, tag, body, id) ==
  [src |-> src, dst |-> dst, tag |-> tag, body |-> body, id |-> id]

DataPacket(t) ==
  Packet(Home[t], call[t].peer, DataTag(call[t]),
         IF IsLarge(call[t]) THEN "large" ELSE "small", Id(t))

(***************************************************************************)
(* A receive posted by t's current call.                                   *)
(***************************************************************************)
Receive(t, tag) ==
  [node |-> Home[t], src |-> call[t].peer, tag |-> tag, owner |-> Id(t)]

Fits(p, m) == p.node = m.dst /\ p.src = m.src /\ p.tag = m.tag

(***************************************************************************)
(* The call that posted p is over.                                         *)
(***************************************************************************)
Stale(p) ==
  LET t == p.owner[1] IN pc[t] = "idle" \/ calls[t] # p.owner[2]

Goto(t, l) == pc' = [pc EXCEPT ![t] = l]

Fail(t) ==
  /\ Cardinality(failed) < plan.failures
  /\ failed' = failed \cup {Id(t)}

Init ==
  /\ plan \in Plans
  /\ pc = [t \in Threads |-> "idle"]
  /\ call = [t \in Threads |-> NoCall]
  /\ calls = [t \in Threads |-> 0]
  /\ hand = [t \in Threads |-> Nothing]
  /\ unexpected = [n \in Nodes |-> << >>]
  /\ expected = << >>
  /\ posted = << >>
  /\ fetched = {}
  /\ completed = {}
  /\ failed = {}
  /\ lost = {}

-----------------------------------------------------------------------------
(***************************************************************************)
(* A call starts.  mona_isend and the like make a ULT for it.              *)
(***************************************************************************)
Enter(t) ==
  /\ pc[t] = "idle"
  /\ calls[t] < plan.calls
  /\ \E c \in plan.may[t] :
       /\ call' = [call EXCEPT ![t] = c]
       /\ Goto(t, IF Posts(c) THEN "post"
                  ELSE IF c.op = "send" THEN "send" ELSE "take")
  /\ calls' = [calls EXCEPT ![t] = @ + 1]
  /\ hand' = [hand EXCEPT ![t] = Nothing]
  /\ UNCHANGED <<net, past, trouble>>

(***************************************************************************)
(* The receive is not posted and nobody notices.                           *)
(***************************************************************************)
Post_(t) ==
  /\ pc[t] = "post"
  /\ Goto(t, IF IsLarge(call[t]) THEN "send" ELSE "wait")
  /\ UNCHANGED <<call, calls, hand, net, past, trouble>>

(***************************************************************************)
(* One tag for the acknowledgements of all messages.                       *)
(***************************************************************************)
PostFixed_(t) ==
  /\ pc[t] = "post"
  /\ posted' = Append(posted, Receive(t, IF IsLarge(call[t]) THEN 1
                                        ELSE DataTag(call[t])))
  /\ Goto(t, IF IsLarge(call[t]) THEN "send" ELSE "wait")
  /\ UNCHANGED <<call, calls, hand, unexpected, expected, past, trouble>>

(***************************************************************************)
(* A sender posts the receive for its acknowledgement, a receiver the one  *)
(* for the message.                                                        *)
(***************************************************************************)
Post(t) ==
  /\ pc[t] = "post"
  /\ posted' = Append(posted, Receive(t, PostTag(call[t])))
  /\ Goto(t, IF IsLarge(call[t]) THEN "send" ELSE "wait")
  /\ UNCHANGED <<call, calls, hand, unexpected, expected, past, trouble>>

(***************************************************************************)
(* The message leaves; a large one is waited for.                          *)
(***************************************************************************)
Send(t) ==
  /\ pc[t] = "send"
  /\ IF call[t].path = "unexpected"
       THEN /\ unexpected' = [unexpected EXCEPT ![call[t].peer] =
                                Append(@, DataPacket(t))]
            /\ UNCHANGED expected
       ELSE /\ expected' = Append(expected, DataPacket(t))
            /\ UNCHANGED unexpected
  /\ Goto(t, IF IsLarge(call[t]) THEN "ackwait" ELSE "idle")
  /\ UNCHANGED <<call, calls, hand, posted, past, trouble>>

(***************************************************************************)
(* The call returns without waiting for the acknowledgement.               *)
(***************************************************************************)
AckArrived_(t) ==
  /\ pc[t] = "ackwait"
  /\ completed' = completed \cup {Id(t)}
  /\ Goto(t, "idle")
  /\ UNCHANGED <<call, calls, hand, net, fetched, trouble>>

(***************************************************************************)
(* mona_wait on the acknowledgement returned: the buffer is the caller's.  *)
(***************************************************************************)
AckArrived(t) ==
  /\ pc[t] = "ackwait"
  /\ hand[t] # Nothing
  /\ completed' = completed \cup {Id(t)}
  /\ Goto(t, "idle")
  /\ UNCHANGED <<call, calls, hand, net, fetched, trouble>>

-----------------------------------------------------------------------------
(***************************************************************************)
(* mona_urecv is given an unexpected message that matches: not always the  *)
(* oldest, as it may listen without looking at those in the queue.         *)
(***************************************************************************)
Wanted(t, m) ==
  /\ call[t].tag = m.tag
  /\ call[t].peer \in {AnyNode, m.src}

Take(t) ==
  /\ pc[t] = "take"
  /\ \E i \in 1..Len(unexpected[Home[t]]) :
       LET m == unexpected[Home[t]][i] IN
       /\ Wanted(t, m)
       /\ unexpected' = [unexpected EXCEPT ![Home[t]] = RemoveAt(@, i)]
       /\ hand' = [hand EXCEPT ![t] = m]
       /\ Goto(t, IF m.body = "large" THEN "get" ELSE "idle")
  /\ UNCHANGED <<call, calls, expected, posted, past, trouble>>

(***************************************************************************)
(* The message is acknowledged before its data is read.                    *)
(***************************************************************************)
Received_(t) ==
  /\ pc[t] = "wait"
  /\ hand[t] # Nothing
  /\ Goto(t, IF hand[t].body = "large" THEN "ack" ELSE "idle")
  /\ UNCHANGED <<call, calls, hand, net, past, trouble>>

(***************************************************************************)
(* mona_recv has its message.  A type byte other than HL_MSG_LARGE is that *)
(* of a small message; an acknowledgement's is 0, HL_MSG_SMALL.            *)
(***************************************************************************)
Received(t) ==
  /\ pc[t] = "wait"
  /\ hand[t] # Nothing
  /\ Goto(t, IF hand[t].body = "large" THEN "get" ELSE "idle")
  /\ UNCHANGED <<call, calls, hand, net, past, trouble>>

(***************************************************************************)
(* The RDMA read is over; it has been reading the sender's buffer ever     *)
(* since t came to "get".                                                  *)
(***************************************************************************)
Get(t) ==
  /\ pc[t] = "get"
  /\ fetched' = fetched \cup {hand[t].id}
  /\ Goto(t, "ack")
  /\ UNCHANGED <<call, calls, hand, net, completed, trouble>>

(***************************************************************************)
(* The acknowledgement carries the tag of the message.                     *)
(***************************************************************************)
SendAck_(t) ==
  /\ pc[t] = "ack"
  /\ expected' = Append(expected,
       Packet(Home[t], hand[t].src, DataTag(call[t]), "ack", hand[t].id))
  /\ Goto(t, "idle")
  /\ UNCHANGED <<call, calls, hand, unexpected, posted, past, trouble>>

(***************************************************************************)
(* The acknowledgement goes to the source of the message.                  *)
(***************************************************************************)
SendAck(t) ==
  /\ pc[t] = "ack"
  /\ expected' = Append(expected,
       Packet(Home[t], hand[t].src, AckTag(call[t]), "ack", hand[t].id))
  /\ Goto(t, "idle")
  /\ UNCHANGED <<call, calls, hand, unexpected, posted, past, trouble>>

-----------------------------------------------------------------------------
(***************************************************************************)
(* An NA operation fails and the call returns its error, a mona_urecv that *)
(* has no message yet NA_PROTOCOL_ERROR.  When the send of a large message *)
(* fails, the receive for its acknowledgement is cancelled but the call    *)
(* does not wait for the cancellation.                                     *)
(***************************************************************************)
CallFails(t) ==
  /\ pc[t] \in {"post", "send", "take", "get", "ack"}
  /\ Fail(t)
  /\ Goto(t, "idle")
  /\ UNCHANGED <<call, calls, hand, net, past, lost>>

(***************************************************************************)
(* NA gives up a posted receive, and the call that waits for it returns    *)
(* the error.                                                              *)
(***************************************************************************)
ReceiveFails(t) ==
  /\ pc[t] \in {"wait", "ackwait"}
  /\ Fail(t)
  /\ \E j \in 1..Len(posted) :
       /\ posted[j].owner = Id(t)
       /\ posted' = RemoveAt(posted, j)
  /\ Goto(t, "idle")
  /\ UNCHANGED <<call, calls, hand, unexpected, expected, past, lost>>

-----------------------------------------------------------------------------
(***************************************************************************)
(* NA.  The oldest expected message of its source and tag meets the oldest *)
(* receive posted for them.  The callback sets the eventual of the call    *)
(* that posted it, which nobody looks at once that call is over.           *)
(***************************************************************************)
OldestFor(i, j) ==
  /\ Fits(posted[j], expected[i])
  /\ \A k \in 1..(i - 1) : ~ Fits(posted[j], expected[k])
  /\ \A k \in 1..(j - 1) : ~ Fits(posted[k], expected[i])

Match ==
  \E i \in 1..Len(expected), j \in 1..Len(posted) :
    /\ OldestFor(i, j)
    /\ expected' = RemoveAt(expected, i)
    /\ posted' = RemoveAt(posted, j)
    /\ hand' = IF Stale(posted[j]) THEN hand
               ELSE [hand EXCEPT ![posted[j].owner[1]] = expected[i]]
    /\ UNCHANGED <<ults, unexpected, past, trouble>>

(***************************************************************************)
(* A destination may drop an expected message it has no receive for        *)
(* (mona.h:1049-1051).                                                     *)
(***************************************************************************)
Unposted(m) == \A j \in 1..Len(posted) : ~ Fits(posted[j], m)

Drop ==
  /\ MayDrop
  /\ \E i \in 1..Len(expected) :
       /\ Unposted(expected[i])
       /\ expected' = RemoveAt(expected, i)
       /\ lost' = lost \cup {expected[i]}
  /\ UNCHANGED <<ults, hand, unexpected, posted, past, failed>>

(***************************************************************************)
(* NA completes the cancellation of a receive.                             *)
(***************************************************************************)
Cancelled ==
  /\ \E j \in 1..Len(posted) :
       /\ Stale(posted[j])
       /\ posted' = RemoveAt(posted, j)
  /\ UNCHANGED <<ults, hand, unexpected, expected, past, trouble>>

-----------------------------------------------------------------------------
Step(t) ==
  \/ Post(t) \/ Send(t) \/ AckArrived(t)
  \/ Take(t) \/ Received(t) \/ Get(t) \/ SendAck(t)

Next ==
  /\ \/ Match \/ Drop \/ Cancelled
     \/ \E t \in Threads : Enter(t) \/ Step(t) \/ CallFails(t) \/ ReceiveFails(t)
  /\ UNCHANGED plan

Spec == Init /\ [][Next]_vars

(***************************************************************************)
(* ULTs are scheduled and the progress loop lets NA match what can be      *)
(* matched.  No call has a loop, so scheduling some ULT again and again    *)
(* schedules each.  The calls are the application's: AppCalls says that it *)
(* makes all those it planned.                                             *)
(***************************************************************************)
Fairness ==
  /\ WF_state(Match)
  /\ WF_state(\E t \in Threads : Step(t))

AppCalls == WF_state(\E t \in Threads : Enter(t))

FairSpec == Spec /\ Fairness /\ AppCalls

-----------------------------------------------------------------------------
(***************************************************************************)
(* Types.                                                                  *)
(***************************************************************************)
Ids     == Threads \X (1..plan.calls)
Packets == [src : Nodes, dst : Nodes, tag : Nat,
            body : {"small", "large", "ack"}, id : Ids]

TypeOK ==
  /\ plan \in Plans
  /\ pc \in [Threads -> {"idle", "post", "send", "ackwait", "take", "wait",
                         "get", "ack"}]
  /\ call \in [Threads -> Sends \cup Receives \cup {NoCall}]
  /\ calls \in [Threads -> 0..plan.calls]
  /\ hand \in [Threads -> Packets \cup {Nothing}]
  /\ unexpected \in [Nodes -> Seq(Packets)]
  /\ expected \in Seq(Packets)
  /\ posted \in Seq([node : Nodes, src : Nodes, tag : Nat, owner : Ids])
  /\ fetched \subseteq Ids
  /\ completed \subseteq Ids
  /\ failed \subseteq Ids
  /\ lost \subseteq Packets

(***************************************************************************)
(* What follows is promised to a ULT as long as none of its calls fails: a *)
(* failed call leaves its message, or the receive for its acknowledgement, *)
(* behind, and a later call of the same ULT may meet them.                 *)
(***************************************************************************)
Sound(t) == \A id \in failed : id[1] # t

(***************************************************************************)
(* And as long as the tags of the plan tell apart the messages a process   *)
(* waits for: the receive for an acknowledgement has a source and tag that *)
(* no receive of another ULT has and that no expected message is sent to.  *)
(***************************************************************************)
Distinct(p) ==
  \A t, u \in Threads : \A c \in p.may[t], d \in p.may[u] :
    IsLarge(c) =>
      /\ t # u /\ Home[t] = Home[u] /\ Posts(d) /\ d.peer = c.peer =>
           PostTag(d) # AckTag(c)
      /\ d.op = "send" /\ d.path = "expected" /\ c.peer = Home[u] /\ d.peer = Home[t] =>
           DataTag(d) # AckTag(c)

(***************************************************************************)
(* The large messages whose buffer a receiver may still read: on their way *)
(* or in the hands of a receiver that has not finished reading.            *)
(***************************************************************************)
Advertised ==
  {m \in (UNION {ToSet(unexpected[n]) : n \in Nodes})
         \cup ToSet(expected)
         \cup {hand[t] : t \in {u \in Threads : pc[u] \in {"wait", "get"}}} :
     m.body = "large"}

(***************************************************************************)
(* The call that sends the message still waits, its buffer registered.     *)
(***************************************************************************)
Exposed(id) == pc[id[1]] = "ackwait" /\ calls[id[1]] = id[2]

(***************************************************************************)
(* A buffer that a peer may read is never deregistered or handed back to   *)
(* the application (mona_mem_deregister comes after mona_usend_mem).       *)
(***************************************************************************)
SourceStable == \A m \in Advertised : Sound(m.id[1]) => Exposed(m.id)

(***************************************************************************)
(* mona_send and mona_usend of a large message return NA_SUCCESS only when *)
(* the peer has read the data: "Wait for acknowledgement" means what it    *)
(* says.                                                                   *)
(***************************************************************************)
ReadBeforeReturn == \A id \in completed : Sound(id[1]) => id \in fetched

(***************************************************************************)
(* A sender that waits for an acknowledgement is woken by the one for its  *)
(* message, by no other message that happens to use the same tag.          *)
(***************************************************************************)
OwnAck ==
  \A t \in Threads :
    Sound(t) /\ pc[t] \in {"send", "ackwait"} /\ hand[t] # Nothing =>
      hand[t].body = "ack" /\ hand[t].id = Id(t)

(***************************************************************************)
(* Acknowledgements are never dropped: the sender posts the receive before *)
(* it sends, so NA has a receive for each.  This is what the remark on     *)
(* expected messages asks of a sender (mona.h:1049-1051).                  *)
(***************************************************************************)
AcksReceivable ==
  \A m \in ToSet(expected) :
    m.body = "ack" /\ Sound(m.id[1]) =>
      Cardinality({k \in 1..Len(expected) :
                     /\ expected[k].src = m.src
                     /\ expected[k].dst = m.dst
                     /\ expected[k].tag = m.tag})
        <= Cardinality({j \in 1..Len(posted) : Fits(posted[j], m)})

(***************************************************************************)
(* NA holds no receive of a call that has returned NA_SUCCESS: its         *)
(* operation id is back in the cache and its buffer may be too.            *)
(***************************************************************************)
NoStaleReceive == \A p \in ToSet(posted) : Stale(p) => p.owner \in failed

(***************************************************************************)
(* When the application makes matching calls, of mona_urecv one at a time  *)
(* in a process, all of them return, except on the expected path those     *)
(* whose message NA has dropped.  What NA may drop never stops the         *)
(* unexpected path, although it uses expected acknowledgements.            *)
(***************************************************************************)
Bereft(t) ==
  /\ pc[t] # "idle"
  /\ call[t].path = "expected"
  /\ \E m \in lost : m.tag = DataTag(call[t])

EveryCallReturns ==
  plan.matched ~>
    \A t \in Threads : (pc[t] = "idle" /\ calls[t] = plan.calls) \/ Bereft(t)

=============================================================================

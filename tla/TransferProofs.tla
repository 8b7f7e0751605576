--------------------------- MODULE TransferProofs ---------------------------
(***************************************************************************)
(* Theorems about Transfer, for every set of ULTs and processes and every  *)
(* plan.                                                                   *)
(***************************************************************************)
EXTENDS Transfer, SequenceLemmas, FiniteSetTheorems

(***************************************************************************)
(* Where a ULT is says what it calls and what it holds.                    *)
(***************************************************************************)
CallOK(t) ==
  /\ pc[t] # "idle" => calls[t] >= 1 /\ call[t] \in plan.may[t]
  /\ pc[t] \in {"send", "ackwait"} => call[t] \in Sends
  /\ pc[t] = "ackwait" => IsLarge(call[t])
  /\ pc[t] = "post" => Posts(call[t])
  /\ pc[t] \in {"take", "wait", "get", "ack"} => call[t] \in Receives
  /\ pc[t] = "take" => call[t].path = "unexpected"
  /\ pc[t] = "wait" => call[t].path = "expected"
  /\ pc[t] \in {"get", "ack"} => hand[t] \in Packets

TypeInv == TypeOK /\ \A t \in Threads : CallOK(t)

-----------------------------------------------------------------------------
LEMMA PlanTyped ==
  ASSUME plan \in Plans
  PROVE  /\ plan.may \in [Threads -> SUBSET (Sends \cup Receives)]
         /\ plan.calls \in Nat
BY TransferAssumption DEF PlanType

LEMMA TagsTyped ==
  ASSUME NEW c \in Sends \cup Receives
  PROVE  DataTag(c) \in Nat /\ AckTag(c) \in Nat /\ PostTag(c) \in Nat
BY DEF Sends, Receives, DataTag, AckTag, PostTag

LEMMA PostsTyped ==
  ASSUME NEW c \in Sends \cup Receives
  PROVE  /\ c \in Sends <=> c.op = "send"
         /\ c \in Receives <=> c.op = "recv"
         /\ c \in Sends \/ Posts(c) => c.peer \in Nodes
         /\ c.path \in {"unexpected", "expected"}
         /\ c.peer \in Nodes \cup {AnyNode}
         /\ c.tag \in Nat
         /\ IsLarge(c) => c \in Sends
BY DEF Sends, Receives, Posts, IsLarge

(***************************************************************************)
(* The identity of a call, and what it sends and posts.                    *)
(***************************************************************************)
LEMMA IdTyped ==
  ASSUME TypeInv, NEW t \in Threads, pc[t] # "idle"
  PROVE  Id(t) \in Ids /\ call[t] \in plan.may[t] /\ call[t] \in Sends \cup Receives
<1>1. calls[t] \in 1..plan.calls /\ call[t] \in plan.may[t]
  <2>1. calls[t] \in 0..plan.calls /\ calls[t] >= 1 /\ call[t] \in plan.may[t]
    BY DEF TypeInv, TypeOK, CallOK
  <2>2. plan.calls \in Nat
    BY PlanTyped DEF TypeInv, TypeOK
  <2> QED
    BY <2>1, <2>2
<1>2. call[t] \in Sends \cup Receives
  BY <1>1, PlanTyped DEF TypeInv, TypeOK
<1>3. QED
  BY <1>1, <1>2 DEF Id, Ids

LEMMA HomeTyped ==
  ASSUME NEW t \in Threads
  PROVE  Home[t] \in Nodes
BY TransferAssumption

LEMMA DataTyped ==
  ASSUME TypeInv, NEW t \in Threads, pc[t] = "send"
  PROVE  DataPacket(t) \in Packets /\ call[t].peer \in Nodes
<1>1. Id(t) \in Ids /\ call[t] \in Sends
  BY IdTyped DEF TypeInv, CallOK
<1>2. DataTag(call[t]) \in Nat /\ call[t].peer \in Nodes
  BY <1>1, TagsTyped, PostsTyped
<1>3. QED
  BY <1>1, <1>2, HomeTyped DEF DataPacket, Packet, Packets

LEMMA ReceiveTyped ==
  ASSUME TypeInv, NEW t \in Threads, pc[t] = "post"
  PROVE  Receive(t, PostTag(call[t])) \in [node : Nodes, src : Nodes, tag : Nat, owner : Ids]
<1>1. Id(t) \in Ids /\ call[t] \in Sends \cup Receives /\ Posts(call[t])
  BY IdTyped DEF TypeInv, CallOK
<1>2. PostTag(call[t]) \in Nat /\ call[t].peer \in Nodes
  BY <1>1, TagsTyped, PostsTyped
<1>3. QED
  BY <1>1, <1>2, HomeTyped DEF Receive

LEMMA AckTyped ==
  ASSUME TypeInv, NEW t \in Threads, pc[t] = "ack"
  PROVE  Packet(Home[t], hand[t].src, AckTag(call[t]), "ack", hand[t].id) \in Packets
<1>1. call[t] \in Receives /\ hand[t] \in Packets
  BY DEF TypeInv, CallOK
<1>2. AckTag(call[t]) \in Nat
  BY <1>1, TagsTyped
<1>3. QED
  BY <1>1, <1>2, HomeTyped DEF Packet, Packets

-----------------------------------------------------------------------------
LEMMA TypeInvInit == Init => TypeInv
<1> SUFFICES ASSUME Init PROVE TypeInv
  OBVIOUS
<1>1. plan.calls \in Nat
  BY PlanTyped DEF Init
<1>2. TypeOK
  BY <1>1 DEF Init, TypeOK
<1>3. QED
  BY <1>2 DEF Init, TypeInv, CallOK

(***************************************************************************)
(* Sets that depend on the plan only.                                      *)
(***************************************************************************)
LEMMA SamePlan ==
  ASSUME UNCHANGED plan
  PROVE  Ids' = Ids /\ Packets' = Packets
BY DEF Ids, Packets

LEMMA EnterTypes ==
  ASSUME TypeInv, UNCHANGED plan, NEW t \in Threads, Enter(t)
  PROVE  TypeInv'
<1>1. PICK c \in plan.may[t] :
        /\ call' = [call EXCEPT ![t] = c]
        /\ pc' = [pc EXCEPT ![t] = IF Posts(c) THEN "post"
                                   ELSE IF c.op = "send" THEN "send" ELSE "take"]
  BY DEF Enter, Goto
<1>2. c \in Sends \cup Receives /\ plan.calls \in Nat
  BY PlanTyped DEF TypeInv, TypeOK
<1>3. /\ calls[t] \in 0..plan.calls /\ calls[t] < plan.calls
      /\ calls' = [calls EXCEPT ![t] = @ + 1]
      /\ hand' = [hand EXCEPT ![t] = Nothing]
      /\ UNCHANGED <<unexpected, expected, posted, fetched, completed, failed, lost>>
  BY DEF Enter, net, past, trouble, TypeInv, TypeOK
<1>4. calls[t] + 1 \in 1..plan.calls
  BY <1>2, <1>3
<1>5. TypeOK'
  BY <1>1, <1>2, <1>3, <1>4, SamePlan DEF TypeInv, TypeOK
<1>6. ASSUME NEW u \in Threads
      PROVE  CallOK(u)'
  <2>1. CASE u # t
    BY <1>1, <1>3, <1>6, <2>1, SamePlan DEF TypeInv, TypeOK, CallOK
  <2>2. CASE u = t
    <3>1. /\ pc'[t] = IF Posts(c) THEN "post"
                      ELSE IF c.op = "send" THEN "send" ELSE "take"
          /\ call'[t] = c /\ calls'[t] >= 1
      BY <1>1, <1>3, <1>4 DEF TypeInv, TypeOK
    <3>2. c.op = "recv" /\ ~ Posts(c) => c.path = "unexpected"
      BY <1>2, PostsTyped DEF Posts
    <3> QED
      BY <1>2, <2>2, <3>1, <3>2, PostsTyped DEF CallOK
  <2> QED
    BY <2>1, <2>2
<1>7. QED
  BY <1>5, <1>6 DEF TypeInv

(***************************************************************************)
(* A step of a ULT that goes from one place of a call to another, when the *)
(* new place asks for no more than the old one.                            *)
(***************************************************************************)
LEMMA MoveTypes ==
  ASSUME TypeInv, UNCHANGED <<plan, call, calls>>, NEW t \in Threads, NEW l,
         pc' = [pc EXCEPT ![t] = l],
         l \in {"idle", "send", "ackwait", "wait", "get", "ack"},
         pc[t] # "idle" \/ l = "idle",
         l \in {"send", "ackwait"} => call[t] \in Sends,
         l = "ackwait" => IsLarge(call[t]),
         l \in {"wait", "get", "ack"} => call[t] \in Receives,
         l = "wait" => call[t].path = "expected",
         l \in {"get", "ack"} => hand'[t] \in Packets,
         \A u \in Threads \ {t} : hand'[u] = hand[u]
  PROVE  /\ pc' \in [Threads -> {"idle", "post", "send", "ackwait", "take", "wait",
                                 "get", "ack"}]
         /\ \A u \in Threads : CallOK(u)'
<1>1. pc' \in [Threads -> {"idle", "post", "send", "ackwait", "take", "wait", "get", "ack"}]
  BY DEF TypeInv, TypeOK
<1>2. ASSUME NEW u \in Threads
      PROVE  CallOK(u)'
  <2>1. CASE u # t
    BY <1>2, <2>1, SamePlan DEF TypeInv, TypeOK, CallOK
  <2>2. CASE u = t
    <3>1. pc'[t] = l
      BY DEF TypeInv, TypeOK
    <3>2. l # "idle" => calls[t] >= 1 /\ call[t] \in plan.may[t]
      BY DEF TypeInv, CallOK
    <3> QED
      BY <2>2, <3>1, <3>2, SamePlan DEF CallOK
  <2> QED
    BY <2>1, <2>2
<1>3. QED
  BY <1>1, <1>2

LEMMA StepTypes ==
  ASSUME TypeInv, UNCHANGED plan, NEW t \in Threads, Step(t)
  PROVE  TypeInv'
<1>1. CASE Post(t)
  <2> DEFINE r == Receive(t, PostTag(call[t]))
  <2>1. /\ pc[t] = "post"
        /\ posted' = Append(posted, r)
        /\ pc' = [pc EXCEPT ![t] = IF IsLarge(call[t]) THEN "send" ELSE "wait"]
        /\ UNCHANGED <<call, calls, hand, unexpected, expected, fetched, completed,
                       failed, lost>>
    BY <1>1 DEF Post, Goto, past, trouble
  <2>2. r \in [node : Nodes, src : Nodes, tag : Nat, owner : Ids]
    BY <2>1, ReceiveTyped
  <2>3. posted' \in Seq([node : Nodes, src : Nodes, tag : Nat, owner : Ids])
    BY <2>1, <2>2, AppendProperties DEF TypeInv, TypeOK
  <2>4. call[t] \in Sends \cup Receives /\ Posts(call[t])
    BY <2>1, IdTyped DEF TypeInv, CallOK
  <2>5. /\ IsLarge(call[t]) => call[t] \in Sends
        /\ ~ IsLarge(call[t]) => call[t] \in Receives /\ call[t].path = "expected"
    BY <2>4, PostsTyped DEF Posts
  <2>6. /\ pc' \in [Threads -> {"idle", "post", "send", "ackwait", "take", "wait",
                                "get", "ack"}]
        /\ \A u \in Threads : CallOK(u)'
    BY <2>1, <2>5, MoveTypes
  <2> QED
    BY <2>1, <2>3, <2>6, SamePlan DEF TypeInv, TypeOK
<1>2. CASE Send(t)
  <2>1. /\ pc[t] = "send"
        /\ pc' = [pc EXCEPT ![t] = IF IsLarge(call[t]) THEN "ackwait" ELSE "idle"]
        /\ UNCHANGED <<call, calls, hand, posted, fetched, completed, failed, lost>>
    BY <1>2 DEF Send, Goto, past, trouble
  <2>2. DataPacket(t) \in Packets /\ call[t].peer \in Nodes /\ call[t] \in Sends
    BY <2>1, DataTyped DEF TypeInv, CallOK
  <2>3. /\ \/ /\ unexpected' = [unexpected EXCEPT ![call[t].peer] = Append(@, DataPacket(t))]
              /\ expected' = expected
           \/ /\ expected' = Append(expected, DataPacket(t))
              /\ unexpected' = unexpected
    BY <1>2 DEF Send
  <2>4. unexpected' \in [Nodes -> Seq(Packets)] /\ expected' \in Seq(Packets)
    <3>1. unexpected[call[t].peer] \in Seq(Packets) /\ expected \in Seq(Packets)
      BY <2>2 DEF TypeInv, TypeOK
    <3>2. /\ Append(unexpected[call[t].peer], DataPacket(t)) \in Seq(Packets)
          /\ Append(expected, DataPacket(t)) \in Seq(Packets)
      BY <2>2, <3>1, AppendProperties
    <3> QED
      BY <2>3, <3>2 DEF TypeInv, TypeOK
  <2>5. /\ pc' \in [Threads -> {"idle", "post", "send", "ackwait", "take", "wait",
                                "get", "ack"}]
        /\ \A u \in Threads : CallOK(u)'
    BY <2>1, <2>2, MoveTypes
  <2> QED
    BY <2>1, <2>4, <2>5, SamePlan DEF TypeInv, TypeOK
<1>3. CASE AckArrived(t)
  <2>1. /\ pc[t] = "ackwait"
        /\ completed' = completed \cup {Id(t)}
        /\ pc' = [pc EXCEPT ![t] = "idle"]
        /\ UNCHANGED <<call, calls, hand, unexpected, expected, posted, fetched,
                       failed, lost>>
    BY <1>3 DEF AckArrived, Goto, net, trouble
  <2>2. Id(t) \in Ids
    BY <2>1, IdTyped
  <2>3. /\ pc' \in [Threads -> {"idle", "post", "send", "ackwait", "take", "wait",
                                "get", "ack"}]
        /\ \A u \in Threads : CallOK(u)'
    BY <2>1, MoveTypes
  <2> QED
    BY <2>1, <2>2, <2>3, SamePlan DEF TypeInv, TypeOK
<1>4. CASE Take(t)
  <2> DEFINE box == unexpected[Home[t]]
  <2>1. PICK i \in 1..Len(box) :
          /\ unexpected' = [unexpected EXCEPT ![Home[t]] = RemoveAt(@, i)]
          /\ hand' = [hand EXCEPT ![t] = box[i]]
          /\ pc' = [pc EXCEPT ![t] = IF box[i].body = "large" THEN "get" ELSE "idle"]
    BY <1>4 DEF Take, Goto
  <2>2. /\ pc[t] = "take"
        /\ UNCHANGED <<call, calls, expected, posted, fetched, completed, failed, lost>>
    BY <1>4 DEF Take, past, trouble
  <2>3. box \in Seq(Packets)
    BY HomeTyped DEF TypeInv, TypeOK
  <2>4. RemoveAt(box, i) \in Seq(Packets) /\ box[i] \in Packets
    BY <2>3, RemoveAtProperties, ElementOfSeq
  <2>5. unexpected' \in [Nodes -> Seq(Packets)] /\ hand' \in [Threads -> Packets \cup {Nothing}]
    BY <2>1, <2>4, HomeTyped DEF TypeInv, TypeOK
  <2>6. hand'[t] \in Packets /\ \A u \in Threads \ {t} : hand'[u] = hand[u]
    BY <2>1, <2>4 DEF TypeInv, TypeOK
  <2>7. call[t] \in Receives
    BY <2>2 DEF TypeInv, CallOK
  <2>8. /\ pc' \in [Threads -> {"idle", "post", "send", "ackwait", "take", "wait",
                                "get", "ack"}]
        /\ \A u \in Threads : CallOK(u)'
    <3>1. PICK l \in {"idle", "get"} : pc' = [pc EXCEPT ![t] = l]
      BY <2>1
    <3>2. call' = call /\ calls' = calls /\ pc[t] # "idle"
      BY <2>2
    <3> QED
      BY <2>6, <2>7, <3>1, <3>2, MoveTypes
  <2> QED
    BY <2>2, <2>5, <2>8, SamePlan DEF TypeInv, TypeOK
<1>5. CASE Received(t)
  <2>1. /\ pc[t] = "wait" /\ hand[t] # Nothing
        /\ pc' = [pc EXCEPT ![t] = IF hand[t].body = "large" THEN "get" ELSE "idle"]
        /\ UNCHANGED <<call, calls, hand, unexpected, expected, posted, fetched,
                       completed, failed, lost>>
    BY <1>5 DEF Received, Goto, net, past, trouble
  <2>2. hand[t] \in Packets /\ call[t] \in Receives
    BY <2>1 DEF TypeInv, TypeOK, CallOK
  <2>3. /\ pc' \in [Threads -> {"idle", "post", "send", "ackwait", "take", "wait",
                                "get", "ack"}]
        /\ \A u \in Threads : CallOK(u)'
    <3>1. PICK l \in {"idle", "get"} : pc' = [pc EXCEPT ![t] = l]
      BY <2>1
    <3>2. hand'[t] \in Packets /\ \A u \in Threads \ {t} : hand'[u] = hand[u]
      BY <2>1, <2>2
    <3>3. call' = call /\ calls' = calls /\ pc[t] # "idle"
      BY <2>1
    <3> QED
      BY <2>2, <3>1, <3>2, <3>3, MoveTypes
  <2> QED
    BY <2>1, <2>3, SamePlan DEF TypeInv, TypeOK
<1>6. CASE Get(t)
  <2>1. /\ pc[t] = "get"
        /\ fetched' = fetched \cup {hand[t].id}
        /\ pc' = [pc EXCEPT ![t] = "ack"]
        /\ UNCHANGED <<call, calls, hand, unexpected, expected, posted, completed,
                       failed, lost>>
    BY <1>6 DEF Get, Goto, net, trouble
  <2>2. hand[t] \in Packets /\ call[t] \in Receives
    BY <2>1 DEF TypeInv, CallOK
  <2>3. hand[t].id \in Ids
    BY <2>2 DEF Packets
  <2>4. /\ pc' \in [Threads -> {"idle", "post", "send", "ackwait", "take", "wait",
                                "get", "ack"}]
        /\ \A u \in Threads : CallOK(u)'
    BY <2>1, <2>2, MoveTypes
  <2> QED
    BY <2>1, <2>3, <2>4, SamePlan DEF TypeInv, TypeOK
<1>7. CASE SendAck(t)
  <2> DEFINE m == Packet(Home[t], hand[t].src, AckTag(call[t]), "ack", hand[t].id)
  <2>1. /\ pc[t] = "ack"
        /\ expected' = Append(expected, m)
        /\ pc' = [pc EXCEPT ![t] = "idle"]
        /\ UNCHANGED <<call, calls, hand, unexpected, posted, fetched, completed,
                       failed, lost>>
    BY <1>7 DEF SendAck, Goto, past, trouble
  <2>2. m \in Packets
    BY <2>1, AckTyped
  <2>3. expected' \in Seq(Packets)
    BY <2>1, <2>2, AppendProperties DEF TypeInv, TypeOK
  <2>4. /\ pc' \in [Threads -> {"idle", "post", "send", "ackwait", "take", "wait",
                                "get", "ack"}]
        /\ \A u \in Threads : CallOK(u)'
    BY <2>1, MoveTypes
  <2> QED
    BY <2>1, <2>3, <2>4, SamePlan DEF TypeInv, TypeOK
<1>8. QED
  BY <1>1, <1>2, <1>3, <1>4, <1>5, <1>6, <1>7 DEF Step

LEMMA FailTypes ==
  ASSUME TypeInv, UNCHANGED plan, NEW t \in Threads, CallFails(t) \/ ReceiveFails(t)
  PROVE  TypeInv'
<1>1. /\ pc[t] # "idle"
      /\ failed' = failed \cup {Id(t)}
      /\ pc' = [pc EXCEPT ![t] = "idle"]
      /\ UNCHANGED <<call, calls, hand, unexpected, expected, fetched, completed, lost>>
      /\ posted' = posted \/ \E j \in 1..Len(posted) : posted' = RemoveAt(posted, j)
  BY DEF CallFails, ReceiveFails, Fail, Goto, net, past
<1>2. Id(t) \in Ids
  BY <1>1, IdTyped
<1>3. posted' \in Seq([node : Nodes, src : Nodes, tag : Nat, owner : Ids])
  BY <1>1, RemoveAtProperties DEF TypeInv, TypeOK
<1>4. /\ pc' \in [Threads -> {"idle", "post", "send", "ackwait", "take", "wait",
                              "get", "ack"}]
      /\ \A u \in Threads : CallOK(u)'
  BY <1>1, MoveTypes
<1>5. QED
  BY <1>1, <1>2, <1>3, <1>4, SamePlan DEF TypeInv, TypeOK

LEMMA NATypes ==
  ASSUME TypeInv, UNCHANGED plan, Match \/ Drop \/ Cancelled
  PROVE  TypeInv'
<1> DEFINE Receipts == [node : Nodes, src : Nodes, tag : Nat, owner : Ids]
<1>1. UNCHANGED <<pc, call, calls, unexpected, fetched, completed, failed>>
  BY DEF Match, Drop, Cancelled, ults, past, trouble
<1>2. expected \in Seq(Packets) /\ posted \in Seq(Receipts)
  BY DEF TypeInv, TypeOK
<1>3. /\ \A i \in 1..Len(expected) : /\ RemoveAt(expected, i) \in Seq(Packets)
                                     /\ expected[i] \in Packets
      /\ \A j \in 1..Len(posted) : /\ RemoveAt(posted, j) \in Seq(Receipts)
                                   /\ posted[j] \in Receipts
  BY <1>2, RemoveAtProperties, ElementOfSeq
<1>4. /\ expected' \in Seq(Packets)
      /\ posted' \in Seq(Receipts)
      /\ lost' \subseteq Packets
      /\ hand' \in [Threads -> Packets \cup {Nothing}]
      /\ \A u \in Threads : hand'[u] = hand[u] \/ hand'[u] \in Packets
  <2>1. CASE Match
    <3>1. PICK i \in 1..Len(expected), j \in 1..Len(posted) :
            /\ expected' = RemoveAt(expected, i)
            /\ posted' = RemoveAt(posted, j)
            /\ hand' = IF Stale(posted[j]) THEN hand
                       ELSE [hand EXCEPT ![posted[j].owner[1]] = expected[i]]
            /\ UNCHANGED lost
      BY <2>1 DEF Match, trouble
    <3> QED
      BY <1>3, <3>1 DEF TypeInv, TypeOK
  <2>2. CASE Drop
    BY <1>2, <1>3, <2>2 DEF Drop, TypeInv, TypeOK
  <2>3. CASE Cancelled
    BY <1>2, <1>3, <2>3 DEF Cancelled, trouble, TypeInv, TypeOK
  <2> QED
    BY <2>1, <2>2, <2>3
<1>5. TypeOK'
  BY <1>1, <1>4, SamePlan DEF TypeInv, TypeOK
<1>6. ASSUME NEW u \in Threads PROVE CallOK(u)'
  BY <1>1, <1>4, <1>6, SamePlan DEF TypeInv, CallOK
<1>7. QED
  BY <1>5, <1>6 DEF TypeInv

LEMMA TypeInvNext == TypeInv /\ [Next]_vars => TypeInv'
<1> SUFFICES ASSUME TypeInv, [Next]_vars PROVE TypeInv'
  OBVIOUS
<1>1. CASE UNCHANGED vars
  <2>1. TypeOK'
    BY <1>1, SamePlan
       DEF vars, state, ults, net, past, trouble, TypeInv, TypeOK
  <2>2. ASSUME NEW u \in Threads PROVE CallOK(u)'
    BY <1>1, <2>2, SamePlan DEF vars, state, ults, TypeInv, CallOK
  <2> QED
    BY <2>1, <2>2 DEF TypeInv
<1>2. CASE Next
  BY <1>2, EnterTypes, StepTypes, FailTypes, NATypes DEF Next
<1>3. QED
  BY <1>1, <1>2

(***************************************************************************)
(* TypeOK of Transfer: every value stays in the set its C type and the     *)
(* bounds of the plan give it.                                             *)
(***************************************************************************)
THEOREM TransferTypes == Spec => []TypeOK
<1>1. Init => TypeInv
  BY TypeInvInit
<1>2. TypeInv /\ [Next]_vars => TypeInv'
  BY TypeInvNext
<1>3. TypeInv => TypeOK
  BY DEF TypeInv
<1>4. QED
  BY <1>1, <1>2, <1>3, PTL DEF Spec

-----------------------------------------------------------------------------
(***************************************************************************)
(* A receive that NA still has belongs to a call that failed, or to one    *)
(* that is under way, has been handed nothing, and will wait for it.  A    *)
(* call posts one at most.                                                 *)
(***************************************************************************)
Awaited(p) ==
  LET t == p.owner[1] IN
  /\ t \in Threads
  /\ p = Receive(t, PostTag(call[t]))
  /\ pc[t] \in {"send", "ackwait", "wait"}
  /\ pc[t] = "send" => IsLarge(call[t])
  /\ hand[t] = Nothing

PostInv ==
  /\ \A t \in Threads : pc[t] # "idle" => Id(t) \notin failed
  /\ \A id \in failed : id[2] <= calls[id[1]]
  /\ \A t \in Threads : pc[t] = "post" => hand[t] = Nothing
  /\ \A p \in ToSet(posted) : p.owner \in failed \/ Awaited(p)
  /\ \A j, k \in 1..Len(posted) : posted[j].owner = posted[k].owner => j = k

Receipts == [node : Nodes, src : Nodes, tag : Nat, owner : Ids]

LEMMA PostedTyped ==
  ASSUME TypeInv
  PROVE  posted \in Seq(Receipts)
BY DEF TypeInv, TypeOK, Receipts

LEMMA CallsTyped ==
  ASSUME TypeInv
  PROVE  /\ calls \in [Threads -> Nat]
         /\ \A id \in Ids : id[1] \in Threads /\ id[2] \in Nat /\ id = <<id[1], id[2]>>
<1>1. plan.calls \in Nat /\ calls \in [Threads -> 0..plan.calls]
  BY PlanTyped DEF TypeInv, TypeOK
<1>2. QED
  BY <1>1 DEF Ids

(***************************************************************************)
(* The call that posted p is the current one of its ULT.                   *)
(***************************************************************************)
LEMMA AwaitedOwner ==
  ASSUME NEW p, Awaited(p)
  PROVE  /\ p.owner[1] \in Threads /\ p.owner = Id(p.owner[1])
         /\ pc[p.owner[1]] # "idle" /\ hand[p.owner[1]] = Nothing
BY DEF Awaited, Receive

(***************************************************************************)
(* A step that leaves a call where it waits leaves its receive awaited.    *)
(***************************************************************************)
LEMMA StillAwaited ==
  ASSUME NEW p, Awaited(p),
         LET t == p.owner[1] IN
           /\ call'[t] = call[t] /\ calls'[t] = calls[t] /\ hand'[t] = hand[t]
           /\ pc'[t] = pc[t] \/ pc'[t] \in {"ackwait", "wait"}
  PROVE  Awaited(p)'
<1> DEFINE t == p.owner[1]
<1>1. Receive(t, PostTag(call[t]))' = Receive(t, PostTag(call[t]))
  BY DEF Receive, Id
<1>2. QED
  BY <1>1 DEF Awaited

(***************************************************************************)
(* NA has no receive of a call that has posted none yet, or that has been  *)
(* handed something.                                                       *)
(***************************************************************************)
LEMMA NothingPosted ==
  ASSUME TypeInv, PostInv, NEW t \in Threads, pc[t] # "idle",
         \/ pc[t] \in {"post", "take", "get", "ack"}
         \/ pc[t] = "send" /\ ~ IsLarge(call[t])
         \/ hand[t] # Nothing
  PROVE  \A p \in ToSet(posted) : p.owner # Id(t)
<1>1. ASSUME NEW p \in ToSet(posted), p.owner = Id(t)
      PROVE  FALSE
  <2>1. Awaited(p)
    BY <1>1 DEF PostInv
  <2>2. p.owner[1] = t
    BY <1>1 DEF Id
  <2> QED
    BY <2>1, <2>2 DEF Awaited
<1>2. QED
  BY <1>1

(***************************************************************************)
(* NA completes a receive for a call that is not over: the call awaits it. *)
(***************************************************************************)
LEMMA LiveOwner ==
  ASSUME TypeInv, PostInv, NEW p \in ToSet(posted), ~ Stale(p)
  PROVE  Awaited(p)
<1>1. p \in Receipts
  BY PostedTyped, ElementsOf
<1>2. p.owner[1] \in Threads /\ p.owner = <<p.owner[1], p.owner[2]>>
  BY <1>1, CallsTyped DEF Receipts
<1>3. p.owner = Id(p.owner[1]) /\ pc[p.owner[1]] # "idle"
  BY <1>2 DEF Stale, Id
<1>4. QED
  BY <1>2, <1>3 DEF PostInv

LEMMA PostInvInit == Init => PostInv
<1> SUFFICES ASSUME Init PROVE PostInv
  OBVIOUS
<1>1. posted = << >> /\ ToSet(posted) = {}
  BY DEF Init, ToSet
<1>2. QED
  BY <1>1 DEF Init, PostInv

LEMMA EnterKeeps ==
  ASSUME TypeInv, PostInv, UNCHANGED plan, NEW t \in Threads, Enter(t)
  PROVE  PostInv'
<1>1. /\ pc[t] = "idle"
      /\ \A u \in Threads \ {t} : pc'[u] = pc[u] /\ call'[u] = call[u]
                                  /\ calls'[u] = calls[u] /\ hand'[u] = hand[u]
      /\ calls'[t] = calls[t] + 1 /\ hand'[t] = Nothing
      /\ UNCHANGED <<posted, failed>>
  BY DEF Enter, Goto, net, trouble, TypeInv, TypeOK
<1>2. calls \in [Threads -> Nat] /\ failed \subseteq Ids
  BY CallsTyped DEF TypeInv, TypeOK
<1>3. \A id \in failed : id[1] \in Threads /\ id[2] \in Nat
  BY <1>2, CallsTyped
<1>4. \A id \in failed : id[2] <= calls'[id[1]] /\ (id[1] = t => id[2] < calls'[t])
  BY <1>1, <1>2, <1>3 DEF PostInv
<1>5. Id(t)' \notin failed /\ \A u \in Threads \ {t} : Id(u)' = Id(u)
  <2>1. Id(t)' = <<t, calls'[t]>> /\ calls'[t] \in Nat
    BY <1>1, <1>2 DEF Id
  <2>2. ASSUME <<t, calls'[t]>> \in failed PROVE FALSE
    BY <1>4, <2>1, <2>2
  <2> QED
    BY <1>1, <2>1, <2>2 DEF Id
<1>6. ASSUME NEW p \in ToSet(posted), p.owner \notin failed
      PROVE  Awaited(p)'
  <2>1. Awaited(p) /\ p.owner[1] \in Threads /\ p.owner[1] # t
    BY <1>1, <1>6, AwaitedOwner DEF PostInv
  <2> QED
    BY <1>1, <2>1, StillAwaited
<1>7. ASSUME NEW u \in Threads
      PROVE  /\ pc'[u] # "idle" => Id(u)' \notin failed
             /\ pc'[u] = "post" => hand'[u] = Nothing
  BY <1>1, <1>5, <1>7 DEF PostInv
<1>8. QED
  BY <1>1, <1>4, <1>6, <1>7 DEF PostInv

LEMMA PostKeeps ==
  ASSUME TypeInv, PostInv, UNCHANGED plan, NEW t \in Threads, Post(t)
  PROVE  PostInv'
<1> DEFINE n == Len(posted)
<1>0. PICK r : r = Receive(t, PostTag(call[t]))
  OBVIOUS
<1>1. /\ pc[t] = "post"
      /\ posted' = Append(posted, r)
      /\ pc' = [pc EXCEPT ![t] = IF IsLarge(call[t]) THEN "send" ELSE "wait"]
      /\ UNCHANGED <<call, calls, hand, failed>>
  BY <1>0 DEF Post, Goto, trouble
<1>2. /\ pc'[t] = IF IsLarge(call[t]) THEN "send" ELSE "wait"
      /\ \A u \in Threads \ {t} : pc'[u] = pc[u]
  BY <1>1 DEF TypeInv, TypeOK
<1>3. r.owner = Id(t) /\ r.owner[1] = t
  BY <1>0 DEF Receive, Id
<1>4. /\ n \in Nat /\ Len(posted') = n + 1 /\ posted'[n + 1] = r
      /\ \A j \in 1..n : posted'[j] = posted[j] /\ posted[j] \in ToSet(posted)
      /\ ToSet(posted') = ToSet(posted) \cup {r}
  <2>1. posted \in Seq(Receipts) /\ r \in Receipts
    BY <1>0, <1>1, ReceiveTyped, PostedTyped DEF Receipts
  <2>2. n \in Nat /\ \A j \in 1..n : posted[j] \in ToSet(posted)
    BY <2>1, ElementsOf, LenProperties
  <2>3. /\ Len(posted') = n + 1 /\ posted'[n + 1] = r
        /\ \A j \in 1..n : posted'[j] = posted[j]
        /\ ToSet(posted') = ToSet(posted) \cup {r}
    BY <1>1, <2>1, AppendElements
  <2> QED
    BY <2>2, <2>3
<1>5. \A p \in ToSet(posted) : p.owner # Id(t)
  BY <1>1, NothingPosted
<1>6. Awaited(r)'
  <2>1. r = Receive(t, PostTag(call[t]))' /\ hand'[t] = Nothing
    BY <1>0, <1>1 DEF Receive, Id, PostInv
  <2> QED
    BY <1>1, <1>2, <1>3, <2>1 DEF Awaited
<1> HIDE DEF n
<1>7. ASSUME NEW p \in ToSet(posted), p.owner \notin failed
      PROVE  Awaited(p)'
  <2>1. Awaited(p) /\ p.owner[1] \in Threads /\ p.owner = Id(p.owner[1])
    BY <1>7, AwaitedOwner DEF PostInv
  <2>2. p.owner[1] # t
    BY <1>5, <1>7, <2>1
  <2> QED
    BY <1>1, <1>2, <2>1, <2>2, StillAwaited
<1>8. ASSUME NEW p \in ToSet(posted') PROVE p.owner \in failed' \/ Awaited(p)'
  <2>1. CASE p \in ToSet(posted)
    <3>1. failed' = failed
      BY <1>1
    <3> QED
      BY <1>7, <2>1, <3>1
  <2>2. CASE p = r
    BY <1>6, <2>2
  <2> QED
    BY <1>4, <1>8, <2>1, <2>2
<1>9. ASSUME NEW j \in 1..Len(posted'), NEW k \in 1..Len(posted'),
             posted'[j].owner = posted'[k].owner
      PROVE  j = k
  <2>1. (j \in 1..n \/ j = n + 1) /\ (k \in 1..n \/ k = n + 1)
    BY <1>4, <1>9
  <2>2. \A i, l \in 1..n : posted[i].owner = posted[l].owner => i = l
    BY DEF PostInv, n
  <2> QED
    BY <1>3, <1>4, <1>5, <1>9, <2>1, <2>2
<1>10. ASSUME NEW u \in Threads
       PROVE  /\ pc'[u] # "idle" => Id(u)' \notin failed'
              /\ pc'[u] = "post" => hand'[u] = Nothing
  BY <1>1, <1>2, <1>10 DEF PostInv, Id
<1>11. QED
  BY <1>1, <1>8, <1>9, <1>10 DEF PostInv

(***************************************************************************)
(* A step of a ULT that leaves the posted receives alone.                  *)
(***************************************************************************)
LEMMA OwnStepKeeps ==
  ASSUME TypeInv, PostInv, UNCHANGED <<call, calls, posted, failed>>,
         NEW t \in Threads, NEW l, pc[t] # "idle",
         pc' = [pc EXCEPT ![t] = l], l # "post",
         \A u \in Threads \ {t} : hand'[u] = hand[u],
         \/ \A p \in ToSet(posted) : p.owner # Id(t)
         \/ l \in {"ackwait", "wait"} /\ hand'[t] = hand[t]
  PROVE  PostInv'
<1>1. /\ pc'[t] = l
      /\ \A u \in Threads \ {t} : pc'[u] = pc[u]
  BY DEF TypeInv, TypeOK
<1>2. \A u \in Threads : Id(u)' = Id(u)
  BY DEF Id
<1>3. ASSUME NEW p \in ToSet(posted), p.owner \notin failed
      PROVE  Awaited(p)'
  <2>1. Awaited(p) /\ p.owner[1] \in Threads /\ p.owner = Id(p.owner[1])
    BY <1>3, AwaitedOwner DEF PostInv
  <2>2. CASE p.owner[1] # t
    BY <1>1, <2>1, <2>2, StillAwaited
  <2>3. CASE p.owner[1] = t
    <3>1. l \in {"ackwait", "wait"} /\ hand'[t] = hand[t]
      BY <1>3, <2>1, <2>3
    <3> QED
      BY <1>1, <2>1, <2>3, <3>1, StillAwaited
  <2> QED
    BY <2>2, <2>3
<1>4. ASSUME NEW u \in Threads
      PROVE  /\ pc'[u] # "idle" => Id(u)' \notin failed'
             /\ pc'[u] = "post" => hand'[u] = Nothing
  BY <1>1, <1>2, <1>4 DEF PostInv
<1>5. QED
  BY <1>3, <1>4 DEF PostInv

LEMMA StepKeeps ==
  ASSUME TypeInv, PostInv, UNCHANGED plan, NEW t \in Threads, Step(t)
  PROVE  PostInv'
<1>1. CASE Post(t)
  BY <1>1, PostKeeps
<1>2. CASE Send(t)
  <2>1. /\ pc[t] = "send"
        /\ pc' = [pc EXCEPT ![t] = IF IsLarge(call[t]) THEN "ackwait" ELSE "idle"]
        /\ UNCHANGED <<call, calls, hand, posted, failed>>
    BY <1>2 DEF Send, Goto, trouble
  <2>2. CASE IsLarge(call[t])
    <3>1. pc' = [pc EXCEPT ![t] = "ackwait"]
      BY <2>1, <2>2
    <3> QED
      BY <2>1, <3>1, OwnStepKeeps
  <2>3. CASE ~ IsLarge(call[t])
    <3>1. pc' = [pc EXCEPT ![t] = "idle"]
      BY <2>1, <2>3
    <3>2. \A p \in ToSet(posted) : p.owner # Id(t)
      BY <2>1, <2>3, NothingPosted
    <3> QED
      BY <2>1, <3>1, <3>2, OwnStepKeeps
  <2> QED
    BY <2>2, <2>3
<1>3. CASE AckArrived(t) \/ Take(t) \/ Received(t) \/ Get(t) \/ SendAck(t)
  <2>1. /\ pc[t] \in {"take", "get", "ack"} \/ (pc[t] # "idle" /\ hand[t] # Nothing)
        /\ \E l \in {"idle", "get", "ack"} : pc' = [pc EXCEPT ![t] = l]
        /\ UNCHANGED <<call, calls, posted, failed>>
        /\ hand' = hand \/ \E m : hand' = [hand EXCEPT ![t] = m]
    <3>1. CASE AckArrived(t)
      BY <3>1 DEF AckArrived, Goto, net, trouble
    <3>2. CASE Take(t)
      BY <3>2 DEF Take, Goto, trouble
    <3>3. CASE Received(t)
      BY <3>3 DEF Received, Goto, net, trouble
    <3>4. CASE Get(t)
      BY <3>4 DEF Get, Goto, net, trouble
    <3>5. CASE SendAck(t)
      BY <3>5 DEF SendAck, Goto, trouble
    <3> QED
      BY <1>3, <3>1, <3>2, <3>3, <3>4, <3>5
  <2>2. \A u \in Threads \ {t} : hand'[u] = hand[u]
    BY <2>1 DEF TypeInv, TypeOK
  <2>3. \A p \in ToSet(posted) : p.owner # Id(t)
    BY <2>1, NothingPosted
  <2>4. PICK l \in {"idle", "get", "ack"} : pc' = [pc EXCEPT ![t] = l]
    BY <2>1
  <2>5. pc[t] # "idle" /\ l # "post"
    BY <2>1, <2>4
  <2> QED
    BY <2>1, <2>2, <2>3, <2>4, <2>5, OwnStepKeeps
<1>4. QED
  BY <1>1, <1>2, <1>3 DEF Step

(***************************************************************************)
(* A receive leaves NA, and the others stay what they were.                *)
(***************************************************************************)
LEMMA FewerKeeps ==
  ASSUME TypeInv, PostInv, NEW i \in 1..Len(posted), posted' = RemoveAt(posted, i)
  PROVE  /\ \A p \in ToSet(posted') : p \in ToSet(posted) /\ p.owner # posted[i].owner
         /\ \A j, k \in 1..Len(posted') : posted'[j].owner = posted'[k].owner => j = k
<1>1. posted \in Seq(Receipts)
  BY PostedTyped
<1>2. \A p \in ToSet(posted') : p \in ToSet(posted) /\ p.owner # posted[i].owner
  BY <1>1, RemoveAtElements, ElementsOf DEF PostInv
<1>3. PICK f \in [1..Len(posted') -> 1..Len(posted)] :
        /\ \A j \in 1..Len(posted') : posted'[j] = posted[f[j]]
        /\ \A j, k \in 1..Len(posted') : f[j] = f[k] => j = k
  BY <1>1, RemoveAtOrigin
<1>4. ASSUME NEW j \in 1..Len(posted'), NEW k \in 1..Len(posted'),
             posted'[j].owner = posted'[k].owner
      PROVE  j = k
  <2>1. f[j] \in 1..Len(posted) /\ f[k] \in 1..Len(posted)
    BY <1>3, <1>4
  <2>2. posted[f[j]].owner = posted[f[k]].owner
    BY <1>3, <1>4
  <2>3. f[j] = f[k]
    BY <2>1, <2>2 DEF PostInv
  <2> QED
    BY <1>3, <1>4, <2>3
<1>5. QED
  BY <1>2, <1>4

LEMMA FailKeeps ==
  ASSUME TypeInv, PostInv, UNCHANGED plan, NEW t \in Threads, CallFails(t) \/ ReceiveFails(t)
  PROVE  PostInv'
<1>1. /\ pc[t] # "idle"
      /\ failed' = failed \cup {Id(t)}
      /\ pc' = [pc EXCEPT ![t] = "idle"]
      /\ UNCHANGED <<call, calls, hand>>
      /\ posted' = posted \/ \E j \in 1..Len(posted) : posted' = RemoveAt(posted, j)
  BY DEF CallFails, ReceiveFails, Fail, Goto, net, past
<1>2. pc'[t] = "idle" /\ \A u \in Threads \ {t} : pc'[u] = pc[u]
  BY <1>1 DEF TypeInv, TypeOK
<1>3. /\ ToSet(posted') \subseteq ToSet(posted)
      /\ \A j, k \in 1..Len(posted') : posted'[j].owner = posted'[k].owner => j = k
  <2>1. CASE posted' = posted
    BY <2>1 DEF PostInv
  <2>2. CASE \E j \in 1..Len(posted) : posted' = RemoveAt(posted, j)
    BY <2>2, FewerKeeps
  <2> QED
    BY <1>1, <2>1, <2>2
<1>4. ASSUME NEW p \in ToSet(posted'), p.owner \notin failed'
      PROVE  Awaited(p)'
  <2>1. Awaited(p) /\ p.owner[1] \in Threads /\ p.owner = Id(p.owner[1])
    BY <1>1, <1>3, <1>4, AwaitedOwner DEF PostInv
  <2>2. p.owner[1] # t
    BY <1>1, <1>4, <2>1
  <2> QED
    BY <1>1, <1>2, <2>1, <2>2, StillAwaited
<1>5. ASSUME NEW u \in Threads
      PROVE  /\ pc'[u] # "idle" => Id(u)' \notin failed'
             /\ pc'[u] = "post" => hand'[u] = Nothing
  BY <1>1, <1>2, <1>5 DEF PostInv, Id
<1>6. ASSUME NEW id \in failed' PROVE id[2] <= calls'[id[1]]
  <2>1. calls[t] \in Nat
    BY CallsTyped
  <2> QED
    BY <1>1, <1>6, <2>1 DEF PostInv, Id
<1>7. QED
  BY <1>3, <1>4, <1>5, <1>6 DEF PostInv

LEMMA NAKeeps ==
  ASSUME TypeInv, PostInv, UNCHANGED plan, Match \/ Drop \/ Cancelled
  PROVE  PostInv'
<1>1. UNCHANGED <<pc, call, calls, failed>>
  BY DEF Match, Drop, Cancelled, ults, past, trouble
<1>2. /\ ToSet(posted') \subseteq ToSet(posted)
      /\ \A j, k \in 1..Len(posted') : posted'[j].owner = posted'[k].owner => j = k
      /\ \A p \in ToSet(posted') :
           p.owner \in failed \/ hand'[p.owner[1]] = hand[p.owner[1]]
      /\ \A u \in Threads : pc[u] = "post" => hand'[u] = hand[u]
  <2>1. CASE Match
    <3>1. PICK j \in 1..Len(posted) :
            /\ posted' = RemoveAt(posted, j)
            /\ hand' = hand \/ (/\ ~ Stale(posted[j])
                                /\ \E m : hand' = [hand EXCEPT ![posted[j].owner[1]] = m])
      BY <2>1 DEF Match
    <3>2. /\ \A p \in ToSet(posted') : p \in ToSet(posted) /\ p.owner # posted[j].owner
          /\ \A i, k \in 1..Len(posted') : posted'[i].owner = posted'[k].owner => i = k
      BY <3>1, FewerKeeps
    <3>3. posted[j] \in ToSet(posted)
      BY PostedTyped, ElementsOf
    <3>4. ~ Stale(posted[j]) =>
            /\ Awaited(posted[j])
            /\ posted[j].owner = Id(posted[j].owner[1])
      BY <3>3, LiveOwner, AwaitedOwner
    <3>5. \A p \in ToSet(posted') :
            p.owner \in failed \/ hand'[p.owner[1]] = hand[p.owner[1]]
      <4> SUFFICES ASSUME NEW p \in ToSet(posted'), p.owner \notin failed
                   PROVE  hand'[p.owner[1]] = hand[p.owner[1]]
        OBVIOUS
      <4>1. p.owner[1] \in Threads /\ p.owner = Id(p.owner[1])
        BY <3>2, AwaitedOwner DEF PostInv
      <4>2. ~ Stale(posted[j]) => p.owner[1] # posted[j].owner[1]
        BY <3>2, <3>4, <4>1
      <4> QED
        BY <3>1, <4>1, <4>2 DEF TypeInv, TypeOK
    <3>6. \A u \in Threads : pc[u] = "post" => hand'[u] = hand[u]
      <4>1. ~ Stale(posted[j]) => pc[posted[j].owner[1]] # "post"
        BY <3>4 DEF Awaited
      <4> QED
        BY <3>1, <4>1 DEF TypeInv, TypeOK
    <3> QED
      BY <3>2, <3>5, <3>6
  <2>2. CASE Drop
    BY <2>2 DEF Drop, PostInv
  <2>3. CASE Cancelled
    <3>1. hand' = hand /\ \E j \in 1..Len(posted) : posted' = RemoveAt(posted, j)
      BY <2>3 DEF Cancelled
    <3> QED
      BY <3>1, FewerKeeps
  <2> QED
    BY <2>1, <2>2, <2>3
<1>3. ASSUME NEW p \in ToSet(posted'), p.owner \notin failed'
      PROVE  Awaited(p)'
  BY <1>1, <1>2, <1>3, StillAwaited DEF PostInv
<1>4. QED
  BY <1>1, <1>2, <1>3 DEF PostInv, Id

LEMMA PostInvNext == TypeInv /\ PostInv /\ [Next]_vars => PostInv'
<1> SUFFICES ASSUME TypeInv, PostInv, [Next]_vars PROVE PostInv'
  OBVIOUS
<1>1. CASE UNCHANGED vars
  <2>1. UNCHANGED <<pc, call, calls, hand, posted, failed>>
    BY <1>1 DEF vars, state, ults, net, trouble
  <2>2. \A p : Awaited(p) => Awaited(p)'
    BY <2>1, StillAwaited
  <2> QED
    BY <2>1, <2>2 DEF PostInv, Id
<1>2. CASE Next
  BY <1>2, EnterKeeps, StepKeeps, FailKeeps, NAKeeps DEF Next
<1>3. QED
  BY <1>1, <1>2

(***************************************************************************)
(* NoStaleReceive of Transfer: of a call that returned NA_SUCCESS no       *)
(* receive is left in NA, where its operation id and buffer would be in    *)
(* use after they went back to the caches and to the caller.               *)
(***************************************************************************)
THEOREM NoReceiveLeft == Spec => []NoStaleReceive
<1>1. Init => TypeInv /\ PostInv
  BY TypeInvInit, PostInvInit
<1>2. TypeInv /\ PostInv /\ [Next]_vars => (TypeInv /\ PostInv)'
  BY TypeInvNext, PostInvNext
<1>3. PostInv => NoStaleReceive
  <2>1. \A p : Awaited(p) => ~ Stale(p)
    BY DEF Awaited, Stale, Receive, Id
  <2> QED
    BY <2>1 DEF PostInv, NoStaleReceive
<1>4. QED
  BY <1>1, <1>2, <1>3, PTL DEF Spec

-----------------------------------------------------------------------------
(***************************************************************************)
(* What a large send may rely on, for every plan whose tags are distinct:  *)
(* the acknowledgement that wakes it is its own, its data has been read,   *)
(* and nobody reads its buffer after it has returned.                      *)
(***************************************************************************)

(***************************************************************************)
(* A message is the one a planned send makes, or acknowledges one: the     *)
(* call under way, if that is the call it belongs to.                      *)
(***************************************************************************)
MadeBy(id, d) ==
  /\ id \in Ids /\ id[2] <= calls[id[1]]
  /\ id[2] = calls[id[1]] => call[id[1]] = d

SentOn(m, path) ==
  \E d \in plan.may[m.id[1]] :
    /\ MadeBy(m.id, d)
    /\ d.op = "send" /\ d.path = path
    /\ m.src = Home[m.id[1]] /\ m.dst = d.peer /\ m.tag = DataTag(d)
    /\ m.body = IF IsLarge(d) THEN "large" ELSE "small"

Acknowledges(m) ==
  \E d \in plan.may[m.id[1]] :
    /\ MadeBy(m.id, d)
    /\ IsLarge(d)
    /\ m.src = d.peer /\ m.dst = Home[m.id[1]] /\ m.tag = AckTag(d)
    /\ m.body = "ack"

(***************************************************************************)
(* t holds a large message it has not acknowledged.                        *)
(***************************************************************************)
Holds(t) == pc[t] \in {"wait", "get", "ack"} /\ hand[t].body = "large"

HandOK(t) ==
  /\ pc[t] \in {"get", "ack"} => Holds(t)
  /\ Holds(t) => /\ SentOn(hand[t], call[t].path)
                 /\ hand[t].dst = Home[t] /\ hand[t].tag = DataTag(call[t])
  /\ pc[t] = "ack" => hand[t].id \in fetched

KeyInv ==
  /\ \A n \in Nodes : \A m \in ToSet(unexpected[n]) :
       SentOn(m, "unexpected") /\ m.dst = n
  /\ \A m \in ToSet(expected) :
       SentOn(m, "expected") \/ (Acknowledges(m) /\ m.id \in fetched)
  /\ \A t \in Threads : HandOK(t)

-----------------------------------------------------------------------------
LEMMA KeyInvInit == Init => KeyInv
<1> SUFFICES ASSUME Init PROVE KeyInv
  OBVIOUS
<1>1. ToSet(expected) = {} /\ \A n \in Nodes : ToSet(unexpected[n]) = {}
  BY DEF Init, ToSet
<1>2. \A t \in Threads : pc[t] = "idle"
  BY DEF Init
<1>3. QED
  BY <1>1, <1>2 DEF KeyInv, HandOK, Holds

(***************************************************************************)
(* Every place a message can be in, and a number for each position.        *)
(***************************************************************************)
LEMMA NetTyped ==
  ASSUME TypeInv
  PROVE  /\ expected \in Seq(Packets) /\ Len(expected) \in Nat
         /\ ToSet(expected) \subseteq Packets
         /\ \A i \in 1..Len(expected) : expected[i] \in ToSet(expected)
         /\ \A n \in Nodes :
              /\ unexpected[n] \in Seq(Packets) /\ Len(unexpected[n]) \in Nat
              /\ ToSet(unexpected[n]) \subseteq Packets
              /\ \A i \in 1..Len(unexpected[n]) : unexpected[n][i] \in ToSet(unexpected[n])
<1>1. /\ expected \in Seq(Packets) /\ \A n \in Nodes : unexpected[n] \in Seq(Packets)
  BY DEF TypeInv, TypeOK
<1>2. QED
  BY <1>1, ElementsOf, LenProperties

LEMMA PacketTyped ==
  ASSUME TypeInv, NEW m \in Packets
  PROVE  /\ m.id[1] \in Threads
         /\ \A d \in plan.may[m.id[1]] : d \in Sends \cup Receives
<1>1. m.id \in Ids
  BY DEF Packets
<1>2. m.id[1] \in Threads
  BY <1>1, CallsTyped
<1>3. QED
  BY <1>2, PlanTyped DEF TypeInv, TypeOK

(***************************************************************************)
(* It is enough that what is new in the network is right, and the hands    *)
(* that change.                                                            *)
(***************************************************************************)
LEMMA MadeStays ==
  ASSUME TypeInv, UNCHANGED plan, NEW id, NEW d, MadeBy(id, d),
         \A t \in Threads : \/ call'[t] = call[t] /\ calls'[t] = calls[t]
                            \/ calls'[t] = calls[t] + 1
  PROVE  MadeBy(id, d)'
<1>1. id \in Ids' /\ id[1] \in Threads /\ id[2] \in Nat /\ calls[id[1]] \in Nat
  BY CallsTyped, SamePlan DEF MadeBy
<1>2. QED
  BY <1>1 DEF MadeBy

LEMMA KeyMoves ==
  ASSUME TypeInv, KeyInv, UNCHANGED plan, fetched \subseteq fetched',
         \A t \in Threads : \/ call'[t] = call[t] /\ calls'[t] = calls[t]
                            \/ calls'[t] = calls[t] + 1,
         \A n \in Nodes : \A m \in ToSet(unexpected'[n]) :
           m \in ToSet(unexpected[n]) \/ (SentOn(m, "unexpected") /\ m.dst = n),
         \A m \in ToSet(expected') :
           \/ m \in ToSet(expected)
           \/ SentOn(m, "expected")
           \/ Acknowledges(m) /\ m.id \in fetched,
         \A t \in Threads :
           \/ pc'[t] = pc[t] /\ hand'[t] = hand[t] /\ call'[t] = call[t]
           \/ HandOK(t)'
  PROVE  KeyInv'
<1>1. \A m, path : SentOn(m, path) => SentOn(m, path)'
  BY MadeStays DEF SentOn
<1>2. \A m : Acknowledges(m) => Acknowledges(m)'
  BY MadeStays DEF Acknowledges
<1>3. ASSUME NEW n \in Nodes, NEW m \in ToSet(unexpected'[n])
      PROVE  SentOn(m, "unexpected")' /\ m.dst = n
  BY <1>1, <1>3 DEF KeyInv
<1>4. ASSUME NEW m \in ToSet(expected')
      PROVE  SentOn(m, "expected")' \/ (Acknowledges(m)' /\ m.id \in fetched')
  BY <1>1, <1>2, <1>4 DEF KeyInv
<1>5. ASSUME NEW t \in Threads PROVE HandOK(t)'
  <2>1. CASE HandOK(t)'
    BY <2>1
  <2>2. CASE pc'[t] = pc[t] /\ hand'[t] = hand[t] /\ call'[t] = call[t]
    <3>1. HandOK(t)
      BY DEF KeyInv
    <3>2. Holds(t)' <=> Holds(t)
      BY <2>2 DEF Holds
    <3>3. SentOn(hand[t], call[t].path) => SentOn(hand[t], call[t].path)'
      BY <1>1, <2>2
    <3> QED
      BY <2>2, <3>1, <3>2, <3>3 DEF HandOK
  <2> QED
    BY <1>5, <2>1, <2>2
<1>6. QED
  BY <1>3, <1>4, <1>5 DEF KeyInv

LEMMA EmptyHand ==
  ASSUME NEW t \in Threads, pc'[t] \notin {"wait", "get", "ack"}
  PROVE  HandOK(t)'
BY DEF HandOK, Holds

LEMMA EnterKey ==
  ASSUME TypeInv, KeyInv, UNCHANGED plan, NEW t \in Threads, Enter(t)
  PROVE  KeyInv'
<1>1. /\ UNCHANGED <<unexpected, expected, fetched>>
      /\ \A u \in Threads \ {t} : pc'[u] = pc[u] /\ hand'[u] = hand[u] /\ call'[u] = call[u]
      /\ pc'[t] \notin {"wait", "get", "ack"}
      /\ calls'[t] = calls[t] + 1 /\ \A u \in Threads \ {t} : calls'[u] = calls[u]
  BY DEF Enter, Goto, net, past, TypeInv, TypeOK
<1>2. HandOK(t)'
  BY <1>1, EmptyHand
<1>3. QED
  BY <1>1, <1>2, KeyMoves

LEMMA StepKey ==
  ASSUME TypeInv, PostInv, KeyInv, UNCHANGED plan, NEW t \in Threads, Step(t)
  PROVE  KeyInv'
<1>1. CASE Post(t)
  <2>1. /\ pc[t] = "post"
        /\ pc' = [pc EXCEPT ![t] = IF IsLarge(call[t]) THEN "send" ELSE "wait"]
        /\ UNCHANGED <<call, calls, hand, unexpected, expected, fetched>>
    BY <1>1 DEF Post, Goto, past
  <2>2. /\ pc'[t] \in {"send", "wait"} /\ hand'[t] = Nothing
        /\ \A u \in Threads \ {t} : pc'[u] = pc[u]
    BY <2>1 DEF TypeInv, TypeOK, PostInv
  <2>3. HandOK(t)'
    BY <2>2 DEF HandOK, Holds, Nothing
  <2> QED
    BY <2>1, <2>2, <2>3, KeyMoves
<1>2. CASE Send(t)
  <2>1. /\ pc[t] = "send"
        /\ pc' = [pc EXCEPT ![t] = IF IsLarge(call[t]) THEN "ackwait" ELSE "idle"]
        /\ UNCHANGED <<call, calls, hand, fetched>>
        /\ \/ /\ call[t].path = "unexpected"
              /\ unexpected' = [unexpected EXCEPT ![call[t].peer] = Append(@, DataPacket(t))]
              /\ expected' = expected
           \/ /\ call[t].path # "unexpected"
              /\ expected' = Append(expected, DataPacket(t))
              /\ unexpected' = unexpected
    BY <1>2 DEF Send, Goto, past
  <2>2. /\ pc'[t] \in {"ackwait", "idle"}
        /\ \A u \in Threads \ {t} : pc'[u] = pc[u]
    BY <2>1 DEF TypeInv, TypeOK
  <2>3. HandOK(t)'
    BY <2>2, EmptyHand
  <2>4. call[t] \in plan.may[t] /\ call[t] \in Sends /\ call[t].op = "send"
        /\ call[t].path \in {"unexpected", "expected"} /\ call[t].peer \in Nodes
    BY <2>1, IdTyped, PostsTyped DEF TypeInv, CallOK
  <2>5. SentOn(DataPacket(t), call[t].path) /\ DataPacket(t).dst = call[t].peer
    BY <2>1, <2>4, IdTyped, CallsTyped DEF SentOn, MadeBy, DataPacket, Packet, Id
  <2>6. DataPacket(t) \in Packets
    BY <2>1, DataTyped
  <2>7. CASE call[t].path = "unexpected"
    <3>1. /\ ToSet(unexpected'[call[t].peer]) = ToSet(unexpected[call[t].peer]) \cup {DataPacket(t)}
          /\ \A n \in Nodes \ {call[t].peer} : unexpected'[n] = unexpected[n]
      <4>1. unexpected'[call[t].peer] = Append(unexpected[call[t].peer], DataPacket(t))
            /\ \A n \in Nodes \ {call[t].peer} : unexpected'[n] = unexpected[n]
        BY <2>1, <2>4, <2>7 DEF TypeInv, TypeOK
      <4> QED
        BY <2>4, <2>6, <4>1, NetTyped, AppendElements
    <3>2. \A n \in Nodes : \A m \in ToSet(unexpected'[n]) :
            m \in ToSet(unexpected[n]) \/ (SentOn(m, "unexpected") /\ m.dst = n)
      BY <2>5, <2>7, <3>1
    <3> QED
      BY <2>1, <2>2, <2>3, <2>7, <3>2, KeyMoves
  <2>8. CASE call[t].path # "unexpected"
    <3>1. ToSet(expected') = ToSet(expected) \cup {DataPacket(t)}
      <4>1. expected' = Append(expected, DataPacket(t)) /\ expected \in Seq(Packets)
        BY <2>1, <2>8, NetTyped
      <4> QED
        BY <2>6, <4>1, AppendElements
    <3>2. \A m \in ToSet(expected') : m \in ToSet(expected) \/ SentOn(m, "expected")
      BY <2>4, <2>5, <2>8, <3>1
    <3> QED
      BY <2>1, <2>2, <2>3, <2>8, <3>2, KeyMoves
  <2> QED
    BY <2>7, <2>8
<1>3. CASE AckArrived(t)
  <2>1. /\ pc' = [pc EXCEPT ![t] = "idle"]
        /\ UNCHANGED <<call, calls, hand, unexpected, expected, fetched>>
    BY <1>3 DEF AckArrived, Goto, net
  <2>2. pc'[t] = "idle" /\ \A u \in Threads \ {t} : pc'[u] = pc[u]
    BY <2>1 DEF TypeInv, TypeOK
  <2> QED
    BY <2>1, <2>2, EmptyHand, KeyMoves
<1>4. CASE Take(t)
  <2> DEFINE box == unexpected[Home[t]]
  <2>1. PICK i \in 1..Len(box) :
          /\ Wanted(t, box[i])
          /\ unexpected' = [unexpected EXCEPT ![Home[t]] = RemoveAt(@, i)]
          /\ hand' = [hand EXCEPT ![t] = box[i]]
          /\ pc' = [pc EXCEPT ![t] = IF box[i].body = "large" THEN "get" ELSE "idle"]
    BY <1>4 DEF Take, Goto
  <2>2. /\ pc[t] = "take"
        /\ UNCHANGED <<call, calls, expected, fetched>>
    BY <1>4 DEF Take, past
  <2>3. /\ Home[t] \in Nodes /\ box \in Seq(Packets) /\ box[i] \in ToSet(box)
        /\ SentOn(box[i], "unexpected") /\ box[i].dst = Home[t]
    BY HomeTyped, NetTyped DEF KeyInv
  <2>4. /\ pc'[t] = IF box[i].body = "large" THEN "get" ELSE "idle"
        /\ hand'[t] = box[i]
        /\ \A u \in Threads \ {t} : pc'[u] = pc[u] /\ hand'[u] = hand[u]
    BY <2>1 DEF TypeInv, TypeOK
  <2>5. call[t].path = "unexpected" /\ DataTag(call[t]) = box[i].tag
    BY <2>1, <2>2 DEF TypeInv, CallOK, Wanted, DataTag
  <2>6. HandOK(t)'
    <3>1. SentOn(hand[t], call[t].path)'
      BY <2>2, <2>3, <2>4, <2>5 DEF SentOn, MadeBy, Ids
    <3> QED
      BY <2>2, <2>3, <2>4, <2>5, <3>1 DEF HandOK, Holds
  <2>7. \A n \in Nodes : \A m \in ToSet(unexpected'[n]) : m \in ToSet(unexpected[n])
    <3>1. /\ unexpected'[Home[t]] = RemoveAt(box, i)
          /\ \A n \in Nodes \ {Home[t]} : unexpected'[n] = unexpected[n]
      BY <2>1, <2>3 DEF TypeInv, TypeOK
    <3>2. \A m \in ToSet(RemoveAt(box, i)) : m \in ToSet(box)
      BY <2>3, RemoveAtElements, ElementsOf
    <3> QED
      BY <3>1, <3>2
  <2> QED
    BY <2>2, <2>4, <2>6, <2>7, KeyMoves
<1>5. CASE Received(t)
  <2>1. /\ pc[t] = "wait"
        /\ pc' = [pc EXCEPT ![t] = IF hand[t].body = "large" THEN "get" ELSE "idle"]
        /\ UNCHANGED <<call, calls, hand, unexpected, expected, fetched>>
    BY <1>5 DEF Received, Goto, net, past
  <2>2. /\ pc'[t] = IF hand[t].body = "large" THEN "get" ELSE "idle"
        /\ \A u \in Threads \ {t} : pc'[u] = pc[u]
    BY <2>1 DEF TypeInv, TypeOK
  <2>3. HandOK(t)'
    <3>1. HandOK(t)
      BY DEF KeyInv
    <3>2. SentOn(hand[t], call[t].path) => SentOn(hand[t], call[t].path)'
      BY <2>1 DEF SentOn, MadeBy, Ids
    <3> QED
      BY <2>1, <2>2, <3>1, <3>2 DEF HandOK, Holds
  <2> QED
    BY <2>1, <2>2, <2>3, KeyMoves
<1>6. CASE Get(t)
  <2>1. /\ pc[t] = "get"
        /\ pc' = [pc EXCEPT ![t] = "ack"]
        /\ fetched' = fetched \cup {hand[t].id}
        /\ UNCHANGED <<call, calls, hand, unexpected, expected>>
    BY <1>6 DEF Get, Goto, net
  <2>2. /\ pc'[t] = "ack"
        /\ \A u \in Threads \ {t} : pc'[u] = pc[u]
    BY <2>1 DEF TypeInv, TypeOK
  <2>3. HandOK(t)'
    <3>1. HandOK(t)
      BY DEF KeyInv
    <3>2. SentOn(hand[t], call[t].path) => SentOn(hand[t], call[t].path)'
      BY <2>1 DEF SentOn, MadeBy, Ids
    <3> QED
      BY <2>1, <2>2, <3>1, <3>2 DEF HandOK, Holds
  <2> QED
    BY <2>1, <2>2, <2>3, KeyMoves
<1>7. CASE SendAck(t)
  <2>0. PICK m : m = Packet(Home[t], hand[t].src, AckTag(call[t]), "ack", hand[t].id)
    OBVIOUS
  <2>1. /\ pc[t] = "ack"
        /\ pc' = [pc EXCEPT ![t] = "idle"]
        /\ expected' = Append(expected, m)
        /\ UNCHANGED <<call, calls, hand, unexpected, fetched>>
    BY <1>7, <2>0 DEF SendAck, Goto, past
  <2>2. pc'[t] = "idle" /\ \A u \in Threads \ {t} : pc'[u] = pc[u]
    BY <2>1 DEF TypeInv, TypeOK
  <2>3. m \in Packets
    BY <2>0, <2>1, AckTyped
  <2>4. /\ SentOn(hand[t], call[t].path) /\ hand[t].body = "large"
        /\ hand[t].dst = Home[t] /\ hand[t].tag = DataTag(call[t])
        /\ hand[t].id \in fetched
    BY <2>1 DEF KeyInv, HandOK, Holds
  <2>5. Acknowledges(m)
    <3>1. PICK d \in plan.may[hand[t].id[1]] :
            /\ MadeBy(hand[t].id, d)
            /\ d.op = "send" /\ d.path = call[t].path
            /\ hand[t].src = Home[hand[t].id[1]] /\ hand[t].dst = d.peer
            /\ hand[t].tag = DataTag(d)
            /\ hand[t].body = IF IsLarge(d) THEN "large" ELSE "small"
      BY <2>4 DEF SentOn
    <3>2. IsLarge(d)
      BY <2>4, <3>1
    <3>3. d.tag \in Nat /\ call[t].tag \in Nat
      <4>1. hand[t] \in Packets /\ call[t] \in Sends \cup Receives
        BY <2>1 DEF TypeInv, CallOK
      <4> QED
        BY <4>1, <3>1, PacketTyped, PostsTyped
    <3>4. DataTag(d) = DataTag(call[t])
      BY <2>4, <3>1
    <3>5. AckTag(d) = AckTag(call[t])
      BY <3>1, <3>3, <3>4 DEF DataTag, AckTag
    <3> QED
      BY <2>0, <2>4, <3>1, <3>2, <3>5 DEF Acknowledges, Packet
  <2>6. m.id \in fetched
    BY <2>0, <2>4 DEF Packet
  <2>7. ToSet(expected') = ToSet(expected) \cup {m}
    BY <2>1, <2>3, NetTyped, AppendElements
  <2>8. HandOK(t)'
    BY <2>2, EmptyHand
  <2>9. \A x \in ToSet(expected') :
          x \in ToSet(expected) \/ (Acknowledges(x) /\ x.id \in fetched)
    BY <2>5, <2>6, <2>7
  <2> QED
    BY <2>1, <2>2, <2>8, <2>9, KeyMoves
<1>8. QED
  BY <1>1, <1>2, <1>3, <1>4, <1>5, <1>6, <1>7 DEF Step

LEMMA FailKey ==
  ASSUME TypeInv, KeyInv, UNCHANGED plan, NEW t \in Threads, CallFails(t) \/ ReceiveFails(t)
  PROVE  KeyInv'
<1>1. /\ pc' = [pc EXCEPT ![t] = "idle"]
      /\ UNCHANGED <<call, calls, hand, unexpected, expected, fetched>>
  BY DEF CallFails, ReceiveFails, Goto, net, past
<1>2. pc'[t] = "idle" /\ \A u \in Threads \ {t} : pc'[u] = pc[u]
  BY <1>1 DEF TypeInv, TypeOK
<1>3. QED
  BY <1>1, <1>2, EmptyHand, KeyMoves

LEMMA NAKey ==
  ASSUME TypeInv, PostInv, KeyInv, UNCHANGED plan, Match \/ Drop \/ Cancelled
  PROVE  KeyInv'
<1>1. UNCHANGED <<pc, call, calls, unexpected, fetched>>
  BY DEF Match, Drop, Cancelled, ults, past
<1>2. \A i \in 1..Len(expected) : ToSet(RemoveAt(expected, i)) \subseteq ToSet(expected)
  BY NetTyped, RemoveAtElements
<1>3. CASE Match
  <2>1. PICK i \in 1..Len(expected), j \in 1..Len(posted) :
          /\ Fits(posted[j], expected[i])
          /\ expected' = RemoveAt(expected, i)
          /\ hand' = IF Stale(posted[j]) THEN hand
                     ELSE [hand EXCEPT ![posted[j].owner[1]] = expected[i]]
    BY <1>3 DEF Match, OldestFor
  <2>2. CASE Stale(posted[j])
    BY <1>1, <1>2, <2>1, <2>2, KeyMoves
  <2>3. CASE ~ Stale(posted[j])
    <3>1. PICK p, m : p = posted[j] /\ m = expected[i]
      OBVIOUS
    <3>2. PICK r : r = p.owner[1]
      OBVIOUS
    <3>3. p \in ToSet(posted) /\ Awaited(p) /\ m \in ToSet(expected) /\ Fits(p, m)
      BY <2>1, <2>3, <3>1, PostedTyped, ElementsOf, NetTyped, LiveOwner
    <3>4. /\ r \in Threads /\ p = Receive(r, PostTag(call[r]))
          /\ pc[r] \in {"send", "ackwait", "wait"}
      BY <3>2, <3>3 DEF Awaited
    <3>5. /\ hand'[r] = m
          /\ \A u \in Threads \ {r} : hand'[u] = hand[u]
      BY <2>1, <2>3, <3>1, <3>2, <3>4 DEF TypeInv, TypeOK
    <3>6. HandOK(r)'
      <4>1. CASE pc[r] # "wait"
        BY <1>1, <3>4, <4>1, EmptyHand
      <4>2. CASE pc[r] = "wait" /\ m.body # "large"
        BY <1>1, <3>5, <4>2 DEF HandOK, Holds
      <4>3. CASE pc[r] = "wait" /\ m.body = "large"
        <5>1. SentOn(m, "expected")
          BY <3>3, <4>3 DEF KeyInv, Acknowledges
        <5>2. call[r] \in Receives /\ call[r].path = "expected" /\ ~ IsLarge(call[r])
          BY <4>3, <3>4, PostsTyped DEF TypeInv, CallOK, IsLarge, Receives
        <5>3. m.dst = Home[r] /\ m.tag = DataTag(call[r])
          BY <3>3, <3>4, <5>2 DEF Fits, Receive, PostTag
        <5>4. SentOn(hand[r], call[r].path)'
          BY <1>1, <3>5, <5>1, <5>2 DEF SentOn, MadeBy, Ids
        <5> QED
          BY <1>1, <3>5, <4>3, <5>3, <5>4 DEF HandOK, Holds
      <4> QED
        BY <4>1, <4>2, <4>3
    <3> QED
      BY <1>1, <1>2, <2>1, <3>5, <3>6, KeyMoves
  <2> QED
    BY <2>2, <2>3
<1>4. CASE Drop
  <2>1. hand' = hand /\ \E i \in 1..Len(expected) : expected' = RemoveAt(expected, i)
    BY <1>4 DEF Drop
  <2> QED
    BY <1>1, <1>2, <2>1, KeyMoves
<1>5. CASE Cancelled
  <2>1. hand' = hand /\ expected' = expected
    BY <1>5 DEF Cancelled
  <2> QED
    BY <1>1, <2>1, KeyMoves
<1>6. QED
  BY <1>3, <1>4, <1>5

(***************************************************************************)
(* Where the large message id, or its acknowledgement, may be.             *)
(***************************************************************************)
Box(n, i, id) ==
  /\ i \in 1..Len(unexpected[n])
  /\ unexpected[n][i].body = "large" /\ unexpected[n][i].id = id
Net(i, id) ==
  /\ i \in 1..Len(expected)
  /\ expected[i].body \in {"large", "ack"} /\ expected[i].id = id
Hand(t, id) == Holds(t) /\ hand[t].id = id

(***************************************************************************)
(* It is in one place at most.                                             *)
(***************************************************************************)
Once(id) ==
  /\ \A n, k \in Nodes : \A i, j \in Nat : Box(n, i, id) /\ Box(k, j, id) => n = k /\ i = j
  /\ \A i, j \in Nat : Net(i, id) /\ Net(j, id) => i = j
  /\ \A t, u \in Threads : Hand(t, id) /\ Hand(u, id) => t = u
  /\ \A n \in Nodes : \A i, j \in Nat : ~ (Box(n, i, id) /\ Net(j, id))
  /\ \A n \in Nodes : \A i \in Nat : \A t \in Threads : ~ (Box(n, i, id) /\ Hand(t, id))
  /\ \A i \in Nat : \A t \in Threads : ~ (Net(i, id) /\ Hand(t, id))

UnderWay(id) ==
  \/ \E n \in Nodes : \E i \in Nat : Box(n, i, id)
  \/ \E i \in Nat : Net(i, id)
  \/ \E t \in Threads : Hand(t, id)

OnceInv ==
  \A id \in Ids : Sound(id[1]) =>
    /\ Once(id)
    /\ UnderWay(id) => Exposed(id) /\ hand[id[1]] = Nothing

(***************************************************************************)
(* What a sender has been handed is its acknowledgement.                   *)
(***************************************************************************)
AckOK(t) ==
  Sound(t) /\ pc[t] \in {"send", "ackwait"} /\ hand[t] # Nothing =>
    /\ pc[t] = "ackwait"
    /\ hand[t].body = "ack" /\ hand[t].id = Id(t) /\ Id(t) \in fetched

AckInv == (\A t \in Threads : AckOK(t)) /\ ReadBeforeReturn

-----------------------------------------------------------------------------
LEMMA OnceInit == Init => OnceInv /\ AckInv
<1> SUFFICES ASSUME Init PROVE OnceInv /\ AckInv
  OBVIOUS
<1>1. /\ Len(expected) = 0 /\ \A n \in Nodes : Len(unexpected[n]) = 0
      /\ \A t \in Threads : pc[t] = "idle"
      /\ completed = {}
  BY DEF Init
<1>2. ASSUME NEW id
      PROVE  /\ \A n \in Nodes : \A i \in Nat : ~ Box(n, i, id)
             /\ \A i \in Nat : ~ Net(i, id)
             /\ \A t \in Threads : ~ Hand(t, id)
  BY <1>1 DEF Box, Net, Hand, Holds
<1>3. OnceInv
  BY <1>2 DEF OnceInv, Once, UnderWay
<1>4. AckInv
  BY <1>1 DEF AckInv, AckOK, ReadBeforeReturn
<1>5. QED
  BY <1>3, <1>4

(***************************************************************************)
(* The receive for t's acknowledgement meets that acknowledgement only:    *)
(* the tag excludes messages of the application and the acknowledgements   *)
(* of other ULTs.                                                          *)
(***************************************************************************)
LEMMA OwnAcknowledgement ==
  ASSUME TypeInv, KeyInv, Distinct(plan),
         NEW t \in Threads, pc[t] # "idle", IsLarge(call[t]),
         NEW m \in ToSet(expected), Fits(Receive(t, PostTag(call[t])), m)
  PROVE  m.body = "ack" /\ m.id[1] = t /\ m.id \in fetched
<1> DEFINE c == call[t]
           u == m.id[1]
<1>1. c \in plan.may[t] /\ u \in Threads
  BY IdTyped, NetTyped, PacketTyped
<1>2. Home[t] = m.dst /\ c.peer = m.src /\ AckTag(c) = m.tag
  BY DEF Fits, Receive, PostTag
<1>3. \A d \in plan.may[u] :
        /\ t # u /\ Home[t] = Home[u] /\ Posts(d) /\ d.peer = c.peer =>
             PostTag(d) # AckTag(c)
        /\ d.op = "send" /\ d.path = "expected" /\ c.peer = Home[u] /\ d.peer = Home[t] =>
             DataTag(d) # AckTag(c)
  BY <1>1 DEF Distinct
<1>4. ~ SentOn(m, "expected")
  BY <1>2, <1>3 DEF SentOn
<1>5. Acknowledges(m) /\ m.id \in fetched
  BY <1>4 DEF KeyInv
<1>6. u = t
  BY <1>2, <1>3, <1>5 DEF Acknowledges, PostTag, Posts
<1>7. QED
  BY <1>5, <1>6 DEF Acknowledges

(***************************************************************************)
(* A ULT that waits for no acknowledgement, or has it, has no message      *)
(* under way.                                                              *)
(***************************************************************************)
LEMMA NoneUnderWay ==
  ASSUME TypeInv, OnceInv, NEW t \in Threads, Sound(t),
         pc[t] # "ackwait" \/ hand[t] # Nothing,
         NEW id \in Ids, id[1] = t
  PROVE  ~ UnderWay(id)
BY DEF OnceInv, Exposed

(***************************************************************************)
(* Messages move, and no ULT that waits for its acknowledgement notices.   *)
(***************************************************************************)
LEMMA OnceMoves ==
  ASSUME TypeInv, OnceInv, UNCHANGED plan, failed \subseteq failed',
         \A t \in Threads :
           \/ pc'[t] = pc[t] /\ calls'[t] = calls[t] /\ hand'[t] = hand[t]
           \/ pc[t] # "ackwait" \/ hand[t] # Nothing \/ ~ Sound(t)',
         \A id \in Ids : Once(id) => Once(id)' /\ (UnderWay(id)' => UnderWay(id))
  PROVE  OnceInv'
<1>1. Ids' = Ids
  BY SamePlan
<1>2. ASSUME NEW id \in Ids, Sound(id[1])'
      PROVE  /\ Once(id)'
             /\ UnderWay(id)' => Exposed(id)' /\ hand'[id[1]] = Nothing
  <2> DEFINE t == id[1]
  <2>1. t \in Threads /\ Sound(t)
    BY <1>2, CallsTyped DEF Sound
  <2>2. Once(id) /\ (UnderWay(id) => Exposed(id) /\ hand[t] = Nothing)
    BY <2>1 DEF OnceInv
  <2>3. Once(id)' /\ (UnderWay(id)' => UnderWay(id))
    BY <2>2
  <2>4. Exposed(id) /\ hand[t] = Nothing => Exposed(id)' /\ hand'[t] = Nothing
    BY <1>2, <2>1 DEF Exposed
  <2> QED
    BY <2>2, <2>3, <2>4
<1>3. QED
  BY <1>1, <1>2 DEF OnceInv

LEMMA OnceSame ==
  ASSUME NEW id, Once(id),
         \A n \in Nodes : \A i \in Nat : Box(n, i, id)' => Box(n, i, id),
         \A i \in Nat : Net(i, id)' => Net(i, id),
         \A t \in Threads : Hand(t, id)' => Hand(t, id)
  PROVE  Once(id)' /\ (UnderWay(id)' => UnderWay(id))
BY DEF Once, UnderWay

LEMMA SameNet ==
  ASSUME NEW id
  PROVE  /\ unexpected' = unexpected =>
              \A n \in Nodes : \A i \in Nat : Box(n, i, id)' => Box(n, i, id)
         /\ expected' = expected => \A i \in Nat : Net(i, id)' => Net(i, id)
BY DEF Box, Net

(***************************************************************************)
(* Each place of r has an element of s from a place of its own, not i:     *)
(* RemoveAtOrigin, for a list that has a name.                             *)
(***************************************************************************)
Origin(f, r, s, i) ==
  /\ \A j \in 1..Len(r) : f[j] # i /\ r[j] = s[f[j]]
  /\ \A j, k \in 1..Len(r) : f[j] = f[k] => j = k

LEMMA ShorterOrigin ==
  ASSUME NEW S, NEW s \in Seq(S), NEW i \in 1..Len(s), NEW r, r = RemoveAt(s, i)
  PROVE  \E f \in [1..Len(r) -> 1..Len(s)] : Origin(f, r, s, i)
BY RemoveAtOrigin, SMTT(60) DEF Origin

(***************************************************************************)
(* A large message is taken from a mailbox.                                *)
(***************************************************************************)
LEMMA BoxToHand ==
  ASSUME TypeInv, NEW t \in Threads, NEW h \in Nodes, NEW i \in 1..Len(unexpected[h]),
         unexpected' = [unexpected EXCEPT ![h] = RemoveAt(@, i)],
         UNCHANGED expected, hand'[t] = unexpected[h][i],
         \A u \in Threads \ {t} : pc'[u] = pc[u] /\ hand'[u] = hand[u],
         NEW id, Once(id)
  PROVE  Once(id)' /\ (UnderWay(id)' => UnderWay(id))
<1>0. PICK s, r : s = unexpected[h] /\ r = RemoveAt(s, i)
  OBVIOUS
<1>1. /\ unexpected'[h] = r
      /\ \A n \in Nodes \ {h} : unexpected'[n] = unexpected[n]
      /\ s \in Seq(Packets) /\ Len(s) \in Nat /\ i \in 1..Len(s)
  BY <1>0, NetTyped DEF TypeInv, TypeOK
<1>2. PICK f \in [1..Len(r) -> 1..Len(s)] :
        /\ \A j \in 1..Len(r) : f[j] # i /\ r[j] = s[f[j]]
        /\ \A j, k \in 1..Len(r) : f[j] = f[k] => j = k
  <2>1. s \in Seq(Packets) /\ i \in 1..Len(s) /\ r = RemoveAt(s, i)
    BY <1>0, <1>1
  <2>2. PICK f \in [1..Len(r) -> 1..Len(s)] : Origin(f, r, s, i)
    BY <2>1, ShorterOrigin
  <2> QED
    BY <2>2 DEF Origin
<1>3. \A n \in Nodes \ {h} : \A j \in Nat : Box(n, j, id)' => Box(n, j, id)
  BY <1>1 DEF Box
<1>4. \A j \in Nat : Box(h, j, id)' =>
        j \in 1..Len(r) /\ f[j] \in Nat /\ f[j] # i /\ Box(h, f[j], id)
  <2>1. \A j \in Nat : Box(h, j, id)' <=>
          j \in 1..Len(r) /\ r[j].body = "large" /\ r[j].id = id
    BY <1>1 DEF Box
  <2>2. \A j : j \in 1..Len(s) /\ s[j].body = "large" /\ s[j].id = id =>
          j \in Nat /\ Box(h, j, id)
    BY <1>0, <1>1 DEF Box
  <2> QED
    BY <1>2, <2>1, <2>2
<1>5. \A j \in Nat : Net(j, id)' => Net(j, id)
  BY SameNet
<1>6. /\ \A u \in Threads \ {t} : Hand(u, id)' => Hand(u, id)
      /\ Hand(t, id)' => i \in Nat /\ Box(h, i, id)
  BY DEF Hand, Holds, Box
<1>7. UnderWay(id)' => UnderWay(id)
  BY <1>3, <1>4, <1>5, <1>6 DEF UnderWay
<1>8. Once(id)'
  <2>1. ASSUME NEW n \in Nodes, NEW k \in Nodes, NEW j \in Nat, NEW l \in Nat,
               Box(n, j, id)', Box(k, l, id)'
        PROVE  n = k /\ j = l
    BY <1>2, <1>3, <1>4, <2>1 DEF Once
  <2>2. ASSUME NEW u \in Threads, NEW v \in Threads, Hand(u, id)', Hand(v, id)'
        PROVE  u = v
    BY <1>6, <2>2 DEF Once
  <2>3. ASSUME NEW n \in Nodes, NEW j \in Nat, NEW k \in Nat, Box(n, j, id)', Net(k, id)'
        PROVE  FALSE
    BY <1>3, <1>4, <1>5, <2>3 DEF Once
  <2>4. ASSUME NEW n \in Nodes, NEW j \in Nat, NEW u \in Threads, Box(n, j, id)', Hand(u, id)'
        PROVE  FALSE
    BY <1>3, <1>4, <1>6, <2>4 DEF Once
  <2>5. ASSUME NEW k \in Nat, NEW u \in Threads, Net(k, id)', Hand(u, id)'
        PROVE  FALSE
    BY <1>5, <1>6, <2>5 DEF Once
  <2>6. \A j, k \in Nat : Net(j, id)' /\ Net(k, id)' => j = k
    BY <1>5 DEF Once
  <2> QED
    BY <2>1, <2>2, <2>3, <2>4, <2>5, <2>6 DEF Once
<1>9. QED
  BY <1>7, <1>8

(***************************************************************************)
(* A large message is acknowledged by the ULT that holds it.               *)
(***************************************************************************)
LEMMA HandToNet ==
  ASSUME TypeInv, NEW t \in Threads, Holds(t), NEW m \in Packets, m.id = hand[t].id,
         expected' = Append(expected, m), UNCHANGED <<unexpected, hand>>, pc'[t] = "idle",
         \A u \in Threads \ {t} : pc'[u] = pc[u],
         NEW id, Once(id)
  PROVE  Once(id)' /\ (UnderWay(id)' => UnderWay(id))
<1> DEFINE l == Len(expected) + 1
<1>1. /\ l \in Nat /\ Len(expected') = l /\ expected'[l] = m
      /\ \A j \in 1..Len(expected) : expected'[j] = expected[j]
      /\ \A j \in 1..l : j \in 1..Len(expected) \/ j = l
  BY NetTyped, AppendElements
<1>2. \A n \in Nodes : \A j \in Nat : Box(n, j, id)' => Box(n, j, id)
  BY SameNet
<1> HIDE DEF l
<1>3. \A j \in Nat : Net(j, id)' => Net(j, id) \/ (j = l /\ Hand(t, id))
  BY <1>1 DEF Net, Hand
<1>4. ~ Hand(t, id)' /\ \A u \in Threads : Hand(u, id)' => Hand(u, id)
  BY DEF Hand, Holds
<1>5. UnderWay(id)' => UnderWay(id)
  BY <1>2, <1>3, <1>4 DEF UnderWay
<1>6. Once(id)'
  <2>1. ASSUME NEW j \in Nat, NEW k \in Nat, Net(j, id)', Net(k, id)'
        PROVE  j = k
    BY <1>3, <2>1 DEF Once
  <2>2. ASSUME NEW n \in Nodes, NEW j \in Nat, NEW k \in Nat, Box(n, j, id)', Net(k, id)'
        PROVE  FALSE
    BY <1>2, <1>3, <2>2 DEF Once
  <2>3. ASSUME NEW k \in Nat, NEW u \in Threads, Net(k, id)', Hand(u, id)'
        PROVE  FALSE
    BY <1>3, <1>4, <2>3 DEF Once
  <2> QED
    BY <1>2, <1>4, <2>1, <2>2, <2>3 DEF Once
<1>7. QED
  BY <1>5, <1>6

(***************************************************************************)
(* NA takes a message or an acknowledgement off the network, for t or for  *)
(* nobody.                                                                 *)
(***************************************************************************)
LEMMA NetToHand ==
  ASSUME TypeInv, NEW i \in 1..Len(expected), expected' = RemoveAt(expected, i),
         UNCHANGED unexpected, NEW id, NEW t,
         \A u \in Threads : Hand(u, id)' => Hand(u, id) \/ (u = t /\ Net(i, id)),
         Once(id)
  PROVE  /\ Once(id)' /\ (UnderWay(id)' => UnderWay(id))
         /\ Net(i, id) /\ UnderWay(id)' => Hand(t, id)'
<1>1. PICK f \in [1..Len(expected') -> 1..Len(expected)] :
        /\ \A j \in 1..Len(expected') : f[j] # i /\ expected'[j] = expected[f[j]]
        /\ \A j, k \in 1..Len(expected') : f[j] = f[k] => j = k
  BY NetTyped, RemoveAtOrigin
<1>2. \A n \in Nodes : \A j \in Nat : Box(n, j, id)' => Box(n, j, id)
  BY SameNet
<1>3. \A j \in Nat : Net(j, id)' =>
        j \in 1..Len(expected') /\ f[j] \in Nat /\ f[j] # i /\ Net(f[j], id)
  BY <1>1 DEF Net
<1>4. i \in Nat
  OBVIOUS
<1>5. UnderWay(id)' => UnderWay(id)
  BY <1>2, <1>3, <1>4 DEF UnderWay
<1>6. Once(id)'
  <2>1. ASSUME NEW j \in Nat, NEW k \in Nat, Net(j, id)', Net(k, id)'
        PROVE  j = k
    BY <1>1, <1>3, <2>1 DEF Once
  <2>2. ASSUME NEW u \in Threads, NEW v \in Threads, Hand(u, id)', Hand(v, id)'
        PROVE  u = v
    BY <1>4, <2>2 DEF Once
  <2>3. ASSUME NEW n \in Nodes, NEW j \in Nat, NEW k \in Nat, Box(n, j, id)', Net(k, id)'
        PROVE  FALSE
    BY <1>2, <1>3, <2>3 DEF Once
  <2>4. ASSUME NEW n \in Nodes, NEW j \in Nat, NEW u \in Threads, Box(n, j, id)', Hand(u, id)'
        PROVE  FALSE
    BY <1>2, <1>4, <2>4 DEF Once
  <2>5. ASSUME NEW k \in Nat, NEW u \in Threads, Net(k, id)', Hand(u, id)'
        PROVE  FALSE
    BY <1>3, <1>4, <2>5 DEF Once
  <2> QED
    BY <1>2, <2>1, <2>2, <2>3, <2>4, <2>5 DEF Once
<1>7. ASSUME Net(i, id), UnderWay(id)'
      PROVE  Hand(t, id)'
  <2>1. ~ \E n \in Nodes : \E j \in Nat : Box(n, j, id)'
    BY <1>2, <1>4, <1>7 DEF Once
  <2>2. ~ \E j \in Nat : Net(j, id)'
    BY <1>3, <1>4, <1>7 DEF Once
  <2>3. PICK u \in Threads : Hand(u, id)'
    BY <1>7, <2>1, <2>2 DEF UnderWay
  <2> QED
    BY <1>4, <1>7, <2>3 DEF Once
<1>8. QED
  BY <1>5, <1>6, <1>7

-----------------------------------------------------------------------------
LEMMA AckMoves ==
  ASSUME AckInv, failed \subseteq failed', fetched \subseteq fetched',
         \A t \in Threads :
           \/ pc'[t] = pc[t] /\ calls'[t] = calls[t] /\ hand'[t] = hand[t]
           \/ AckOK(t)',
         \A id \in completed' : id \in completed \/ (Sound(id[1]) => id \in fetched)
  PROVE  AckInv'
<1>1. \A t : Sound(t)' => Sound(t)
  BY DEF Sound
<1>2. ASSUME NEW t \in Threads PROVE AckOK(t)'
  <2>1. CASE AckOK(t)'
    BY <2>1
  <2>2. CASE pc'[t] = pc[t] /\ calls'[t] = calls[t] /\ hand'[t] = hand[t]
    <3>1. AckOK(t) /\ Id(t)' = Id(t)
      BY <2>2 DEF AckInv, Id
    <3> QED
      BY <1>1, <2>2, <3>1 DEF AckOK
  <2> QED
    BY <1>2, <2>1, <2>2
<1>3. ReadBeforeReturn'
  BY <1>1 DEF AckInv, ReadBeforeReturn
<1>4. QED
  BY <1>2, <1>3 DEF AckInv

Safe == PostInv /\ KeyInv /\ OnceInv /\ AckInv

LEMMA EnterSafe ==
  ASSUME TypeInv, Safe, UNCHANGED plan, NEW t \in Threads, Enter(t)
  PROVE  OnceInv' /\ AckInv'
<1>1. /\ pc[t] = "idle" /\ pc'[t] \notin {"wait", "get", "ack"}
      /\ hand'[t] = Nothing
      /\ \A u \in Threads \ {t} : pc'[u] = pc[u] /\ calls'[u] = calls[u] /\ hand'[u] = hand[u]
      /\ UNCHANGED <<unexpected, expected, fetched, completed, failed>>
  BY DEF Enter, Goto, net, past, trouble, TypeInv, TypeOK
<1>2. \A id : \A u \in Threads : Hand(u, id)' => Hand(u, id)
  BY <1>1 DEF Hand, Holds
<1>3. \A id \in Ids : Once(id) => Once(id)' /\ (UnderWay(id)' => UnderWay(id))
  BY <1>1, <1>2, SameNet, OnceSame
<1>4. OnceInv'
  BY <1>1, <1>3, OnceMoves DEF Safe
<1>5. AckOK(t)'
  BY <1>1 DEF AckOK
<1>6. AckInv'
  BY <1>1, <1>5, AckMoves DEF Safe
<1>7. QED
  BY <1>4, <1>6

(***************************************************************************)
(* The large message of a call that has sent nothing before is on its way. *)
(***************************************************************************)
LEMMA SendSafe ==
  ASSUME TypeInv, Safe, UNCHANGED plan, NEW t \in Threads, Send(t)
  PROVE  OnceInv' /\ AckInv'
<1>1. /\ pc[t] = "send"
      /\ pc' = [pc EXCEPT ![t] = IF IsLarge(call[t]) THEN "ackwait" ELSE "idle"]
      /\ UNCHANGED <<call, calls, hand, fetched, completed, failed>>
  BY DEF Send, Goto, past, trouble
<1>2. /\ pc'[t] = IF IsLarge(call[t]) THEN "ackwait" ELSE "idle"
      /\ \A u \in Threads \ {t} : pc'[u] = pc[u]
  BY <1>1 DEF TypeInv, TypeOK
<1>3. PICK m, h : m = DataPacket(t) /\ h = call[t].peer
  OBVIOUS
<1>4. m \in Packets /\ h \in Nodes /\ m.id = Id(t) /\ Id(t) \in Ids
      /\ m.body \in {"large", "small"} /\ (m.body = "large" <=> IsLarge(call[t]))
  BY <1>1, <1>3, DataTyped, IdTyped DEF DataPacket, Packet
<1>5. Sound(t) => hand[t] = Nothing /\ \A id \in Ids : id[1] = t => ~ UnderWay(id)
  BY <1>1, NoneUnderWay DEF Safe, AckInv, AckOK
<1>6. \A id : \A u \in Threads : Hand(u, id)' => Hand(u, id)
  BY <1>1, <1>2 DEF Hand, Holds
<1>7. PICK b, e \in Nat :
        /\ \A n \in Nodes : \A i \in Nat : \A id :
             Box(n, i, id)' => \/ Box(n, i, id)
                               \/ n = h /\ i = b /\ id = Id(t) /\ IsLarge(call[t])
        /\ \A i \in Nat : \A id :
             Net(i, id)' => Net(i, id) \/ (i = e /\ id = Id(t) /\ IsLarge(call[t]))
        /\ \A id : \/ \A n \in Nodes : \A i \in Nat : Box(n, i, id)' => Box(n, i, id)
                   \/ \A i \in Nat : Net(i, id)' => Net(i, id)
  <2> DEFINE b == Len(unexpected[h]) + 1
             e == Len(expected) + 1
  <2>1. b \in Nat /\ e \in Nat
    BY <1>4, NetTyped
  <2>2. CASE /\ unexpected' = [unexpected EXCEPT ![h] = Append(@, m)]
             /\ expected' = expected
    <3>1. /\ unexpected'[h] = Append(unexpected[h], m)
          /\ \A n \in Nodes \ {h} : unexpected'[n] = unexpected[n]
      BY <1>4, <2>2 DEF TypeInv, TypeOK
    <3>2. /\ Len(unexpected'[h]) = b /\ unexpected'[h][b] = m
          /\ \A j \in 1..Len(unexpected[h]) : unexpected'[h][j] = unexpected[h][j]
          /\ \A j \in 1..b : j \in 1..Len(unexpected[h]) \/ j = b
      BY <1>4, <3>1, NetTyped, AppendElements
    <3> HIDE DEF b
    <3>3. \A n \in Nodes \ {h} : \A i \in Nat : \A id : Box(n, i, id)' => Box(n, i, id)
      BY <3>1 DEF Box
    <3>4. \A i \in Nat : \A id :
            Box(h, i, id)' => Box(h, i, id) \/ (i = b /\ id = Id(t) /\ IsLarge(call[t]))
      BY <1>4, <3>2 DEF Box
    <3>5. \A id : \A i \in Nat : Net(i, id)' => Net(i, id)
      BY <2>2, SameNet
    <3> QED
      BY <2>1, <3>3, <3>4, <3>5
  <2>3. CASE expected' = Append(expected, m) /\ unexpected' = unexpected
    <3>1. /\ Len(expected') = e /\ expected'[e] = m
          /\ \A j \in 1..Len(expected) : expected'[j] = expected[j]
          /\ \A j \in 1..e : j \in 1..Len(expected) \/ j = e
      BY <1>4, <2>3, NetTyped, AppendElements
    <3> HIDE DEF e
    <3>2. \A i \in Nat : \A id :
            Net(i, id)' => Net(i, id) \/ (i = e /\ id = Id(t) /\ IsLarge(call[t]))
      BY <1>4, <3>1 DEF Net
    <3>3. \A id : \A n \in Nodes : \A i \in Nat : Box(n, i, id)' => Box(n, i, id)
      BY <2>3, SameNet
    <3> QED
      BY <2>1, <3>2, <3>3
  <2> QED
    BY <1>3, <2>2, <2>3 DEF Send
<1>8. ASSUME NEW id \in Ids, Sound(id[1])'
      PROVE  Once(id)' /\ (UnderWay(id)' => Exposed(id)' /\ hand'[id[1]] = Nothing)
  <2>1. Sound(id[1]) /\ id[1] \in Threads
    BY <1>1, <1>8, CallsTyped DEF Sound
  <2>2. Once(id) /\ (UnderWay(id) => Exposed(id) /\ hand[id[1]] = Nothing)
    BY <2>1, <1>8 DEF Safe, OnceInv
  <2>3. CASE id # Id(t) \/ ~ IsLarge(call[t])
    <3>1. Once(id)' /\ (UnderWay(id)' => UnderWay(id))
      BY <1>6, <1>7, <2>2, <2>3, OnceSame
    <3>2. Exposed(id) => id[1] # t
      BY <1>1 DEF Exposed
    <3> QED
      BY <1>1, <1>2, <2>1, <2>2, <3>1, <3>2 DEF Exposed
  <2>4. CASE id = Id(t) /\ IsLarge(call[t])
    <3>1. id[1] = t /\ id[2] = calls[t] /\ ~ UnderWay(id) /\ hand[t] = Nothing
      BY <1>5, <2>1, <2>4, <1>8 DEF Id
    <3>2. /\ \A n \in Nodes : \A i \in Nat : Box(n, i, id)' => n = h /\ i = b
          /\ \A i \in Nat : Net(i, id)' => i = e
          /\ \A u \in Threads : ~ Hand(u, id)'
          /\ \/ \A n \in Nodes : \A i \in Nat : ~ Box(n, i, id)'
             \/ \A i \in Nat : ~ Net(i, id)'
      BY <1>6, <1>7, <3>1 DEF UnderWay
    <3>3. Once(id)'
      BY <3>2 DEF Once
    <3>4. Exposed(id)' /\ hand'[id[1]] = Nothing
      BY <1>1, <1>2, <2>4, <3>1 DEF Exposed
    <3> QED
      BY <3>3, <3>4
  <2> QED
    BY <2>3, <2>4
<1>9. OnceInv'
  BY <1>8, SamePlan DEF OnceInv
<1>10. AckOK(t)'
  BY <1>1, <1>2, <1>5 DEF AckOK, Sound
<1>11. AckInv'
  BY <1>1, <1>2, <1>10, AckMoves DEF Safe
<1>12. QED
  BY <1>9, <1>11

LEMMA StepSafe ==
  ASSUME TypeInv, Safe, UNCHANGED plan, NEW t \in Threads, Step(t)
  PROVE  OnceInv' /\ AckInv'
<1>1. CASE Send(t)
  BY <1>1, SendSafe
<1>2. CASE Take(t)
  <2>1. PICK i \in 1..Len(unexpected[Home[t]]) :
          /\ unexpected' = [unexpected EXCEPT ![Home[t]] = RemoveAt(@, i)]
          /\ hand' = [hand EXCEPT ![t] = unexpected[Home[t]][i]]
          /\ \E l \in {"idle", "get"} : pc' = [pc EXCEPT ![t] = l]
    BY <1>2 DEF Take, Goto
  <2>2. /\ pc[t] = "take"
        /\ UNCHANGED <<call, calls, expected, fetched, completed, failed>>
    BY <1>2 DEF Take, past, trouble
  <2>3. /\ hand'[t] = unexpected[Home[t]][i] /\ pc'[t] \in {"idle", "get"}
        /\ \A u \in Threads \ {t} : pc'[u] = pc[u] /\ hand'[u] = hand[u]
    BY <2>1 DEF TypeInv, TypeOK
  <2>4. \A id \in Ids : Once(id) => Once(id)' /\ (UnderWay(id)' => UnderWay(id))
    BY <2>1, <2>2, <2>3, HomeTyped, BoxToHand
  <2>5. OnceInv'
    BY <2>2, <2>3, <2>4, OnceMoves DEF Safe
  <2>6. AckOK(t)'
    BY <2>3 DEF AckOK
  <2> QED
    BY <2>2, <2>3, <2>5, <2>6, AckMoves DEF Safe
<1>3. CASE SendAck(t)
  <2>1. PICK m : m = Packet(Home[t], hand[t].src, AckTag(call[t]), "ack", hand[t].id)
    OBVIOUS
  <2>2. /\ pc[t] = "ack"
        /\ expected' = Append(expected, m)
        /\ pc' = [pc EXCEPT ![t] = "idle"]
        /\ UNCHANGED <<call, calls, hand, unexpected, fetched, completed, failed>>
    BY <1>3, <2>1 DEF SendAck, Goto, past, trouble
  <2>3. pc'[t] = "idle" /\ \A u \in Threads \ {t} : pc'[u] = pc[u]
    BY <2>2 DEF TypeInv, TypeOK
  <2>4. m \in Packets /\ m.id = hand[t].id /\ Holds(t)
    <3>1. m \in Packets /\ m.id = hand[t].id
      BY <2>1, <2>2, AckTyped DEF Packet
    <3>2. Holds(t)
      BY <2>2 DEF Safe, KeyInv, HandOK
    <3> QED
      BY <3>1, <3>2
  <2>5. \A id \in Ids : Once(id) => Once(id)' /\ (UnderWay(id)' => UnderWay(id))
    BY <2>2, <2>3, <2>4, HandToNet
  <2>6. OnceInv'
    BY <2>2, <2>3, <2>5, OnceMoves DEF Safe
  <2>7. AckOK(t)'
    BY <2>3 DEF AckOK
  <2> QED
    BY <2>2, <2>3, <2>6, <2>7, AckMoves DEF Safe
<1>4. CASE Post(t) \/ AckArrived(t) \/ Received(t) \/ Get(t)
  <2>1. /\ UNCHANGED <<call, calls, hand, unexpected, expected, failed>>
        /\ \E l \in {"idle", "send", "wait", "get", "ack"} : pc' = [pc EXCEPT ![t] = l]
    BY <1>4 DEF Post, AckArrived, Received, Get, Goto, net, trouble
  <2>2. /\ pc[t] = "ackwait" => hand[t] # Nothing
        /\ pc[t] # "idle" /\ pc[t] # "send"
        /\ fetched \subseteq fetched'
        /\ completed' = completed \/ (pc[t] = "ackwait" /\ completed' = completed \cup {Id(t)})
    BY <1>4 DEF Post, AckArrived, Received, Get, past
  <2>3. /\ pc'[t] \in {"idle", "send", "wait", "get", "ack"}
        /\ \A u \in Threads \ {t} : pc'[u] = pc[u]
    BY <2>1 DEF TypeInv, TypeOK
  <2>4. /\ pc'[t] \in {"get", "ack"} => Holds(t)
        /\ pc'[t] \in {"send", "wait"} => hand[t] = Nothing
    <3>1. CASE Post(t)
      <4>1. pc[t] = "post" /\ pc'[t] \in {"send", "wait"}
        BY <3>1 DEF Post, Goto, TypeInv, TypeOK
      <4> QED
        BY <4>1 DEF Safe, PostInv
    <3>2. CASE AckArrived(t)
      <4>1. pc'[t] = "idle"
        BY <3>2 DEF AckArrived, Goto, TypeInv, TypeOK
      <4> QED
        BY <4>1
    <3>3. CASE Received(t)
      <4>1. /\ pc[t] = "wait"
            /\ pc'[t] = IF hand[t].body = "large" THEN "get" ELSE "idle"
        BY <3>3 DEF Received, Goto, TypeInv, TypeOK
      <4> QED
        BY <4>1 DEF Holds
    <3>4. CASE Get(t)
      <4>1. pc[t] = "get" /\ pc'[t] = "ack"
        BY <3>4 DEF Get, Goto, TypeInv, TypeOK
      <4> QED
        BY <4>1 DEF Safe, KeyInv, HandOK
    <3> QED
      BY <1>4, <3>1, <3>2, <3>3, <3>4
  <2>5. \A id : \A u \in Threads : Hand(u, id)' => Hand(u, id)
    BY <2>1, <2>3, <2>4 DEF Hand, Holds, Nothing
  <2>6. \A id \in Ids : Once(id) => Once(id)' /\ (UnderWay(id)' => UnderWay(id))
    BY <2>1, <2>5, SameNet, OnceSame
  <2>7. OnceInv'
    BY <2>1, <2>2, <2>3, <2>6, OnceMoves DEF Safe
  <2>8. AckOK(t)'
    BY <2>1, <2>3, <2>4 DEF AckOK
  <2>9. \A id \in completed' : id \in completed \/ (Sound(id[1]) => id \in fetched)
    BY <2>2 DEF Safe, AckInv, AckOK, Id
  <2> QED
    BY <2>1, <2>2, <2>3, <2>7, <2>8, <2>9, AckMoves DEF Safe
<1>5. QED
  BY <1>1, <1>2, <1>3, <1>4 DEF Step

(***************************************************************************)
(* A ULT of which a call fails is promised nothing any more.               *)
(***************************************************************************)
LEMMA FailSafe ==
  ASSUME TypeInv, Safe, UNCHANGED plan, NEW t \in Threads, CallFails(t) \/ ReceiveFails(t)
  PROVE  OnceInv' /\ AckInv'
<1>1. /\ failed' = failed \cup {Id(t)}
      /\ pc' = [pc EXCEPT ![t] = "idle"]
      /\ UNCHANGED <<call, calls, hand, unexpected, expected, fetched, completed>>
  BY DEF CallFails, ReceiveFails, Fail, Goto, net, past
<1>2. pc'[t] = "idle" /\ \A u \in Threads \ {t} : pc'[u] = pc[u]
  BY <1>1 DEF TypeInv, TypeOK
<1>3. ~ Sound(t)'
  <2>1. Id(t) \in failed' /\ Id(t)[1] = t
    BY <1>1 DEF Id
  <2> QED
    BY <2>1 DEF Sound
<1>4. \A id : \A u \in Threads : Hand(u, id)' => Hand(u, id)
  BY <1>1, <1>2 DEF Hand, Holds
<1>5. \A id \in Ids : Once(id) => Once(id)' /\ (UnderWay(id)' => UnderWay(id))
  BY <1>1, <1>4, SameNet, OnceSame
<1>6. OnceInv'
  BY <1>1, <1>2, <1>3, <1>5, OnceMoves DEF Safe
<1>7. AckOK(t)'
  BY <1>2 DEF AckOK
<1>8. QED
  BY <1>1, <1>2, <1>6, <1>7, AckMoves DEF Safe

LEMMA MatchSafe ==
  ASSUME TypeInv, Safe, Distinct(plan), UNCHANGED plan, Match
  PROVE  OnceInv' /\ AckInv'
<1>1. UNCHANGED <<pc, call, calls, unexpected, fetched, completed, failed>>
  BY DEF Match, ults, past, trouble
<1>2. PICK i \in 1..Len(expected), j \in 1..Len(posted) :
        /\ Fits(posted[j], expected[i])
        /\ expected' = RemoveAt(expected, i)
        /\ hand' = IF Stale(posted[j]) THEN hand
                   ELSE [hand EXCEPT ![posted[j].owner[1]] = expected[i]]
  BY DEF Match, OldestFor
<1>3. CASE Stale(posted[j])
  <2>1. hand' = hand
    BY <1>2, <1>3
  <2>2. \A id : \A u \in Threads : Hand(u, id)' => Hand(u, id)
    BY <1>1, <2>1 DEF Hand, Holds
  <2>3. \A id \in Ids : Once(id) => Once(id)' /\ (UnderWay(id)' => UnderWay(id))
    BY <1>1, <1>2, <2>2, NetToHand
  <2>4. OnceInv'
    BY <1>1, <2>1, <2>3, OnceMoves DEF Safe
  <2> QED
    BY <1>1, <2>1, <2>4, AckMoves DEF Safe
<1>4. CASE ~ Stale(posted[j])
  <2>1. PICK p, m : p = posted[j] /\ m = expected[i]
    OBVIOUS
  <2>2. PICK r : r = p.owner[1]
    OBVIOUS
  <2>3. p \in ToSet(posted) /\ Awaited(p) /\ m \in ToSet(expected) /\ m \in Packets /\ Fits(p, m)
    BY <1>2, <1>4, <2>1, PostedTyped, ElementsOf, NetTyped, LiveOwner DEF Safe
  <2>4. /\ r \in Threads /\ p = Receive(r, PostTag(call[r]))
        /\ pc[r] \in {"send", "ackwait", "wait"} /\ hand[r] = Nothing
        /\ pc[r] = "send" => IsLarge(call[r])
    BY <2>2, <2>3 DEF Awaited
  <2>5. /\ hand'[r] = m
        /\ \A u \in Threads \ {r} : hand'[u] = hand[u]
    BY <1>2, <1>4, <2>1, <2>2, <2>4 DEF TypeInv, TypeOK
  <2>6. \A id : \A u \in Threads : Hand(u, id)' => Hand(u, id) \/ (u = r /\ Net(i, id))
    BY <1>1, <2>1, <2>5 DEF Hand, Holds, Net
  <2>7. \A id \in Ids : Once(id) =>
          /\ Once(id)' /\ (UnderWay(id)' => UnderWay(id))
          /\ Net(i, id) /\ UnderWay(id)' => Hand(r, id)'
    BY <1>1, <1>2, <2>6, NetToHand
  <2>8. CASE pc[r] = "wait"
    <3>1. OnceInv'
      BY <1>1, <2>4, <2>5, <2>7, <2>8, OnceMoves DEF Safe
    <3>2. AckOK(r)'
      BY <1>1, <2>8 DEF AckOK
    <3> QED
      BY <1>1, <2>5, <3>1, <3>2, AckMoves DEF Safe
  <2>9. CASE pc[r] \in {"send", "ackwait"}
    <3>1. IsLarge(call[r])
      BY <2>4, <2>9 DEF TypeInv, CallOK
    <3>2. m.body = "ack" /\ m.id[1] = r /\ m.id \in fetched /\ m.id \in Ids
      <4>1. m.body = "ack" /\ m.id[1] = r /\ m.id \in fetched
        BY <2>3, <2>4, <2>9, <3>1, OwnAcknowledgement DEF Safe
      <4> QED
        BY <2>3, <4>1 DEF Packets
    <3>3. Net(i, m.id)
      BY <2>1, <3>2 DEF Net
    <3>4. Sound(r) => Once(m.id) /\ Exposed(m.id)
      BY <3>2, <3>3 DEF Safe, OnceInv, UnderWay
    <3>5. Sound(r) => pc[r] = "ackwait" /\ m.id = Id(r)
      <4>1. m.id = <<m.id[1], m.id[2]>>
        BY <3>2, CallsTyped
      <4> QED
        BY <3>2, <3>4, <4>1 DEF Exposed, Id
    <3>6. ASSUME NEW id \in Ids, id[1] = r, Sound(r)
          PROVE  Once(id)' /\ ~ UnderWay(id)'
      <4>1. Once(id) /\ (UnderWay(id) => Exposed(id))
        BY <3>6 DEF Safe, OnceInv
      <4>2. Exposed(id) => id = m.id
        <5>1. id = <<id[1], id[2]>>
          BY CallsTyped
        <5> QED
          BY <3>5, <3>6, <5>1 DEF Exposed, Id
      <4>3. ~ Hand(r, id)'
        BY <1>1, <2>9 DEF Hand, Holds
      <4> QED
        BY <2>7, <3>3, <4>1, <4>2, <4>3
    <3>7. ASSUME NEW id \in Ids, Sound(id[1])'
          PROVE  Once(id)' /\ (UnderWay(id)' => Exposed(id)' /\ hand'[id[1]] = Nothing)
      <4>1. Sound(id[1]) /\ id[1] \in Threads
        BY <1>1, <3>7, CallsTyped DEF Sound
      <4>2. CASE id[1] = r
        BY <3>6, <4>1, <4>2
      <4>3. CASE id[1] # r
        <5>1. Once(id) /\ (UnderWay(id) => Exposed(id) /\ hand[id[1]] = Nothing)
          BY <4>1 DEF Safe, OnceInv
        <5> QED
          BY <1>1, <2>5, <2>7, <4>1, <4>3, <5>1 DEF Exposed
      <4> QED
        BY <4>2, <4>3
    <3>8. OnceInv'
      BY <3>7, SamePlan DEF OnceInv
    <3>9. AckOK(r)'
      BY <1>1, <2>5, <3>2, <3>5 DEF AckOK, Sound, Id
    <3> QED
      BY <1>1, <2>5, <3>8, <3>9, AckMoves DEF Safe
  <2> QED
    BY <2>4, <2>8, <2>9
<1>5. QED
  BY <1>3, <1>4

LEMMA DropSafe ==
  ASSUME TypeInv, Safe, UNCHANGED plan, Drop \/ Cancelled
  PROVE  OnceInv' /\ AckInv'
<1>1. UNCHANGED <<pc, call, calls, hand, unexpected, fetched, completed, failed>>
  BY DEF Drop, Cancelled, ults, past, trouble
<1>2. expected' = expected \/ \E i \in 1..Len(expected) : expected' = RemoveAt(expected, i)
  BY DEF Drop, Cancelled
<1>3. \A id : \A u \in Threads : Hand(u, id)' => Hand(u, id)
  BY <1>1 DEF Hand, Holds
<1>4. ASSUME NEW id \in Ids, Once(id)
      PROVE  Once(id)' /\ (UnderWay(id)' => UnderWay(id))
  <2>1. CASE expected' = expected
    BY <1>1, <1>3, <1>4, <2>1, SameNet, OnceSame
  <2>2. CASE \E i \in 1..Len(expected) : expected' = RemoveAt(expected, i)
    BY <1>1, <1>3, <1>4, <2>2, NetToHand
  <2> QED
    BY <1>2, <2>1, <2>2
<1>5. OnceInv'
  BY <1>1, <1>4, OnceMoves DEF Safe
<1>6. QED
  BY <1>1, <1>5, AckMoves DEF Safe

-----------------------------------------------------------------------------
(***************************************************************************)
(* The invariant: what does not depend on the tags, and what does.         *)
(***************************************************************************)
SafeInv ==
  /\ TypeInv /\ PostInv /\ KeyInv
  /\ Distinct(plan) => OnceInv /\ AckInv

LEMMA SafeInvNext == SafeInv /\ [Next]_vars => SafeInv'
<1> SUFFICES ASSUME SafeInv, [Next]_vars PROVE SafeInv'
  OBVIOUS
<1>1. TypeInv' /\ PostInv'
  BY TypeInvNext, PostInvNext DEF SafeInv
<1>2. CASE UNCHANGED vars
  <2>1. /\ UNCHANGED <<plan, pc, call, calls, hand, unexpected, expected>>
        /\ UNCHANGED <<fetched, completed, failed>>
    BY <1>2 DEF vars, state, ults, net, past, trouble
  <2>2. KeyInv'
    BY <2>1, KeyMoves DEF SafeInv
  <2>3. Distinct(plan) => OnceInv' /\ AckInv'
    <3>1. \A id : \A u \in Threads : Hand(u, id)' => Hand(u, id)
      BY <2>1 DEF Hand, Holds
    <3>2. \A id \in Ids : Once(id) => Once(id)' /\ (UnderWay(id)' => UnderWay(id))
      BY <2>1, <3>1, SameNet, OnceSame
    <3> QED
      BY <2>1, <3>2, OnceMoves, AckMoves DEF SafeInv
  <2> QED
    BY <1>1, <2>1, <2>2, <2>3 DEF SafeInv, Distinct
<1>3. CASE Next
  <2>1. plan' = plan
    BY <1>3 DEF Next
  <2>2. KeyInv'
    BY <1>3, <2>1, EnterKey, StepKey, FailKey, NAKey DEF SafeInv, Next
  <2>3. Distinct(plan) => OnceInv' /\ AckInv'
    BY <1>3, <2>1, EnterSafe, StepSafe, FailSafe, MatchSafe, DropSafe
       DEF SafeInv, Safe, Next
  <2>4. Distinct(plan)' <=> Distinct(plan)
    BY <2>1 DEF Distinct
  <2> QED
    BY <1>1, <2>2, <2>3, <2>4 DEF SafeInv
<1>4. QED
  BY <1>2, <1>3

LEMMA SafeInvariant == Spec => []SafeInv
<1>1. Init => SafeInv
  BY TypeInvInit, PostInvInit, KeyInvInit, OnceInit DEF SafeInv
<1>2. QED
  BY <1>1, SafeInvNext, PTL DEF Spec

(***************************************************************************)
(* OwnAck of Transfer: if the tags are distinct, mona_wait on the          *)
(* acknowledgement's request ends with the acknowledgement of the message  *)
(* just sent, and with no other.                                           *)
(***************************************************************************)
THEOREM AcknowledgedByOwn == Spec => [](Distinct(plan) => OwnAck)
<1>1. SafeInv => (Distinct(plan) => OwnAck)
  BY DEF SafeInv, AckInv, AckOK, OwnAck
<1>2. QED
  BY <1>1, SafeInvariant, PTL

(***************************************************************************)
(* ReadBeforeReturn of Transfer: if the tags are distinct, mona_send and   *)
(* mona_usend of a large message return NA_SUCCESS after the peer has read *)
(* the data.                                                               *)
(***************************************************************************)
THEOREM DataReadBeforeReturn == Spec => [](Distinct(plan) => ReadBeforeReturn)
<1>1. SafeInv => (Distinct(plan) => ReadBeforeReturn)
  BY DEF SafeInv, AckInv
<1>2. QED
  BY <1>1, SafeInvariant, PTL

(***************************************************************************)
(* SourceStable of Transfer: if the tags are distinct, the buffer of a     *)
(* large message stays registered, and the call that sends it stays in     *)
(* MoNA, as long as a peer may read it.                                    *)
(***************************************************************************)
THEOREM BufferOutlivesReads == Spec => [](Distinct(plan) => SourceStable)
<1>1. SafeInv => (Distinct(plan) => SourceStable)
  <2> SUFFICES ASSUME SafeInv, Distinct(plan), NEW m \in Advertised, Sound(m.id[1])
               PROVE  Exposed(m.id)
    BY DEF SourceStable
  <2>1. m \in Packets /\ m.body = "large" /\ UnderWay(m.id)
    <3>1. CASE \E n \in Nodes : m \in ToSet(unexpected[n])
      <4>1. PICK n \in Nodes : m \in ToSet(unexpected[n])
        BY <3>1
      <4>2. /\ m \in Packets
            /\ \E i \in 1..Len(unexpected[n]) : m = unexpected[n][i]
        BY <4>1, NetTyped, ElementsOf DEF SafeInv
      <4>3. m.body = "large"
        BY DEF Advertised
      <4> QED
        BY <4>2, <4>3 DEF UnderWay, Box
    <3>2. CASE m \in ToSet(expected)
      <4>1. /\ m \in Packets
            /\ \E i \in 1..Len(expected) : m = expected[i]
        BY <3>2, NetTyped, ElementsOf DEF SafeInv
      <4>2. m.body = "large"
        BY DEF Advertised
      <4> QED
        BY <4>1, <4>2 DEF UnderWay, Net
    <3>3. CASE \E t \in Threads : pc[t] \in {"wait", "get"} /\ m = hand[t]
      <4>1. PICK t \in Threads : pc[t] \in {"wait", "get"} /\ m = hand[t]
        BY <3>3
      <4>2. m.body = "large"
        BY DEF Advertised
      <4>3. m \in Packets
        BY <4>1, <4>2 DEF SafeInv, TypeInv, TypeOK, Nothing
      <4> QED
        BY <4>1, <4>2, <4>3 DEF UnderWay, Hand, Holds
    <3>4. \/ \E n \in Nodes : m \in ToSet(unexpected[n])
          \/ m \in ToSet(expected)
          \/ \E t \in {u \in Threads : pc[u] \in {"wait", "get"}} : m = hand[t]
      <4> DEFINE boxes == {ToSet(unexpected[n]) : n \in Nodes}
                 held  == {hand[t] : t \in {u \in Threads : pc[u] \in {"wait", "get"}}}
      <4>1. m \in UNION boxes \/ m \in ToSet(expected) \/ m \in held
        BY Zenon DEF Advertised
      <4>2. m \in UNION boxes => \E n \in Nodes : m \in ToSet(unexpected[n])
        <5>1. m \in UNION boxes => \E b \in boxes : m \in b
          BY Zenon
        <5> QED
          BY <5>1
      <4> QED
        BY <4>1, <4>2
    <3> QED
      BY <3>1, <3>2, <3>3, <3>4
  <2>2. m.id \in Ids
    BY <2>1 DEF Packets
  <2> QED
    BY <2>1, <2>2 DEF SafeInv, OnceInv
<1>2. QED
  BY <1>1, SafeInvariant, PTL

-----------------------------------------------------------------------------
(***************************************************************************)
(* A sender that still waits for its acknowledgement has its receive in    *)
(* NA, whatever the tags are.                                              *)
(***************************************************************************)
Waits(t) == pc[t] \in {"send", "ackwait"} /\ IsLarge(call[t]) /\ hand[t] = Nothing

ReadyInv ==
  \A t \in Threads : Waits(t) => Receive(t, PostTag(call[t])) \in ToSet(posted)

(***************************************************************************)
(* It is enough that no step takes the receive of a sender that waits.     *)
(***************************************************************************)
LEMMA ReadyMoves ==
  ASSUME ReadyInv,
         \A t \in Threads :
           \/ ~ Waits(t)'
           \/ /\ Waits(t) /\ call'[t] = call[t] /\ calls'[t] = calls[t]
              /\ \/ posted' = posted
                 \/ Receive(t, PostTag(call[t])) \in ToSet(posted) =>
                      Receive(t, PostTag(call[t])) \in ToSet(posted')
           \/ Receive(t, PostTag(call[t]))' \in ToSet(posted')
  PROVE  ReadyInv'
<1>1. ASSUME NEW t \in Threads, Waits(t)'
      PROVE  Receive(t, PostTag(call[t]))' \in ToSet(posted')
  <2>1. CASE Waits(t) /\ call'[t] = call[t] /\ calls'[t] = calls[t]
    <3>1. Receive(t, PostTag(call[t]))' = Receive(t, PostTag(call[t]))
      BY <2>1 DEF Receive, Id
    <3>2. Receive(t, PostTag(call[t])) \in ToSet(posted)
      BY <2>1 DEF ReadyInv
    <3> QED
      BY <1>1, <3>1, <3>2
  <2> QED
    BY <1>1, <2>1
<1>2. QED
  BY <1>1 DEF ReadyInv

(***************************************************************************)
(* The receive leaves that of another call, or of a call that is over.     *)
(***************************************************************************)
LEMMA OtherReceive ==
  ASSUME TypeInv, NEW j \in 1..Len(posted), posted' = RemoveAt(posted, j),
         NEW t \in Threads, posted[j].owner # Id(t),
         Receive(t, PostTag(call[t])) \in ToSet(posted)
  PROVE  Receive(t, PostTag(call[t])) \in ToSet(posted')
<1>1. Receive(t, PostTag(call[t])).owner = Id(t)
  BY DEF Receive
<1>2. PICK r : r = Receive(t, PostTag(call[t]))
  OBVIOUS
<1>3. r \in ToSet(posted) /\ r # posted[j]
  BY <1>1, <1>2
<1>4. r \in ToSet(posted')
  BY <1>3, PostedTyped, StillElement
<1>5. QED
  BY <1>2, <1>4

LEMMA ReadyInit == Init => ReadyInv
BY DEF Init, ReadyInv, Waits

LEMMA ReadyNext ==
  ASSUME TypeInv, PostInv, ReadyInv, [Next]_vars
  PROVE  ReadyInv'
<1>1. CASE UNCHANGED vars
  <2>1. UNCHANGED <<pc, call, calls, hand, posted>>
    BY <1>1 DEF vars, state, ults, net
  <2>2. \A t \in Threads : Waits(t)' => Waits(t)
    BY <2>1 DEF Waits
  <2> QED
    BY <2>1, <2>2, ReadyMoves
<1>2. ASSUME NEW t \in Threads, Enter(t) PROVE ReadyInv'
  <2>1. /\ call'[t].op = "send" /\ pc'[t] = "send" => ~ Posts(call'[t])
        /\ pc'[t] # "ackwait"
        /\ \A u \in Threads \ {t} : pc'[u] = pc[u] /\ call'[u] = call[u]
                                    /\ calls'[u] = calls[u] /\ hand'[u] = hand[u]
        /\ posted' = posted
    <3>1. PICK c : /\ call' = [call EXCEPT ![t] = c]
                   /\ pc' = [pc EXCEPT ![t] = IF Posts(c) THEN "post"
                                              ELSE IF c.op = "send" THEN "send" ELSE "take"]
      BY <1>2 DEF Enter, Goto
    <3>2. /\ call'[t] = c
          /\ pc'[t] = IF Posts(c) THEN "post" ELSE IF c.op = "send" THEN "send" ELSE "take"
          /\ \A u \in Threads \ {t} : pc'[u] = pc[u] /\ call'[u] = call[u]
      BY <3>1 DEF TypeInv, TypeOK
    <3>3. /\ \A u \in Threads \ {t} : calls'[u] = calls[u] /\ hand'[u] = hand[u]
          /\ posted' = posted
      BY <1>2 DEF Enter, net, TypeInv, TypeOK
    <3> QED
      BY <3>2, <3>3
  <2>2. ~ Waits(t)'
    BY <2>1 DEF Waits, IsLarge, Posts
  <2>3. \A u \in Threads \ {t} : Waits(u)' => Waits(u)
    BY <2>1 DEF Waits
  <2> QED
    BY <2>1, <2>2, <2>3, ReadyMoves
<1>3. ASSUME NEW t \in Threads, Step(t) \/ CallFails(t) PROVE ReadyInv'
  <2>1. CASE Post(t)
    <3>1. PICK r : r = Receive(t, PostTag(call[t]))
      OBVIOUS
    <3>2. /\ pc[t] = "post" /\ posted' = Append(posted, r)
          /\ UNCHANGED <<call, calls, hand>>
          /\ \A u \in Threads \ {t} : pc'[u] = pc[u]
      BY <2>1, <3>1 DEF Post, Goto, TypeInv, TypeOK
    <3>3. r \in Receipts
      BY <3>1, <3>2, ReceiveTyped DEF Receipts
    <3>4. ToSet(posted') = ToSet(posted) \cup {r}
      BY <3>2, <3>3, PostedTyped, AppendElements
    <3>5. Receive(t, PostTag(call[t]))' = r
      BY <3>1, <3>2 DEF Receive, Id
    <3>6. \A u \in Threads \ {t} : Waits(u)' => Waits(u)
      BY <3>2 DEF Waits
    <3> QED
      BY <3>2, <3>4, <3>5, <3>6, ReadyMoves
  <2>2. CASE Take(t)
    <3>1. /\ pc[t] = "take" /\ UNCHANGED <<call, calls, posted>>
          /\ \E l \in {"get", "idle"} : pc' = [pc EXCEPT ![t] = l]
          /\ \E m : hand' = [hand EXCEPT ![t] = m]
      BY <2>2 DEF Take, Goto
    <3>2. /\ pc'[t] \in {"get", "idle"}
          /\ \A u \in Threads \ {t} : pc'[u] = pc[u] /\ hand'[u] = hand[u]
      BY <3>1 DEF TypeInv, TypeOK
    <3>3. \A u \in Threads : Waits(u)' => Waits(u)
      BY <3>1, <3>2 DEF Waits
    <3> QED
      BY <3>1, <3>3, ReadyMoves
  <2>3. CASE Send(t) \/ AckArrived(t) \/ Received(t) \/ Get(t) \/ SendAck(t) \/ CallFails(t)
    <3>1. /\ UNCHANGED <<call, calls, hand, posted>>
          /\ \E l \in {"idle", "ackwait", "get", "ack"} :
               /\ pc' = [pc EXCEPT ![t] = l]
               /\ l = "ackwait" => pc[t] = "send"
      BY <2>3 DEF Send, AckArrived, Received, Get, SendAck, CallFails, Goto, net
    <3>2. /\ pc'[t] \in {"send", "ackwait"} => pc[t] \in {"send", "ackwait"}
          /\ \A u \in Threads \ {t} : pc'[u] = pc[u]
      BY <3>1 DEF TypeInv, TypeOK
    <3>3. \A u \in Threads : Waits(u)' => Waits(u)
      BY <3>1, <3>2 DEF Waits
    <3> QED
      BY <3>1, <3>3, ReadyMoves
  <2> QED
    BY <1>3, <2>1, <2>2, <2>3 DEF Step
<1>4. ASSUME NEW t \in Threads, ReceiveFails(t) PROVE ReadyInv'
  <2>1. PICK j \in 1..Len(posted) : posted[j].owner = Id(t) /\ posted' = RemoveAt(posted, j)
    BY <1>4 DEF ReceiveFails
  <2>2. /\ UNCHANGED <<call, calls, hand>>
        /\ pc'[t] = "idle" /\ \A u \in Threads \ {t} : pc'[u] = pc[u]
    BY <1>4 DEF ReceiveFails, Goto, TypeInv, TypeOK
  <2>3. \A u \in Threads \ {t} : posted[j].owner # Id(u)
    BY <2>1 DEF Id
  <2>4. ~ Waits(t)' /\ \A u \in Threads \ {t} : Waits(u)' => Waits(u)
    BY <2>2 DEF Waits
  <2> QED
    BY <2>1, <2>2, <2>3, <2>4, OtherReceive, ReadyMoves
<1>5. CASE Match
  <2>1. PICK i \in 1..Len(expected), j \in 1..Len(posted) :
          /\ posted' = RemoveAt(posted, j)
          /\ hand' = IF Stale(posted[j]) THEN hand
                     ELSE [hand EXCEPT ![posted[j].owner[1]] = expected[i]]
    BY <1>5 DEF Match
  <2>2. UNCHANGED <<pc, call, calls>>
    BY <1>5 DEF Match, ults
  <2>3. expected[i] \in Packets
    BY NetTyped
  <2>4. PICK m : m = expected[i]
    OBVIOUS
  <2>5. m # Nothing
    BY <2>3, <2>4 DEF Packets, Nothing
  <2>6. PICK p : p = posted[j]
    OBVIOUS
  <2>7. ASSUME NEW u \in Threads, Waits(u)'
        PROVE  Waits(u) /\ p.owner # Id(u)
    <3>1. CASE Stale(p)
      <4>1. Waits(u)
        BY <2>1, <2>2, <2>6, <2>7, <3>1 DEF Waits
      <4>2. p.owner = Id(u) => ~ Stale(p)
        BY <4>1 DEF Stale, Id, Waits
      <4> QED
        BY <3>1, <4>1, <4>2
    <3>2. CASE ~ Stale(p)
      <4>1. Awaited(p)
        BY <2>6, <3>2, LiveOwner, PostedTyped, ElementsOf
      <4>2. hand[p.owner[1]] = Nothing /\ p.owner[1] \in Threads
        BY <4>1, AwaitedOwner
      <4>3. /\ hand'[p.owner[1]] = m
            /\ \A x \in Threads \ {p.owner[1]} : hand'[x] = hand[x]
        BY <2>1, <2>4, <2>6, <3>2, <4>2 DEF TypeInv, TypeOK
      <4>4. u # p.owner[1]
        BY <2>5, <2>7, <4>3 DEF Waits
      <4>5. Waits(u)
        BY <2>2, <2>7, <4>3, <4>4 DEF Waits
      <4>6. p.owner # Id(u)
        BY <4>4 DEF Id
      <4> QED
        BY <4>5, <4>6
    <3> QED
      BY <3>1, <3>2
  <2> QED
    BY <2>1, <2>2, <2>6, <2>7, OtherReceive, ReadyMoves
<1>6. CASE Drop
  <2>1. UNCHANGED <<pc, call, calls, hand, posted>>
    BY <1>6 DEF Drop, ults
  <2>2. \A t \in Threads : Waits(t)' => Waits(t)
    BY <2>1 DEF Waits
  <2> QED
    BY <2>1, <2>2, ReadyMoves
<1>7. CASE Cancelled
  <2>1. PICK j \in 1..Len(posted) : Stale(posted[j]) /\ posted' = RemoveAt(posted, j)
    BY <1>7 DEF Cancelled
  <2>2. UNCHANGED <<pc, call, calls, hand>>
    BY <1>7 DEF Cancelled, ults
  <2>3. \A u \in Threads : Waits(u)' => Waits(u) /\ posted[j].owner # Id(u)
    BY <2>1, <2>2 DEF Waits, Stale, Id
  <2> QED
    BY <2>1, <2>2, <2>3, OtherReceive, ReadyMoves
<1>8. QED
  BY <1>1, <1>2, <1>3, <1>4, <1>5, <1>6, <1>7 DEF Next

(***************************************************************************)
(* An acknowledgement to a ULT of which no call failed is the only message *)
(* of its source and tag to its process, and that ULT's receive is there.  *)
(***************************************************************************)
LEMMA OneReceivable ==
  ASSUME SafeInv, ReadyInv, Distinct(plan),
         NEW m \in ToSet(expected), m.body = "ack", Sound(m.id[1])
  PROVE  /\ \E i \in 1..Len(expected) :
              \A k \in 1..Len(expected) :
                /\ expected[k].src = m.src /\ expected[k].dst = m.dst
                /\ expected[k].tag = m.tag
                => k = i
         /\ \E j \in 1..Len(posted) : Fits(posted[j], m)
<1> DEFINE t == m.id[1]
<1>1. /\ TypeInv /\ PostInv /\ KeyInv /\ OnceInv
      /\ m \in Packets /\ m.id \in Ids /\ t \in Threads
  BY NetTyped, PacketTyped DEF SafeInv, Packets
<1>2. PICK i \in 1..Len(expected) : m = expected[i]
  BY <1>1, NetTyped, ElementsOf
<1>3. ASSUME NEW k \in 1..Len(expected),
             expected[k].body = "ack" /\ expected[k].id[1] = t
      PROVE  /\ Net(k, expected[k].id) /\ expected[k].id = Id(t)
             /\ pc[t] = "ackwait" /\ hand[t] = Nothing /\ Once(Id(t))
  <2>1. PICK x : x = expected[k]
    OBVIOUS
  <2>2. x \in Packets /\ x.id \in Ids /\ x.body = "ack" /\ x.id[1] = t
    BY <1>1, <1>3, <2>1, NetTyped DEF Packets
  <2>3. Net(k, x.id) /\ k \in Nat
    BY <2>1, <2>2 DEF Net
  <2>4. Exposed(x.id) /\ hand[t] = Nothing /\ Once(x.id)
    BY <1>1, <2>2, <2>3 DEF OnceInv, UnderWay
  <2>5. x.id = <<t, calls[t]>> /\ pc[t] = "ackwait"
    BY <1>1, <2>2, <2>4, CallsTyped DEF Exposed
  <2> QED
    BY <2>1, <2>3, <2>4, <2>5 DEF Id
<1>4. m.id = Id(t) /\ pc[t] = "ackwait" /\ hand[t] = Nothing /\ Once(Id(t)) /\ Net(i, Id(t))
  BY <1>2, <1>3
<1>5. IsLarge(call[t])
  BY <1>1, <1>4 DEF TypeInv, CallOK
<1>6. PICK r : r = Receive(t, PostTag(call[t]))
  OBVIOUS
<1>7. r \in ToSet(posted)
  BY <1>1, <1>4, <1>5, <1>6 DEF ReadyInv, Waits
<1>8. Fits(r, m)
  <2>1. ~ SentOn(m, "expected")
    BY DEF SentOn
  <2>2. Acknowledges(m)
    BY <1>1, <2>1 DEF KeyInv
  <2>3. PICK d \in plan.may[t] :
          /\ MadeBy(m.id, d) /\ m.src = d.peer /\ m.dst = Home[t] /\ m.tag = AckTag(d)
    BY <2>2 DEF Acknowledges
  <2>4. d = call[t]
    <3>1. m.id[2] = calls[t]
      BY <1>4 DEF Id
    <3> QED
      BY <2>3, <3>1 DEF MadeBy
  <2> QED
    BY <1>5, <1>6, <2>3, <2>4 DEF Fits, Receive, PostTag
<1>9. ASSUME NEW k \in 1..Len(expected),
             expected[k].src = m.src, expected[k].dst = m.dst, expected[k].tag = m.tag
      PROVE  k = i
  <2>1. PICK x : x = expected[k]
    OBVIOUS
  <2>2. x \in ToSet(expected) /\ Fits(r, x)
    BY <1>1, <1>8, <1>9, <2>1, NetTyped DEF Fits
  <2>3. x.body = "ack" /\ x.id[1] = t
    BY <1>1, <1>4, <1>5, <1>6, <2>2, OwnAcknowledgement
  <2>4. Net(k, Id(t))
    BY <1>3, <2>1, <2>3
  <2> QED
    BY <1>4, <2>4 DEF Once
<1>10. \E j \in 1..Len(posted) : Fits(posted[j], m)
  BY <1>1, <1>7, <1>8, PostedTyped, ElementsOf
<1>11. QED
  BY <1>9, <1>10

(***************************************************************************)
(* AcksReceivable of Transfer: if the tags are distinct, NA has a receive  *)
(* for every acknowledgement, posted before the message was sent, as       *)
(* mona.h:1049-1051 asks of who receives an expected message.              *)
(***************************************************************************)
THEOREM AcknowledgementsReceivable == Spec => [](Distinct(plan) => AcksReceivable)
<1>1. Init => SafeInv /\ ReadyInv
  BY TypeInvInit, PostInvInit, KeyInvInit, OnceInit, ReadyInit DEF SafeInv
<1>2. SafeInv /\ ReadyInv /\ [Next]_vars => (SafeInv /\ ReadyInv)'
  BY SafeInvNext, ReadyNext DEF SafeInv
<1>3. SafeInv /\ ReadyInv => (Distinct(plan) => AcksReceivable)
  <2> SUFFICES ASSUME SafeInv, ReadyInv, Distinct(plan),
                      NEW m \in ToSet(expected), m.body = "ack", Sound(m.id[1])
               PROVE  Cardinality({k \in 1..Len(expected) :
                                     /\ expected[k].src = m.src
                                     /\ expected[k].dst = m.dst
                                     /\ expected[k].tag = m.tag})
                        <= Cardinality({j \in 1..Len(posted) : Fits(posted[j], m)})
    BY DEF AcksReceivable
  <2> DEFINE same == {k \in 1..Len(expected) :
                        /\ expected[k].src = m.src
                        /\ expected[k].dst = m.dst
                        /\ expected[k].tag = m.tag}
             fit  == {j \in 1..Len(posted) : Fits(posted[j], m)}
  <2>1. PICK i \in 1..Len(expected) :
          \A k \in 1..Len(expected) :
            /\ expected[k].src = m.src /\ expected[k].dst = m.dst
            /\ expected[k].tag = m.tag
            => k = i
    BY OneReceivable
  <2>2. PICK j \in 1..Len(posted) : Fits(posted[j], m)
    BY OneReceivable
  <2>3. same \subseteq {i} /\ {j} \subseteq fit
    BY <2>1, <2>2
  <2>4. IsFiniteSet(fit) /\ fit \subseteq 1..Len(posted)
    <3>1. Len(posted) \in Nat
      BY PostedTyped, LenProperties DEF SafeInv
    <3>2. IsFiniteSet(1..Len(posted))
      BY <3>1, FS_Interval
    <3>3. fit \subseteq 1..Len(posted)
      OBVIOUS
    <3> HIDE DEF fit
    <3> QED
      BY <3>2, <3>3, FS_Subset
  <2> HIDE DEF same, fit
  <2>5. /\ Cardinality(same) <= 1 /\ IsFiniteSet(same)
        /\ 1 <= Cardinality(fit)
    <3>1. /\ IsFiniteSet({i}) /\ Cardinality({i}) = 1
          /\ IsFiniteSet({j}) /\ Cardinality({j}) = 1
      BY FS_Singleton
    <3>2. IsFiniteSet(same) /\ Cardinality(same) <= 1
      BY <2>3, <3>1, FS_Subset
    <3>3. 1 <= Cardinality(fit)
      BY <2>3, <2>4, <3>1, FS_Subset
    <3> QED
      BY <3>2, <3>3
  <2>6. Cardinality(same) \in Nat /\ Cardinality(fit) \in Nat
    BY <2>4, <2>5, FS_CardinalityType
  <2>7. Cardinality(same) <= Cardinality(fit)
    BY <2>5, <2>6
  <2> QED
    BY <2>7 DEF same, fit
<1>4. QED
  BY <1>1, <1>2, <1>3, PTL DEF Spec

=============================================================================

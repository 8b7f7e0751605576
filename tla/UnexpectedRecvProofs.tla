------------------------ MODULE UnexpectedRecvProofs ------------------------
(***************************************************************************)
(* Theorems about UnexpectedRecv, for every set of ULTs, every bound on    *)
(* the messages and every bound on the failures; and that it implements    *)
(* Mailbox.                                                                *)
(***************************************************************************)
EXTENDS UnexpectedRecv, SequenceLemmas

(***************************************************************************)
(* Removing an element keeps a sequence of numbers increasing.             *)
(***************************************************************************)
LEMMA RemoveAtSorted ==
  ASSUME NEW S, S \subseteq Int, NEW s \in Seq(S), NEW i \in 1..Len(s),
         \A j, k \in 1..Len(s) : j < k => s[j] < s[k],
         NEW r, r = s \/ r = RemoveAt(s, i)
  PROVE  /\ Len(r) <= Len(s)
         /\ \A j \in 1..Len(r) : \E k \in 1..Len(s) : r[j] = s[k]
         /\ \A j, k \in 1..Len(r) : j < k => r[j] < r[k]
<1>1. CASE r = s
  BY <1>1
<1>2. CASE r = RemoveAt(s, i)
  <2>1. Len(r) = Len(s) - 1 /\ Len(s) \in Nat
    BY <1>2, RemoveAtProperties
  <2>2. \A j \in 1..Len(r) : r[j] = IF j < i THEN s[j] ELSE s[j + 1]
    <3>1. \A j \in 1..(Len(s) - 1) :
            RemoveAt(s, i)[j] = IF j < i THEN s[j] ELSE s[j + 1]
      BY RemoveAtProperties
    <3> QED
      BY <1>2, <2>1, <3>1
  <2>3. \A j \in 1..Len(r) : \E k \in 1..Len(s) :
          r[j] = s[k] /\ k = IF j < i THEN j ELSE j + 1
    BY <2>1, <2>2
  <2>4. ASSUME NEW j \in 1..Len(r), NEW k \in 1..Len(r), j < k
        PROVE  r[j] < r[k]
    <3>1. PICK x \in 1..Len(s) : r[j] = s[x] /\ x = IF j < i THEN j ELSE j + 1
      BY <2>3
    <3>2. PICK y \in 1..Len(s) : r[k] = s[y] /\ y = IF k < i THEN k ELSE k + 1
      BY <2>3
    <3>3. x < y
      BY <2>1, <2>4, <3>1, <3>2
    <3> QED
      BY <3>1, <3>2, <3>3
  <2> QED
    BY <2>1, <2>3, <2>4
<1> QED
  BY <1>1, <1>2

(***************************************************************************)
(* Removing position i of a sequence without repetition removes exactly    *)
(* the element at i.                                                       *)
(***************************************************************************)
Distinct(s) == \A j, k \in 1..Len(s) : s[j] = s[k] => j = k

HoldsAllBut(r, s, i) ==
  \A m : (\E j \in 1..Len(r) : r[j] = m)
          <=> (\E k \in 1..Len(s) : s[k] = m) /\ m # s[i]

LEMMA RemoveAtKeepsRest ==
  ASSUME NEW S, NEW s \in Seq(S), NEW i \in 1..Len(s), Distinct(s)
  PROVE  /\ Distinct(RemoveAt(s, i))
         /\ HoldsAllBut(RemoveAt(s, i), s, i)
<1> DEFINE r == RemoveAt(s, i)
<1>1. Len(r) = Len(s) - 1 /\ Len(s) \in Nat
  BY RemoveAtProperties
<1>2. \A j \in 1..(Len(s) - 1) :
        r[j] = IF j < i THEN s[j] ELSE s[j + 1]
  BY RemoveAtProperties
<1> HIDE DEF r
<1>3. \A j \in 1..Len(r) : \E k \in 1..Len(s) :
        r[j] = s[k] /\ k # i /\ k = IF j < i THEN j ELSE j + 1
  BY <1>1, <1>2
<1>4. \A k \in 1..Len(s) : k # i => \E j \in 1..Len(r) : r[j] = s[k]
  <2> SUFFICES ASSUME NEW k \in 1..Len(s), k # i
               PROVE  \E j \in 1..Len(r) : r[j] = s[k]
    OBVIOUS
  <2>1. CASE k < i
    BY <1>1, <1>2, <2>1
  <2>2. CASE k > i
    <3>1. k - 1 \in 1..Len(r) /\ ~ (k - 1 < i)
      BY <1>1, <2>2
    <3>2. r[k - 1] = s[(k - 1) + 1]
      BY <1>1, <1>2, <3>1
    <3> QED
      BY <3>1, <3>2
  <2> QED
    BY <2>1, <2>2
<1>5. ASSUME NEW j \in 1..Len(r), NEW k \in 1..Len(r), r[j] = r[k]
      PROVE  j = k
  <2>1. PICK x \in 1..Len(s) : r[j] = s[x] /\ x = IF j < i THEN j ELSE j + 1
    BY <1>3
  <2>2. PICK y \in 1..Len(s) : r[k] = s[y] /\ y = IF k < i THEN k ELSE k + 1
    BY <1>3
  <2>3. x = y
    BY <1>5, <2>1, <2>2 DEF Distinct
  <2> QED
    BY <1>1, <2>1, <2>2, <2>3
<1>6. \A j \in 1..Len(r) : r[j] # s[i]
  BY <1>3 DEF Distinct
<1>7. Distinct(r)
  BY ONLY <1>5 DEF Distinct
<1>8. ASSUME NEW m, NEW j \in 1..Len(r), r[j] = m
      PROVE  (\E k \in 1..Len(s) : s[k] = m) /\ m # s[i]
  <2>1. m # s[i]
    BY <1>6, <1>8
  <2>2. PICK k \in 1..Len(s) : r[j] = s[k]
    BY <1>3
  <2> QED
    BY <1>8, <2>1, <2>2
<1>9. ASSUME NEW m, NEW k \in 1..Len(s), s[k] = m, m # s[i]
      PROVE  \E j \in 1..Len(r) : r[j] = m
  <2>1. k # i
    BY <1>9
  <2> QED
    BY <1>4, <1>9, <2>1
<1>10. HoldsAllBut(r, s, i)
  BY ONLY <1>8, <1>9 DEF HoldsAllBut
<1> QED
  BY <1>7, <1>10 DEF r

(***************************************************************************)
(* The shared receive and the local messages: a receive is posted exactly  *)
(* while it has a request, its message is there exactly when it is done,   *)
(* and a call holds a message only between finding it and returning it.    *)
(***************************************************************************)
HandsOK ==
  /\ prob_active <=> prob_req # "null"
  /\ prob_msg # NoMessage <=> prob_req = "done"
  /\ \A t \in Threads :
       /\ got[t] # NoMessage =>
            pc[t] \in {"deliver", "enqueue", "notify", "return", "peek"}
       /\ pc[t] \in {"deliver", "enqueue", "peek"} => got[t] # NoMessage

TypeInv == TypeOK /\ HandsOK

LEMMA TypeInvariant == Spec => []TypeInv
<1>1. Init => TypeInv
  <2> SUFFICES ASSUME Init
               PROVE  TypeInv
    OBVIOUS
  <2>1. arrived \in Seq(Message) /\ Len(arrived) = 0 /\ pending \in Seq(1..MaxMessages)
    BY EmptySeq DEF Init
  <2>2. pc \in [Threads -> Location] /\ call \in [Threads -> Call \cup {NoCall}]
    BY DEF Init, Location
  <2>3. prob_active \in BOOLEAN /\ queue_active \in BOOLEAN /\ locked \in BOOLEAN
    BY DEF Init
  <2>4. Len(arrived) <= MaxMessages
    BY <2>1, ConstantsAssumption
  <2>5. taken \in 0..Len(arrived)
    BY <2>1 DEF Init
  <2>6. /\ got \in [Threads -> 0..MaxMessages]
        /\ prob_msg \in 0..MaxMessages
        /\ failures \in 0..MaxFailures
        /\ stale \in [Threads -> 0..MaxMessages]
    BY ConstantsAssumption DEF Init, NoMessage
  <2>7. TypeOK
    BY <2>1, <2>2, <2>3, <2>4, <2>5, <2>6 DEF Init, TypeOK
  <2>8. HandsOK
    BY DEF Init, HandsOK, NoMessage
  <2> QED
    BY <2>7, <2>8 DEF TypeInv
<1>2. TypeInv /\ [Next]_vars => TypeInv'
  <2> SUFFICES ASSUME TypeInv, [Next]_vars
               PROVE  TypeInv'
    OBVIOUS
  <2> USE ConstantsAssumption DEF TypeInv, TypeOK, HandsOK, na, prob, left, NoMessage
  <2>1. CASE Arrive
    BY <2>1, AppendProperties DEF Arrive
  <2>2. CASE Complete
    BY <2>2 DEF Complete
  <2>3. CASE CompleteFails
    BY <2>3 DEF CompleteFails
  <2>4. ASSUME NEW t \in Threads, Enter(t)
        PROVE  TypeInv'
    BY <2>4 DEF Enter, Goto, Location
  <2>5. ASSUME NEW t \in Threads, Lock(t)
        PROVE  TypeInv'
    BY <2>5 DEF Lock, Goto, Location
  <2>6. ASSUME NEW t \in Threads, SearchHit(t)
        PROVE  TypeInv'
    <3>1. PICK i \in 1..Len(pending) :
            /\ got' = [got EXCEPT ![t] = pending[i]]
            /\ pending' = IF IsProbe(t) THEN pending ELSE RemoveAt(pending, i)
      BY <2>6 DEF SearchHit
    <3>2. pending[i] \in 1..MaxMessages
      BY ElementOfSeq
    <3>3. pending' \in Seq(1..MaxMessages)
      BY <3>1, RemoveAtProperties
    <3>4. pc[t] = "search" /\ (Goto(t, "peek") \/ Goto(t, "return"))
      BY <2>6 DEF SearchHit
    <3>5. UNCHANGED <<na, prob, queue_active, call, consumed, failures, left>> /\ locked' = FALSE
      BY <2>6 DEF SearchHit
    <3>6. pc' \in [Threads -> Location] /\ got' \in [Threads -> 0..MaxMessages]
      <4>1. PICK l \in Location : Goto(t, l)
        BY <3>4 DEF Location
      <4>2. pc' \in [Threads -> Location]
        BY <4>1 DEF Goto
      <4>3. got' \in [Threads -> 0..MaxMessages]
        BY <3>1, <3>2
      <4> QED
        BY <4>2, <4>3
    <3>7. TypeOK'
      BY <3>3, <3>5, <3>6
    <3>8. HandsOK'
      BY <3>1, <3>2, <3>4, <3>5 DEF Goto, Location
    <3> QED
      BY <3>7, <3>8
  <2>7. ASSUME NEW t \in Threads, SearchMiss(t)
        PROVE  TypeInv'
    BY <2>7 DEF SearchMiss, Goto, Location
  <2>8. ASSUME NEW t \in Threads, Decide(t)
        PROVE  TypeInv'
    BY <2>8 DEF Decide, Goto, Location
  <2>9. ASSUME NEW t \in Threads, Relock(t)
        PROVE  TypeInv'
    BY <2>9 DEF Relock, Goto, Location
  <2>10. ASSUME NEW t \in Threads, Recheck(t)
        PROVE  TypeInv'
    BY <2>10 DEF Recheck, Goto, Location
  <2>11. ASSUME NEW t \in Threads, Claim(t)
        PROVE  TypeInv'
    BY <2>11 DEF Claim, Goto, Location
  <2>12. ASSUME NEW t \in Threads, Post(t)
        PROVE  TypeInv'
    BY <2>12 DEF Post, Goto, Location
  <2>13. ASSUME NEW t \in Threads, PostFails(t)
        PROVE  TypeInv'
    BY <2>13 DEF PostFails, Goto, Location
  <2>14. ASSUME NEW t \in Threads, Test(t)
        PROVE  TypeInv'
    BY <2>14 DEF Test, Goto, Location
  <2>15. ASSUME NEW t \in Threads, Reap(t)
        PROVE  TypeInv'
    <3>1. /\ pc[t] = "wait"
          /\ Goto(t, "deliver") \/ Goto(t, "enqueue")
          /\ prob_req = "done"
          /\ got' = [got EXCEPT ![t] = prob_msg]
          /\ stale' = [stale EXCEPT ![t] = 0]
      BY <2>15 DEF Reap
    <3>2. /\ prob_active' = FALSE
          /\ prob_req' = "null"
          /\ prob_msg' = 0
      BY <2>15 DEF Reap
    <3>3. UNCHANGED <<na, pending, queue_active, locked, call, consumed, failures, recycled>>
      BY <2>15 DEF Reap
    <3>4. pc' \in [Threads -> Location] /\ got' \in [Threads -> 0..MaxMessages]
      <4>1. PICK l \in Location : Goto(t, l)
        BY <3>1 DEF Location
      <4>2. pc' \in [Threads -> Location]
        BY <4>1 DEF Goto
      <4>3. got' \in [Threads -> 0..MaxMessages]
        BY <3>1
      <4> QED
        BY <4>2, <4>3
    <3>5. prob_active' \in BOOLEAN /\ prob_msg' \in 0..MaxMessages
      <4>1. prob_active' \in BOOLEAN
        BY <3>2
      <4>2. prob_msg' \in 0..MaxMessages
        BY <3>2
      <4> QED
        BY <4>1, <4>2
    <3>6. TypeOK'
      <4>1. stale' \in [Threads -> 0..MaxMessages]
        BY <3>1
      <4> QED
        BY <3>2, <3>3, <3>4, <3>5, <4>1
    <3>7. HandsOK'
      BY <3>1, <3>2 DEF Goto, Location
    <3> QED
      BY <3>6, <3>7
  <2>16. ASSUME NEW t \in Threads, ReapFails(t)
        PROVE  TypeInv'
    BY <2>16 DEF ReapFails, Goto, Location
  <2>17. ASSUME NEW t \in Threads, Deliver(t)
        PROVE  TypeInv'
    BY <2>17 DEF Deliver, Goto, Location
  <2>18. ASSUME NEW t \in Threads, Enqueue(t)
        PROVE  TypeInv'
    BY <2>18, AppendProperties DEF Enqueue, Goto, Location
  <2>19. ASSUME NEW t \in Threads, Notify(t)
        PROVE  TypeInv'
    BY <2>19 DEF Notify, Broadcast, Location
  <2>20. ASSUME NEW t \in Threads, Error(t)
        PROVE  TypeInv'
    BY <2>20 DEF Error, Goto, Location
  <2>21. ASSUME NEW t \in Threads, Recycle(t)
        PROVE  TypeInv'
    <3>1. stale[t] \in 1..MaxMessages
      BY <2>21 DEF Recycle
    <3>2. recycled' \subseteq 1..MaxMessages
      BY <2>21, <3>1 DEF Recycle
    <3>3. TypeOK'
      BY <2>21, <3>2 DEF Recycle, Goto, Location
    <3>4. HandsOK'
      BY <2>21 DEF Recycle, Goto
    <3> QED
      BY <3>3, <3>4
  <2>22. ASSUME NEW t \in Threads, GiveUp(t)
        PROVE  TypeInv'
    BY <2>22 DEF GiveUp, Broadcast, Location
  <2>23. ASSUME NEW t \in Threads, Peek(t)
        PROVE  TypeInv'
    BY <2>23 DEF Peek, Goto, Location
  <2>24. ASSUME NEW t \in Threads, Return(t)
        PROVE  TypeInv'
    <3>1. /\ pc[t] = "return"
          /\ Goto(t, "lock") \/ Goto(t, "idle")
          /\ call' = call \/ call' = [call EXCEPT ![t] = NoCall]
          /\ got' = [got EXCEPT ![t] = 0]
          /\ stale' = [stale EXCEPT ![t] = 0]
      BY <2>24 DEF Return
    <3>2. UNCHANGED <<na, prob, pending, queue_active, locked, failures, recycled>>
      BY <2>24 DEF Return
    <3>3. consumed' \subseteq 1..MaxMessages
      <4>1. {got[t]} \ {0} \subseteq 1..MaxMessages
        OBVIOUS
      <4> QED
        BY <2>24, <4>1 DEF Return
    <3>4. TypeOK'
      BY <3>1, <3>2, <3>3 DEF Goto, Location
    <3>5. HandsOK'
      BY <3>1, <3>2 DEF Goto, Location
    <3> QED
      BY <3>4, <3>5
  <2>25. CASE UNCHANGED vars
    BY <2>25 DEF vars
  <2> QED
    BY <2>1, <2>2, <2>3, <2>4, <2>5, <2>6, <2>7, <2>8, <2>9, <2>10, <2>11, <2>12, <2>13, <2>14, <2>15, <2>16, <2>17, <2>18, <2>19, <2>20, <2>21, <2>22, <2>23, <2>24, <2>25 DEF Next, Locking, Running
<1> QED
  BY <1>1, <1>2, PTL DEF Spec

(***************************************************************************)
(* Every variable keeps its type; in particular the queue only ever holds  *)
(* messages, although the error paths and the probes leave NULL in msg.    *)
(***************************************************************************)
THEOREM TypeCorrect == Spec => []TypeOK
  BY TypeInvariant, PTL DEF TypeInv

(***************************************************************************)
(* Who holds the mutex and who listens, as long as no NA operation failed. *)
(* A failure ends the argument: its error path unlocks a mutex it does not *)
(* hold and leaves queue_active set with nobody listening.                 *)
(***************************************************************************)
NoError ==
  /\ prob_req # "failed"
  /\ \A t \in Threads : pc[t] \notin {"error", "giveup"}

SectionsLocked ==
  \A t \in Threads : InSection(t) => locked

ClaimIsFree ==
  \A t \in Threads : pc[t] = "claim" => queue_active = FALSE

ListenerSets ==
  \A t \in Threads : Listening(t) => queue_active

ListenerInv ==
  /\ NoError
  /\ SectionsLocked
  /\ MutualExclusion
  /\ ClaimIsFree
  /\ ListenerSets
  /\ OneListener
  /\ ActiveMeansListener

LEMMA ListenerInvariant == Spec => [](failures = 0 => ListenerInv)
<1>1. Init => ListenerInv
  BY DEF Init, ListenerInv, NoError, SectionsLocked, MutualExclusion,
         ClaimIsFree, ListenerSets, OneListener, ActiveMeansListener,
         InSection, Listening
<1>2. TypeInv /\ (failures = 0 => ListenerInv) /\ [Next]_vars
        => (failures = 0 => ListenerInv)'
  <2> SUFFICES ASSUME TypeInv, failures = 0 => ListenerInv, [Next]_vars,
                      failures' = 0
               PROVE  ListenerInv'
    OBVIOUS
  <2>0. failures = 0
    BY DEF TypeInv, TypeOK, Next, vars, Locking, Running, Arrive, Complete, CompleteFails,
           Enter, Lock, SearchHit, SearchMiss, Decide, Relock, Recheck, Claim, Post, PostFails, Test, Reap, ReapFails, Deliver, Enqueue, Notify, Error, Recycle, GiveUp, Peek, Return
  <2> USE <2>0 DEF TypeInv, TypeOK, ListenerInv, NoError, SectionsLocked, MutualExclusion,
                   ClaimIsFree, ListenerSets, OneListener, ActiveMeansListener,
                   InSection, Listening, IsProbe, na, prob, Goto
  <2>1. CASE Arrive
    BY <2>1 DEF Arrive
  <2>2. CASE Complete
    BY <2>2 DEF Complete
  <2>3. CASE CompleteFails
    BY <2>3 DEF CompleteFails
  <2>4. ASSUME NEW t \in Threads, Enter(t)
        PROVE  ListenerInv'
    BY <2>4 DEF Enter
  <2>5. ASSUME NEW t \in Threads, Lock(t)
        PROVE  ListenerInv'
    BY <2>5 DEF Lock
  <2>6. ASSUME NEW t \in Threads, SearchHit(t)
        PROVE  ListenerInv'
    BY <2>6 DEF SearchHit
  <2>7. ASSUME NEW t \in Threads, SearchMiss(t)
        PROVE  ListenerInv'
    BY <2>7 DEF SearchMiss
  <2>8. ASSUME NEW t \in Threads, Decide(t)
        PROVE  ListenerInv'
    <3>1. pc[t] = "decide" /\ UNCHANGED <<prob, queue_active, call, got>>
      BY <2>8 DEF Decide
    <3>2. CASE queue_active
      <4>1. locked' = FALSE /\ pc' = [pc EXCEPT ![t] = "waiting"]
        BY <2>8, <3>2 DEF Decide
      <4> QED
        BY <3>1, <4>1
    <3>3. CASE ~ queue_active
      <4>1. queue_active = FALSE
        BY <3>3
      <4>2. locked' = locked /\ pc' = [pc EXCEPT ![t] = "claim"]
        BY <2>8, <4>1 DEF Decide
      <4> QED
        BY <3>1, <4>1, <4>2
    <3> QED
      BY <3>2, <3>3
  <2>9. ASSUME NEW t \in Threads, Relock(t)
        PROVE  ListenerInv'
    BY <2>9 DEF Relock
  <2>10. ASSUME NEW t \in Threads, Recheck(t)
        PROVE  ListenerInv'
    BY <2>10 DEF Recheck
  <2>11. ASSUME NEW t \in Threads, Claim(t)
        PROVE  ListenerInv'
    BY <2>11 DEF Claim
  <2>12. ASSUME NEW t \in Threads, Post(t)
        PROVE  ListenerInv'
    BY <2>12 DEF Post
  <2>13. ASSUME NEW t \in Threads, PostFails(t)
        PROVE  ListenerInv'
    BY <2>13 DEF PostFails
  <2>14. ASSUME NEW t \in Threads, Test(t)
        PROVE  ListenerInv'
    <3>1. pc[t] = "test" /\ UNCHANGED <<prob, locked, call, got>>
      BY <2>14 DEF Test
    <3>2. CASE prob_req = "pending"
      <4>1. queue_active' = FALSE /\ pc' = [pc EXCEPT ![t] = "return"]
        BY <2>14, <3>2 DEF Test
      <4> QED
        BY <3>1, <4>1
    <3>3. CASE prob_req # "pending"
      <4>1. queue_active' = queue_active /\ pc' = [pc EXCEPT ![t] = "wait"]
        BY <2>14, <3>3 DEF Test
      <4> QED
        BY <3>1, <4>1
    <3> QED
      BY <3>2, <3>3
  <2>15. ASSUME NEW t \in Threads, Reap(t)
        PROVE  ListenerInv'
    BY <2>15 DEF Reap
  <2>16. ASSUME NEW t \in Threads, ReapFails(t)
        PROVE  ListenerInv'
    BY <2>16 DEF ReapFails
  <2>17. ASSUME NEW t \in Threads, Deliver(t)
        PROVE  ListenerInv'
    <3>1. /\ pc[t] = "deliver"
          /\ queue_active' = FALSE
          /\ pc' = [pc EXCEPT ![t] = "notify"]
          /\ UNCHANGED <<prob, locked, call, got>>
      BY <2>17 DEF Deliver
    <3>2. got[t] # NoMessage
      BY <3>1 DEF TypeInv, HandsOK
    <3> QED
      BY <3>1, <3>2
  <2>18. ASSUME NEW t \in Threads, Enqueue(t)
        PROVE  ListenerInv'
    BY <2>18 DEF Enqueue
  <2>19. ASSUME NEW t \in Threads, Notify(t)
        PROVE  ListenerInv'
    <3>1. /\ pc[t] = "notify"
          /\ UNCHANGED <<prob, queue_active, locked, call, got>>
      BY <2>19 DEF Notify
    <3>2. CASE IsProbe(t) \/ got[t] # NoMessage
      <4>1. Broadcast(t, "return")
        BY <2>19, <3>2 DEF Notify
      <4> QED
        BY <3>1, <3>2, <4>1 DEF Broadcast
    <3>3. CASE ~ IsProbe(t) /\ got[t] = NoMessage
      <4>1. Broadcast(t, "post")
        BY <2>19, <3>3 DEF Notify
      <4> QED
        BY <3>1, <3>3, <4>1 DEF Broadcast
    <3> QED
      BY <3>2, <3>3
  <2>20. ASSUME NEW t \in Threads, Error(t)
        PROVE  ListenerInv'
    BY <2>20 DEF Error
  <2>21. ASSUME NEW t \in Threads, Recycle(t)
        PROVE  ListenerInv'
    BY <2>21 DEF Recycle
  <2>22. ASSUME NEW t \in Threads, GiveUp(t)
        PROVE  ListenerInv'
    BY <2>22 DEF GiveUp, Broadcast
  <2>23. ASSUME NEW t \in Threads, Peek(t)
        PROVE  ListenerInv'
    BY <2>23 DEF Peek
  <2>24. ASSUME NEW t \in Threads, Return(t)
        PROVE  ListenerInv'
    <3>1. /\ pc[t] = "return"
          /\ got' = [got EXCEPT ![t] = NoMessage]
          /\ UNCHANGED <<prob, queue_active, locked>>
          /\ call' = call \/ call' = [call EXCEPT ![t] = NoCall]
      BY <2>24 DEF Return
    <3>2. PICK l \in {"lock", "idle"} : pc' = [pc EXCEPT ![t] = l]
      BY <2>24 DEF Return
    <3>3. \A u \in Threads \ {t} : call'[u] = call[u] /\ got'[u] = got[u]
      BY <3>1
    <3> QED
      BY <3>1, <3>2, <3>3
  <2>25. CASE UNCHANGED vars
    BY <2>25 DEF vars
  <2> QED
    BY <2>1, <2>2, <2>3, <2>4, <2>5, <2>6, <2>7, <2>8, <2>9, <2>10, <2>11, <2>12, <2>13, <2>14, <2>15, <2>16, <2>17, <2>18, <2>19, <2>20, <2>21, <2>22, <2>23, <2>24, <2>25 DEF Next, Locking, Running
<1> QED
  BY <1>1, <1>2, TypeInvariant, PTL DEF Spec

(***************************************************************************)
(* pending_msg_mtx protects the queue while no NA operation has failed.    *)
(***************************************************************************)
THEOREM QueueProtected == Spec => [](failures = 0 => MutualExclusion)
  BY ListenerInvariant, PTL DEF ListenerInv

(***************************************************************************)
(* At most one ULT posts, tests, waits for and reaps the shared receive,   *)
(* although no mutex is held there, while no NA operation has failed.      *)
(***************************************************************************)
THEOREM SoleListener == Spec => [](failures = 0 => OneListener)
  BY ListenerInvariant, PTL DEF ListenerInv

(***************************************************************************)
(* A ULT that reads queue_active under the mutex and finds it set may rely *)
(* on a listener, while no NA operation has failed.                        *)
(***************************************************************************)
THEOREM ActiveHasListener == Spec => [](failures = 0 => ActiveMeansListener)
  BY ListenerInvariant, PTL DEF ListenerInv

-----------------------------------------------------------------------------
(***************************************************************************)
(* The order of the queue: what is in it, then what the listener holds,    *)
(* then the posted receive, then what NA still has.                        *)
(***************************************************************************)
Bounded ==
  /\ prob_msg <= taken
  /\ \A t \in Threads : got[t] <= taken
  /\ \A i \in 1..Len(pending) : pending[i] <= taken

HolderReaped ==
  \A t \in Threads : pc[t] \in {"deliver", "enqueue"} => prob_req = "null"

OrderInv == ArrivalOrder /\ Bounded /\ HolderReaped

LEMMA OrderInvariant == Spec => [](failures = 0 => OrderInv)
<1>1. Init => OrderInv
  BY DEF Init, OrderInv, ArrivalOrder, Bounded, HolderReaped, NoMessage
<1>2. /\ TypeInv
      /\ failures = 0 => ListenerInv
      /\ failures = 0 => OrderInv
      /\ [Next]_vars
      => (failures = 0 => OrderInv)'
  <2> SUFFICES ASSUME TypeInv, failures = 0 => ListenerInv,
                      failures = 0 => OrderInv, [Next]_vars, failures' = 0
               PROVE  OrderInv'
    OBVIOUS
  <2>0. failures = 0
    BY DEF TypeInv, TypeOK, Next, vars, Locking, Running, Arrive, Complete,
           CompleteFails, Enter, Lock, SearchHit, SearchMiss, Decide, Relock, Recheck, Claim, Post, PostFails, Test, Reap, ReapFails, Deliver, Enqueue, Notify, Error, Recycle, GiveUp, Peek, Return
  <2> USE <2>0 DEF TypeInv, TypeOK, HandsOK, OrderInv, ArrivalOrder, Bounded,
                   HolderReaped, ListenerInv, OneListener, Listening, NoMessage,
                   na, prob, Goto
  <2>1. CASE Arrive
    BY <2>1 DEF Arrive
  <2>2. CASE Complete
    <3>1. /\ prob_req = "pending" /\ prob_req' = "done"
          /\ taken' = taken + 1 /\ prob_msg' = taken + 1
          /\ UNCHANGED <<pending, pc, got>>
      BY <2>2 DEF Complete
    <3>2. \A u \in Threads : pc[u] \notin {"deliver", "enqueue"}
      BY <3>1
    <3>3. \A i \in 1..Len(pending) : pending[i] \in 1..MaxMessages
      BY ElementOfSeq
    <3>4. ArrivalOrder'
      BY <3>1, <3>2, <3>3
    <3>5. Bounded' /\ HolderReaped'
      BY <3>1, <3>2, <3>3
    <3> QED
      BY <3>4, <3>5
  <2>3. CASE CompleteFails
    BY <2>3 DEF CompleteFails
  <2>4. ASSUME NEW t \in Threads, Enter(t)
        PROVE  OrderInv'
    BY <2>4 DEF Enter
  <2>5. ASSUME NEW t \in Threads, Lock(t)
        PROVE  OrderInv'
    BY <2>5 DEF Lock
  <2>6. ASSUME NEW t \in Threads, SearchHit(t)
        PROVE  OrderInv'
    <3>1. PICK i \in 1..Len(pending) :
            /\ got' = [got EXCEPT ![t] = pending[i]]
            /\ pending' = IF IsProbe(t) THEN pending ELSE RemoveAt(pending, i)
      BY <2>6 DEF SearchHit
    <3>2. /\ pc[t] = "search" /\ UNCHANGED <<taken, prob_req, prob_msg>>
          /\ \E l \in {"peek", "return"} : pc' = [pc EXCEPT ![t] = l]
      BY <2>6 DEF SearchHit
    <3>3. \A j \in 1..Len(pending) : pending[j] \in 1..MaxMessages
      BY ElementOfSeq
    <3>4. \A u \in Threads : pc'[u] = "enqueue" => pc[u] = "enqueue" /\ got'[u] = got[u]
      BY <3>1, <3>2
    <3>5. /\ Len(pending') <= Len(pending)
          /\ \A j \in 1..Len(pending') : \E k \in 1..Len(pending) : pending'[j] = pending[k]
          /\ \A j, k \in 1..Len(pending') : j < k => pending'[j] < pending'[k]
      <4>1. pending \in Seq(1..MaxMessages) /\ 1..MaxMessages \subseteq Int
        OBVIOUS
      <4>2. \A j, k \in 1..Len(pending) : j < k => pending[j] < pending[k]
        OBVIOUS
      <4>3. pending' = pending \/ pending' = RemoveAt(pending, i)
        BY <3>1
      <4> QED
        BY ONLY <4>1, <4>2, <4>3, RemoveAtSorted, i \in 1..Len(pending)
    <3>6. ArrivalOrder'
      <4>1. prob_msg' # NoMessage =>
              \A j \in 1..Len(pending') : pending'[j] < prob_msg'
        BY <3>2, <3>5
      <4>2. \A j \in 1..Len(pending'), u \in Threads :
              pc'[u] = "enqueue" => pending'[j] < got'[u]
        <5> SUFFICES ASSUME NEW j \in 1..Len(pending'), NEW u \in Threads,
                            pc'[u] = "enqueue"
                     PROVE  pending'[j] < got'[u]
          OBVIOUS
        <5>1. PICK k \in 1..Len(pending) : pending'[j] = pending[k]
          BY <3>5
        <5>2. pc[u] = "enqueue" /\ got'[u] = got[u]
          BY <3>4
        <5> QED
          BY <5>1, <5>2
      <4> QED
        BY <3>5, <4>1, <4>2
    <3>7. Bounded' /\ HolderReaped'
      BY <3>1, <3>2, <3>3, <3>5
    <3> QED
      BY <3>6, <3>7
  <2>7. ASSUME NEW t \in Threads, SearchMiss(t)
        PROVE  OrderInv'
    BY <2>7 DEF SearchMiss
  <2>8. ASSUME NEW t \in Threads, Decide(t)
        PROVE  OrderInv'
    BY <2>8 DEF Decide
  <2>9. ASSUME NEW t \in Threads, Relock(t)
        PROVE  OrderInv'
    BY <2>9 DEF Relock
  <2>10. ASSUME NEW t \in Threads, Recheck(t)
        PROVE  OrderInv'
    BY <2>10 DEF Recheck
  <2>11. ASSUME NEW t \in Threads, Claim(t)
        PROVE  OrderInv'
    BY <2>11 DEF Claim
  <2>12. ASSUME NEW t \in Threads, Post(t)
        PROVE  OrderInv'
    BY <2>12 DEF Post
  <2>13. ASSUME NEW t \in Threads, PostFails(t)
        PROVE  OrderInv'
    BY <2>13 DEF PostFails
  <2>14. ASSUME NEW t \in Threads, Test(t)
        PROVE  OrderInv'
    BY <2>14 DEF Test
  <2>15. ASSUME NEW t \in Threads, Reap(t)
        PROVE  OrderInv'
    BY <2>15 DEF Reap
  <2>16. ASSUME NEW t \in Threads, ReapFails(t)
        PROVE  OrderInv'
    BY <2>16 DEF ReapFails
  <2>17. ASSUME NEW t \in Threads, Deliver(t)
        PROVE  OrderInv'
    BY <2>17 DEF Deliver
  <2>18. ASSUME NEW t \in Threads, Enqueue(t)
        PROVE  OrderInv'
    BY <2>18, AppendProperties DEF Enqueue
  <2>19. ASSUME NEW t \in Threads, Notify(t)
        PROVE  OrderInv'
    BY <2>19 DEF Notify, Broadcast
  <2>20. ASSUME NEW t \in Threads, Error(t)
        PROVE  OrderInv'
    BY <2>20 DEF Error
  <2>21. ASSUME NEW t \in Threads, Recycle(t)
        PROVE  OrderInv'
    BY <2>21 DEF Recycle
  <2>22. ASSUME NEW t \in Threads, GiveUp(t)
        PROVE  OrderInv'
    BY <2>22 DEF GiveUp, Broadcast
  <2>23. ASSUME NEW t \in Threads, Peek(t)
        PROVE  OrderInv'
    BY <2>23 DEF Peek
  <2>24. ASSUME NEW t \in Threads, Return(t)
        PROVE  OrderInv'
    BY <2>24 DEF Return
  <2>25. CASE UNCHANGED vars
    BY <2>25 DEF vars
  <2> QED
    BY <2>1, <2>2, <2>3, <2>4, <2>5, <2>6, <2>7, <2>8, <2>9, <2>10, <2>11, <2>12, <2>13, <2>14, <2>15, <2>16, <2>17, <2>18, <2>19, <2>20, <2>21, <2>22, <2>23, <2>24, <2>25 DEF Next, Locking, Running
<1> QED
  BY <1>1, <1>2, TypeInvariant, ListenerInvariant, PTL DEF Spec

(***************************************************************************)
(* Messages stay in the order in which they arrived, from the wire to the  *)
(* queue, while no NA operation has failed: whoever listens, and whichever *)
(* call reaps the receive that a probe posted.                             *)
(***************************************************************************)
THEOREM QueueOrdered == Spec => [](failures = 0 => ArrivalOrder)
  BY OrderInvariant, PTL DEF OrderInv

-----------------------------------------------------------------------------
(***************************************************************************)
(* Where a message is, place by place: the conjuncts of ExactlyOnce as    *)
(* facts about pairs of places, and the bound that makes a new message new.*)
(***************************************************************************)
Holds(t, m) == got[t] = m /\ pc[t] # "peek"

Queued(m) == \E i \in 1..Len(pending) : pending[i] = m

NoRepeat == \A i, j \in 1..Len(pending) : pending[i] = pending[j] => i = j

Disjoint ==
  \A m \in 1..MaxMessages :
    /\ \A t, u \in Threads : Holds(t, m) /\ Holds(u, m) => t = u
    /\ \A t \in Threads : Holds(t, m) =>
         ~ Queued(m) /\ prob_msg # m /\ m \notin consumed
    /\ Queued(m) => prob_msg # m /\ m \notin consumed
    /\ prob_msg = m => m \notin consumed

Covered ==
  \A m \in 1..taken :
    \/ Queued(m)
    \/ prob_msg = m
    \/ m \in consumed
    \/ \E t \in Threads : Holds(t, m)

Old ==
  \A m \in 1..MaxMessages :
    Queued(m) \/ prob_msg = m \/ m \in consumed \/ (\E t \in Threads : Holds(t, m))
      => m <= taken

OnceInv == NoRepeat /\ Disjoint /\ Covered /\ Old

LEMMA OnceInvariant == Spec => []OnceInv
<1>1. Init => OnceInv
  BY DEF Init, OnceInv, NoRepeat, Disjoint, Covered, Old, Queued, Holds, NoMessage
<1>2. TypeInv /\ OnceInv /\ [Next]_vars => OnceInv'
  <2> SUFFICES ASSUME TypeInv, OnceInv, [Next]_vars
               PROVE  OnceInv'
    OBVIOUS
  <2>1. TypeOK /\ HandsOK /\ NoRepeat /\ Disjoint /\ Covered /\ Old
    BY DEF TypeInv, OnceInv
  <2>2. taken \in Nat /\ MaxMessages \in Nat /\ taken <= MaxMessages
    BY <2>1, ConstantsAssumption DEF TypeOK
  <2>3. ASSUME UNCHANGED <<taken, prob_msg, pending, consumed, got>>,
               \A u \in Threads : pc'[u] = "peek" <=> pc[u] = "peek"
        PROVE  OnceInv'
    <3>1. \A m : Queued(m)' <=> Queued(m)
      BY <2>3 DEF Queued
    <3>2. \A m : \A u \in Threads : Holds(u, m)' <=> Holds(u, m)
      BY <2>3 DEF Holds
    <3>3. NoRepeat'
      BY <2>1, <2>3 DEF NoRepeat
    <3> QED
      BY <2>1, <2>3, <3>1, <3>2, <3>3 DEF OnceInv, Disjoint, Covered, Old
  <2>4. CASE Arrive
    BY <2>3, <2>4 DEF Arrive, prob
  <2>5. CASE Complete
    <3>1. /\ prob_msg = NoMessage /\ taken < Len(arrived)
          /\ taken' = taken + 1 /\ prob_msg' = taken + 1
          /\ UNCHANGED <<pending, consumed, got, pc>>
      BY <2>1, <2>5 DEF Complete, HandsOK
    <3>2. \A m : Queued(m)' <=> Queued(m)
      BY <3>1 DEF Queued
    <3>3. \A m : \A u \in Threads : Holds(u, m)' <=> Holds(u, m)
      BY <3>1 DEF Holds
    <3>4. NoRepeat'
      BY <2>1, <3>1 DEF NoRepeat
    <3>5. taken + 1 \in 1..MaxMessages
      BY <2>1, <2>2, <3>1 DEF TypeOK
    <3>6. Disjoint'
      BY <2>1, <2>2, <3>1, <3>2, <3>3, <3>5 DEF Disjoint, Old
    <3>7. Covered'
      BY <2>1, <2>2, <3>1, <3>2, <3>3 DEF Covered, NoMessage
    <3>8. Old'
      BY <2>1, <2>2, <3>1, <3>2, <3>3 DEF Old
    <3> QED
      BY <3>4, <3>6, <3>7, <3>8 DEF OnceInv
  <2>6. CASE CompleteFails
    BY <2>3, <2>6 DEF CompleteFails, na
  <2>7. ASSUME NEW t \in Threads, Enter(t)
        PROVE  OnceInv'
    BY <2>1, <2>3, <2>7 DEF Enter, Goto, TypeOK, na, prob
  <2>8. ASSUME NEW t \in Threads, Lock(t)
        PROVE  OnceInv'
    BY <2>1, <2>3, <2>8 DEF Lock, Goto, TypeOK, na, prob
  <2>9. ASSUME NEW t \in Threads, SearchHit(t)
        PROVE  OnceInv'
    <3>1. PICK i \in 1..Len(pending) :
            /\ got' = [got EXCEPT ![t] = pending[i]]
            /\ pending' = IF IsProbe(t) THEN pending ELSE RemoveAt(pending, i)
      BY <2>9 DEF SearchHit
    <3>2. /\ pc[t] = "search"
          /\ pc' = [pc EXCEPT ![t] = IF IsProbe(t) THEN "peek" ELSE "return"]
          /\ UNCHANGED <<taken, prob_msg, consumed>>
      BY <2>9 DEF SearchHit, Goto, na, prob
    <3>3. got[t] = NoMessage /\ got \in [Threads -> 0..MaxMessages]
      BY <2>1, <3>2 DEF HandsOK, TypeOK
    <3>4. CASE IsProbe(t)
      <4>1. \A m : Queued(m)' <=> Queued(m)
        BY <3>1, <3>4 DEF Queued
      <4>2. \A m \in 1..MaxMessages : \A u \in Threads :
              Holds(u, m)' <=> Holds(u, m)
        BY <2>1, <3>1, <3>2, <3>3, <3>4 DEF Holds, NoMessage, TypeOK
      <4>3. NoRepeat'
        BY <2>1, <3>1, <3>4 DEF NoRepeat
      <4> QED
        BY <2>1, <2>2, <3>2, <4>1, <4>2, <4>3 DEF OnceInv, Disjoint, Covered, Old
    <3>5. CASE ~ IsProbe(t)
      <4> DEFINE m0 == pending[i]
      <4>1. pending' = RemoveAt(pending, i) /\ pending \in Seq(1..MaxMessages)
        BY <2>1, <3>1, <3>5 DEF TypeOK
      <4>2. /\ \A j, k \in 1..Len(pending') : pending'[j] = pending'[k] => j = k
            /\ \A m : (\E j \in 1..Len(pending') : pending'[j] = m)
                       <=> (\E k \in 1..Len(pending) : pending[k] = m) /\ m # pending[i]
        <5>1. Distinct(pending)
          BY <2>1 DEF NoRepeat, Distinct
        <5>2. Distinct(RemoveAt(pending, i)) /\ HoldsAllBut(RemoveAt(pending, i), pending, i)
          BY <4>1, <5>1, RemoveAtKeepsRest
        <5> QED
          BY <4>1, <5>2 DEF Distinct, HoldsAllBut
      <4>3. m0 \in 1..MaxMessages /\ Queued(m0)
        BY <4>1, ElementOfSeq DEF Queued
      <4>4. \A m \in 1..MaxMessages : \A u \in Threads :
              Holds(u, m)' <=> Holds(u, m) \/ (u = t /\ m = m0)
        <5>1. \A m \in 1..MaxMessages : Holds(t, m)' <=> m = m0
          BY <2>1, <3>1, <3>2, <3>3, <3>5 DEF Holds, TypeOK
        <5>2. \A m \in 1..MaxMessages : ~ Holds(t, m)
          BY <3>3 DEF Holds, NoMessage
        <5>3. \A u \in Threads \ {t} : got'[u] = got[u] /\ pc'[u] = pc[u]
          BY <2>1, <3>1, <3>2, <3>3 DEF Holds, TypeOK
        <5> SUFFICES ASSUME NEW m \in 1..MaxMessages, NEW u \in Threads
                     PROVE  Holds(u, m)' <=> Holds(u, m) \/ (u = t /\ m = m0)
          OBVIOUS
        <5>4. CASE u = t
          BY <5>1, <5>2, <5>4 DEF Holds
        <5>5. CASE u # t
          BY <5>3, <5>5 DEF Holds
        <5> QED
          BY <5>4, <5>5
      <4>5. NoRepeat' /\ \A m : Queued(m)' <=> Queued(m) /\ m # m0
        BY <4>2 DEF NoRepeat, Queued
      <4> HIDE DEF m0
      <4>6. Disjoint'
        BY <2>1, <3>2, <4>5, <4>3, <4>4 DEF Disjoint
      <4>7. Covered'
        <5> SUFFICES ASSUME NEW m \in 1..taken
                     PROVE  \/ Queued(m)' \/ prob_msg = m \/ m \in consumed
                            \/ \E u \in Threads : Holds(u, m)'
          BY <3>2 DEF Covered
        <5>1. m \in 1..MaxMessages
          BY <2>2
        <5>2. Queued(m) \/ prob_msg = m \/ m \in consumed \/ \E u \in Threads : Holds(u, m)
          BY <2>1 DEF Covered
        <5> QED
          BY <4>3, <4>5, <4>4, <5>1, <5>2 DEF Holds, Queued
      <4>8. Old'
        BY <2>1, <3>2, <4>5, <4>3, <4>4 DEF Old
      <4> QED
        BY <4>5, <4>6, <4>7, <4>8 DEF OnceInv
    <3> QED
      BY <3>4, <3>5
  <2>10. ASSUME NEW t \in Threads, SearchMiss(t)
        PROVE  OnceInv'
    BY <2>1, <2>3, <2>10 DEF SearchMiss, Goto, TypeOK, na, prob
  <2>11. ASSUME NEW t \in Threads, Decide(t)
        PROVE  OnceInv'
    BY <2>1, <2>3, <2>11 DEF Decide, Goto, TypeOK, na, prob
  <2>12. ASSUME NEW t \in Threads, Relock(t)
        PROVE  OnceInv'
    BY <2>1, <2>3, <2>12 DEF Relock, Goto, TypeOK, na, prob
  <2>13. ASSUME NEW t \in Threads, Recheck(t)
        PROVE  OnceInv'
    BY <2>1, <2>3, <2>13 DEF Recheck, Goto, TypeOK, na, prob
  <2>14. ASSUME NEW t \in Threads, Claim(t)
        PROVE  OnceInv'
    BY <2>1, <2>3, <2>14 DEF Claim, Goto, TypeOK, na, prob
  <2>15. ASSUME NEW t \in Threads, Post(t)
        PROVE  OnceInv'
    BY <2>1, <2>3, <2>15 DEF Post, Goto, TypeOK, na, prob
  <2>16. ASSUME NEW t \in Threads, PostFails(t)
        PROVE  OnceInv'
    BY <2>1, <2>3, <2>16 DEF PostFails, Goto, TypeOK, na, prob
  <2>17. ASSUME NEW t \in Threads, Test(t)
        PROVE  OnceInv'
    BY <2>1, <2>3, <2>17 DEF Test, Goto, TypeOK, na, prob
  <2>18. ASSUME NEW t \in Threads, Reap(t)
        PROVE  OnceInv'
    <3>1. /\ pc[t] = "wait" /\ prob_req = "done" /\ prob_msg' = NoMessage
          /\ got' = [got EXCEPT ![t] = prob_msg]
          /\ UNCHANGED <<taken, pending, consumed>>
      BY <2>18 DEF Reap, na
    <3>2. PICK l \in {"deliver", "enqueue"} : pc' = [pc EXCEPT ![t] = l]
      BY <2>18 DEF Reap, Goto
    <3>3. got[t] = NoMessage /\ prob_msg \in 1..MaxMessages
      <4>1. got[t] = NoMessage /\ prob_msg # NoMessage
        BY <2>1, <3>1 DEF HandsOK
      <4>2. prob_msg \in 0..MaxMessages
        BY <2>1 DEF TypeOK
      <4> QED
        BY <4>1, <4>2, ConstantsAssumption DEF NoMessage
    <3>4. \A m : Queued(m)' <=> Queued(m)
      BY <3>1 DEF Queued
    <3>5. \A m \in 1..MaxMessages : \A u \in Threads :
            Holds(u, m)' <=> Holds(u, m) \/ (u = t /\ m = prob_msg)
      <4>1. \A m \in 1..MaxMessages : Holds(t, m)' <=> m = prob_msg
        BY <2>1, <3>1, <3>2 DEF Holds, TypeOK
      <4>2. \A m \in 1..MaxMessages : ~ Holds(t, m)
        BY <3>3 DEF Holds, NoMessage
      <4>3. \A u \in Threads \ {t} : got'[u] = got[u] /\ pc'[u] = pc[u]
        BY <2>1, <3>1, <3>2 DEF Holds, TypeOK
      <4> SUFFICES ASSUME NEW m \in 1..MaxMessages, NEW u \in Threads
                   PROVE  Holds(u, m)' <=> Holds(u, m) \/ (u = t /\ m = prob_msg)
        OBVIOUS
      <4>4. CASE u = t
        BY <4>1, <4>2, <4>4 DEF Holds
      <4>5. CASE u # t
        BY <4>3, <4>5 DEF Holds
      <4> QED
        BY <4>4, <4>5
    <3>6. NoRepeat'
      BY <2>1, <3>1 DEF NoRepeat
    <3>7. Disjoint'
      BY <2>1, <3>1, <3>3, <3>4, <3>5 DEF Disjoint, NoMessage
    <3>8. Covered'
      <4> SUFFICES ASSUME NEW m \in 1..taken
                   PROVE  \/ Queued(m) \/ m \in consumed
                          \/ \E u \in Threads : Holds(u, m)'
        BY <3>1, <3>4 DEF Covered
      <4>1. m \in 1..MaxMessages
        BY <2>2
      <4>2. Queued(m) \/ prob_msg = m \/ m \in consumed \/ \E u \in Threads : Holds(u, m)
        BY <2>1 DEF Covered
      <4> QED
        BY <3>3, <3>5, <4>1, <4>2 DEF Holds, Queued
    <3>9. Old'
      BY <2>1, <3>1, <3>3, <3>4, <3>5 DEF Old, NoMessage
    <3> QED
      BY <3>6, <3>7, <3>8, <3>9 DEF OnceInv
  <2>19. ASSUME NEW t \in Threads, ReapFails(t)
        PROVE  OnceInv'
    BY <2>1, <2>3, <2>19 DEF ReapFails, Goto, TypeOK, na, prob
  <2>20. ASSUME NEW t \in Threads, Deliver(t)
        PROVE  OnceInv'
    BY <2>1, <2>3, <2>20 DEF Deliver, Goto, TypeOK, na, prob
  <2>21. ASSUME NEW t \in Threads, Enqueue(t)
        PROVE  OnceInv'
    <3> DEFINE m0 == got[t]
    <3>1. /\ pc[t] = "enqueue" /\ pc' = [pc EXCEPT ![t] = "notify"]
          /\ pending' = Append(pending, m0)
          /\ got' = [got EXCEPT ![t] = NoMessage]
          /\ UNCHANGED <<taken, prob_msg, consumed>>
      BY <2>21 DEF Enqueue, Goto, na, prob
    <3>2. m0 \in 1..MaxMessages /\ Holds(t, m0)
      BY <2>1, <2>2, <3>1 DEF HandsOK, TypeOK, NoMessage, Holds
    <3>3. /\ Len(pending') = Len(pending) + 1 /\ Len(pending) \in Nat
          /\ \A i \in 1..Len(pending) : pending'[i] = pending[i]
          /\ pending'[Len(pending) + 1] = m0
      BY <2>1, <3>1, <3>2, AppendProperties DEF TypeOK
    <3>4. \A m : Queued(m)' <=> Queued(m) \/ m = m0
      BY <3>3 DEF Queued
    <3>5. \A m \in 1..MaxMessages : \A u \in Threads :
            Holds(u, m)' <=> Holds(u, m) /\ u # t
      BY <2>1, <3>1 DEF Holds, NoMessage, TypeOK
    <3>6. \A m \in 1..MaxMessages : Holds(t, m) <=> m = m0
      BY <3>1 DEF Holds
    <3>7. ~ Queued(m0)
      BY <2>1, <3>2 DEF Disjoint
    <3>8. NoRepeat'
      BY <2>1, <3>3, <3>7 DEF NoRepeat, Queued
    <3> HIDE DEF m0
    <3>9. Disjoint'
      BY <2>1, <3>1, <3>2, <3>4, <3>5, <3>6 DEF Disjoint
    <3>10. Covered'
      BY <2>1, <2>2, <3>1, <3>2, <3>4, <3>5, <3>6 DEF Covered
    <3>11. Old'
      BY <2>1, <3>1, <3>2, <3>4, <3>5 DEF Old
    <3> QED
      BY <3>8, <3>9, <3>10, <3>11 DEF OnceInv
  <2>22. ASSUME NEW t \in Threads, Notify(t)
        PROVE  OnceInv'
    BY <2>1, <2>3, <2>22 DEF Notify, Broadcast, TypeOK, na, prob
  <2>23. ASSUME NEW t \in Threads, Error(t)
        PROVE  OnceInv'
    BY <2>1, <2>3, <2>23 DEF Error, Goto, TypeOK, na, prob
  <2>24. ASSUME NEW t \in Threads, Recycle(t)
        PROVE  OnceInv'
    BY <2>1, <2>3, <2>24 DEF Recycle, Goto, TypeOK, na, prob
  <2>25. ASSUME NEW t \in Threads, GiveUp(t)
        PROVE  OnceInv'
    BY <2>1, <2>3, <2>25 DEF GiveUp, Broadcast, TypeOK, na, prob
  <2>26. ASSUME NEW t \in Threads, Peek(t)
        PROVE  OnceInv'
    <3>1. /\ pc[t] = "peek" /\ pc' = [pc EXCEPT ![t] = "idle"]
          /\ got' = [got EXCEPT ![t] = NoMessage]
          /\ UNCHANGED <<taken, prob_msg, pending, consumed>>
      BY <2>26 DEF Peek, Goto, na, prob
    <3>2. \A m : Queued(m)' <=> Queued(m)
      BY <3>1 DEF Queued
    <3>3. \A m \in 1..MaxMessages : \A u \in Threads :
            Holds(u, m)' <=> Holds(u, m)
      BY <2>1, <3>1 DEF Holds, NoMessage, TypeOK
    <3>4. NoRepeat'
      BY <2>1, <3>1 DEF NoRepeat
    <3> QED
      BY <2>1, <2>2, <3>1, <3>2, <3>3, <3>4 DEF OnceInv, Disjoint, Covered, Old
  <2>27. ASSUME NEW t \in Threads, Return(t)
        PROVE  OnceInv'
    <3> DEFINE m0 == got[t]
    <3>1. /\ pc[t] = "return"
          /\ consumed' = consumed \cup ({m0} \ {NoMessage})
          /\ got' = [got EXCEPT ![t] = NoMessage]
          /\ UNCHANGED <<taken, prob_msg, pending>>
      BY <2>27 DEF Return, na, prob
    <3>2. PICK l \in {"lock", "idle"} : pc' = [pc EXCEPT ![t] = l]
      BY <2>27 DEF Return, Goto
    <3>3. \A m : Queued(m)' <=> Queued(m)
      BY <3>1 DEF Queued
    <3>4. \A m \in 1..MaxMessages : \A u \in Threads :
            Holds(u, m)' <=> Holds(u, m) /\ u # t
      BY <2>1, <3>1, <3>2 DEF Holds, NoMessage, TypeOK
    <3>5. \A m \in 1..MaxMessages : Holds(t, m) <=> m = m0
      BY <3>1 DEF Holds
    <3>6. \A m \in 1..MaxMessages : m \in consumed' <=> m \in consumed \/ m = m0
      BY <3>1 DEF NoMessage
    <3>7. NoRepeat'
      BY <2>1, <3>1 DEF NoRepeat
    <3> HIDE DEF m0
    <3>8. Disjoint'
      BY <2>1, <3>1, <3>3, <3>4, <3>5, <3>6 DEF Disjoint
    <3>9. Covered'
      BY <2>1, <2>2, <3>1, <3>3, <3>4, <3>5, <3>6 DEF Covered
    <3>10. Old'
      BY <2>1, <3>1, <3>3, <3>4, <3>5, <3>6 DEF Old
    <3> QED
      BY <3>7, <3>8, <3>9, <3>10 DEF OnceInv
  <2>28. CASE UNCHANGED vars
    BY <2>3, <2>28 DEF vars, na, prob
  <2> QED
    BY <2>4, <2>5, <2>6, <2>7, <2>8, <2>9, <2>10, <2>11, <2>12, <2>13, <2>14, <2>15, <2>16, <2>17, <2>18, <2>19, <2>20, <2>21, <2>22, <2>23, <2>24, <2>25, <2>26, <2>27, <2>28 DEF Next, Locking, Running
<1> QED
  BY <1>1, <1>2, TypeInvariant, PTL DEF Spec

(***************************************************************************)
(* Every message that left NA is in exactly one place: nothing is lost and *)
(* nothing is received twice.  Stated while no NA operation has failed,    *)
(* since a failure breaks the mutex that makes SearchHit one step.         *)
(***************************************************************************)
THEOREM NothingLostNothingTwice == Spec => [](failures = 0 => ExactlyOnce)
<1>1. TypeInv /\ OnceInv => ExactlyOnce
  <2> SUFFICES ASSUME TypeInv, OnceInv, NEW m \in 1..taken
               PROVE  /\ Places(m) # {}
                      /\ \A p, q \in Places(m) : p = q
    BY DEF ExactlyOnce
  <2>1. m \in 1..MaxMessages
    BY ConstantsAssumption DEF TypeInv, TypeOK
  <2>2. Places(m) # {}
    <3>1. CASE Queued(m)
      BY <3>1 DEF Queued, Places
    <3>2. CASE prob_msg = m
      BY <3>2 DEF Places
    <3>3. CASE m \in consumed
      BY <3>3 DEF Places
    <3>4. CASE \E t \in Threads : Holds(t, m)
      BY <3>4 DEF Holds, Places
    <3> QED
      BY <3>1, <3>2, <3>3, <3>4 DEF OnceInv, Covered
  <2>3. ASSUME NEW p \in Places(m), NEW q \in Places(m)
        PROVE  p = q
    <3>1. \A x \in Places(m) :
            \/ \E i \in 1..Len(pending) : x = <<"pending", i>> /\ pending[i] = m
            \/ \E t \in Threads : x = <<"held", t>> /\ Holds(t, m)
            \/ x = <<"posted", 0>> /\ prob_msg = m
            \/ x = <<"consumed", 0>> /\ m \in consumed
      BY DEF Places, Holds
    <3> QED
      BY <2>1, <3>1 DEF OnceInv, NoRepeat, Disjoint, Queued
  <2> QED
    BY <2>2, <2>3
<1> QED
  BY <1>1, TypeInvariant, OnceInvariant, PTL

-----------------------------------------------------------------------------
(***************************************************************************)
(* Calls to mona_urecv only: a ULT stops listening only where it broadcasts.  *)
(***************************************************************************)
ReceivesOnly ==
  \A t \in Threads :
    /\ pc[t] # "idle" => ~ IsProbe(t)
    /\ pc[t] # "test"

SleepersWatched ==
  (\E t \in Threads : pc[t] = "waiting") =>
    queue_active \/ \E u \in Threads : pc[u] = "notify"

WaiterInv == ReceivesOnly /\ SleepersWatched

(***************************************************************************)
(* When every call is a mona_urecv, a ULT sleeps on pending_msg_cv only    *)
(* while somebody will broadcast it, until an NA operation fails.  Probes  *)
(* break this: they clear queue_active without a broadcast.                *)
(***************************************************************************)
THEOREM NoWaiterForgotten ==
  ASSUME Kinds \subseteq {"urecv"}
  PROVE  Spec => [](failures = 0 => NoOrphanWaiter)
<1>1. Init => WaiterInv
  BY DEF Init, WaiterInv, ReceivesOnly, SleepersWatched
<1>2. /\ TypeInv
      /\ failures = 0 => ListenerInv
      /\ failures = 0 => WaiterInv
      /\ [Next]_vars
      => (failures = 0 => WaiterInv)'
  <2> SUFFICES ASSUME TypeInv, failures = 0 => ListenerInv,
                      failures = 0 => WaiterInv, [Next]_vars, failures' = 0
               PROVE  WaiterInv'
    OBVIOUS
  <2>0. failures = 0
    BY DEF TypeInv, TypeOK, Next, vars, Locking, Running, Arrive, Complete,
           CompleteFails, Enter, Lock, SearchHit, SearchMiss, Decide, Relock, Recheck, Claim, Post, PostFails, Test, Reap, ReapFails, Deliver, Enqueue, Notify, Error, Recycle, GiveUp, Peek, Return
  <2> USE <2>0 DEF TypeInv, TypeOK, WaiterInv, ReceivesOnly, SleepersWatched,
                   IsProbe, na, prob, Goto
  <2>1. CASE Arrive
    BY <2>1 DEF Arrive
  <2>2. CASE Complete
    BY <2>2 DEF Complete
  <2>3. CASE CompleteFails
    BY <2>3 DEF CompleteFails
  <2>4. ASSUME NEW t \in Threads, Enter(t)
        PROVE  WaiterInv'
    BY <2>4 DEF Enter, Call
  <2>5. ASSUME NEW t \in Threads, Lock(t)
        PROVE  WaiterInv'
    BY <2>5 DEF Lock
  <2>6. ASSUME NEW t \in Threads, SearchHit(t)
        PROVE  WaiterInv'
    BY <2>6 DEF SearchHit
  <2>7. ASSUME NEW t \in Threads, SearchMiss(t)
        PROVE  WaiterInv'
    BY <2>7 DEF SearchMiss
  <2>8. ASSUME NEW t \in Threads, Decide(t)
        PROVE  WaiterInv'
    BY <2>8 DEF Decide
  <2>9. ASSUME NEW t \in Threads, Relock(t)
        PROVE  WaiterInv'
    BY <2>9 DEF Relock
  <2>10. ASSUME NEW t \in Threads, Recheck(t)
        PROVE  WaiterInv'
    BY <2>10 DEF Recheck
  <2>11. ASSUME NEW t \in Threads, Claim(t)
        PROVE  WaiterInv'
    BY <2>11 DEF Claim
  <2>12. ASSUME NEW t \in Threads, Post(t)
        PROVE  WaiterInv'
    BY <2>12 DEF Post
  <2>13. ASSUME NEW t \in Threads, PostFails(t)
        PROVE  WaiterInv'
    BY <2>13 DEF PostFails, ListenerInv, NoError
  <2>14. ASSUME NEW t \in Threads, Test(t)
        PROVE  WaiterInv'
    BY <2>14 DEF Test
  <2>15. ASSUME NEW t \in Threads, Reap(t)
        PROVE  WaiterInv'
    BY <2>15 DEF Reap
  <2>16. ASSUME NEW t \in Threads, ReapFails(t)
        PROVE  WaiterInv'
    BY <2>16 DEF ReapFails, ListenerInv, NoError
  <2>17. ASSUME NEW t \in Threads, Deliver(t)
        PROVE  WaiterInv'
    BY <2>17 DEF Deliver
  <2>18. ASSUME NEW t \in Threads, Enqueue(t)
        PROVE  WaiterInv'
    BY <2>18 DEF Enqueue
  <2>19. ASSUME NEW t \in Threads, Notify(t)
        PROVE  WaiterInv'
    BY <2>19 DEF Notify, Broadcast
  <2>20. ASSUME NEW t \in Threads, Error(t)
        PROVE  WaiterInv'
    BY <2>20 DEF Error
  <2>21. ASSUME NEW t \in Threads, Recycle(t)
        PROVE  WaiterInv'
    BY <2>21 DEF Recycle
  <2>22. ASSUME NEW t \in Threads, GiveUp(t)
        PROVE  WaiterInv'
    BY <2>22 DEF GiveUp, Broadcast
  <2>23. ASSUME NEW t \in Threads, Peek(t)
        PROVE  WaiterInv'
    BY <2>23 DEF Peek
  <2>24. ASSUME NEW t \in Threads, Return(t)
        PROVE  WaiterInv'
    BY <2>24 DEF Return
  <2>25. CASE UNCHANGED vars
    BY <2>25 DEF vars
  <2> QED
    BY <2>1, <2>2, <2>3, <2>4, <2>5, <2>6, <2>7, <2>8, <2>9, <2>10, <2>11, <2>12, <2>13, <2>14, <2>15, <2>16, <2>17, <2>18, <2>19, <2>20, <2>21, <2>22, <2>23, <2>24, <2>25 DEF Next, Locking, Running
<1>3. ListenerInv /\ WaiterInv => NoOrphanWaiter
  BY DEF ListenerInv, ActiveMeansListener, WaiterInv, SleepersWatched,
         NoOrphanWaiter
<1> QED
  BY <1>1, <1>2, <1>3, TypeInvariant, ListenerInvariant, PTL DEF Spec

-----------------------------------------------------------------------------
(***************************************************************************)
(* The refinement: every step of the queue, the shared receive and the     *)
(* condition variable is a step of Mailbox or none.                        *)
(***************************************************************************)

(***************************************************************************)
(* What the place a ULT is at says about its call and its message.         *)
(***************************************************************************)
CallInv ==
  \A t \in Threads :
    /\ pc[t] = "idle" => call[t] = NoCall
    /\ pc[t] # "idle" => call[t] \in Call
    /\ pc[t] \in {"test", "peek"} => IsProbe(t)
    /\ pc[t] = "deliver" => ~ IsProbe(t)
    /\ pc[t] \in {"notify", "return"} /\ IsProbe(t) => got[t] = NoMessage
    /\ pc[t] \in {"error", "giveup"} => MaxFailures > 0
    /\ pc[t] = "return" /\ got[t] = NoMessage /\ ~ IsProbe(t) => MaxFailures > 0

FailuresAllowed == prob_req = "failed" => MaxFailures > 0

LEMMA CallInvariant == Spec => [](CallInv /\ FailuresAllowed)
<1>1. Init => CallInv /\ FailuresAllowed
  BY DEF Init, CallInv, FailuresAllowed
<1>2. TypeInv /\ CallInv /\ FailuresAllowed /\ [Next]_vars
        => CallInv' /\ FailuresAllowed'
  <2> SUFFICES ASSUME TypeInv, CallInv, FailuresAllowed, [Next]_vars
               PROVE  CallInv' /\ FailuresAllowed'
    OBVIOUS
  <2> USE ConstantsAssumption
      DEF TypeInv, TypeOK, HandsOK, CallInv, FailuresAllowed, IsProbe, NoMessage,
          na, prob, Goto
  <2>1. CASE Arrive
    BY <2>1 DEF Arrive
  <2>2. CASE Complete
    BY <2>2 DEF Complete
  <2>3. CASE CompleteFails
    BY <2>3 DEF CompleteFails
  <2>4. ASSUME NEW t \in Threads, Enter(t)
        PROVE  CallInv' /\ FailuresAllowed'
    BY <2>4 DEF Enter
  <2>5. ASSUME NEW t \in Threads, Lock(t)
        PROVE  CallInv' /\ FailuresAllowed'
    BY <2>5 DEF Lock
  <2>6. ASSUME NEW t \in Threads, SearchHit(t)
        PROVE  CallInv' /\ FailuresAllowed'
    BY <2>6 DEF SearchHit
  <2>7. ASSUME NEW t \in Threads, SearchMiss(t)
        PROVE  CallInv' /\ FailuresAllowed'
    BY <2>7 DEF SearchMiss
  <2>8. ASSUME NEW t \in Threads, Decide(t)
        PROVE  CallInv' /\ FailuresAllowed'
    BY <2>8 DEF Decide
  <2>9. ASSUME NEW t \in Threads, Relock(t)
        PROVE  CallInv' /\ FailuresAllowed'
    BY <2>9 DEF Relock
  <2>10. ASSUME NEW t \in Threads, Recheck(t)
        PROVE  CallInv' /\ FailuresAllowed'
    BY <2>10 DEF Recheck
  <2>11. ASSUME NEW t \in Threads, Claim(t)
        PROVE  CallInv' /\ FailuresAllowed'
    BY <2>11 DEF Claim
  <2>12. ASSUME NEW t \in Threads, Post(t)
        PROVE  CallInv' /\ FailuresAllowed'
    BY <2>12 DEF Post
  <2>13. ASSUME NEW t \in Threads, PostFails(t)
        PROVE  CallInv' /\ FailuresAllowed'
    BY <2>13 DEF PostFails
  <2>14. ASSUME NEW t \in Threads, Test(t)
        PROVE  CallInv' /\ FailuresAllowed'
    BY <2>14 DEF Test
  <2>15. ASSUME NEW t \in Threads, Reap(t)
        PROVE  CallInv' /\ FailuresAllowed'
    BY <2>15 DEF Reap
  <2>16. ASSUME NEW t \in Threads, ReapFails(t)
        PROVE  CallInv' /\ FailuresAllowed'
    BY <2>16 DEF ReapFails
  <2>17. ASSUME NEW t \in Threads, Deliver(t)
        PROVE  CallInv' /\ FailuresAllowed'
    BY <2>17 DEF Deliver
  <2>18. ASSUME NEW t \in Threads, Enqueue(t)
        PROVE  CallInv' /\ FailuresAllowed'
    BY <2>18 DEF Enqueue
  <2>19. ASSUME NEW t \in Threads, Notify(t)
        PROVE  CallInv' /\ FailuresAllowed'
    BY <2>19 DEF Notify, Broadcast
  <2>20. ASSUME NEW t \in Threads, Error(t)
        PROVE  CallInv' /\ FailuresAllowed'
    BY <2>20 DEF Error
  <2>21. ASSUME NEW t \in Threads, Recycle(t)
        PROVE  CallInv' /\ FailuresAllowed'
    BY <2>21 DEF Recycle
  <2>22. ASSUME NEW t \in Threads, GiveUp(t)
        PROVE  CallInv' /\ FailuresAllowed'
    BY <2>22 DEF GiveUp, Broadcast
  <2>23. ASSUME NEW t \in Threads, Peek(t)
        PROVE  CallInv' /\ FailuresAllowed'
    BY <2>23 DEF Peek
  <2>24. ASSUME NEW t \in Threads, Return(t)
        PROVE  CallInv' /\ FailuresAllowed'
    BY <2>24 DEF Return, Call
  <2>25. CASE UNCHANGED vars
    BY <2>25 DEF vars
  <2> QED
    BY <2>1, <2>2, <2>3, <2>4, <2>5, <2>6, <2>7, <2>8, <2>9, <2>10, <2>11, <2>12, <2>13, <2>14, <2>15, <2>16, <2>17, <2>18, <2>19, <2>20, <2>21, <2>22, <2>23, <2>24, <2>25 DEF Next, Locking, Running
<1> QED
  BY <1>1, <1>2, TypeInvariant, PTL DEF Spec

-----------------------------------------------------------------------------
(***************************************************************************)
(* How the set of given messages changes: not at all when a ULT without an *)
(* answer, or a probe, changes; by the message a mona_urecv is answered    *)
(* with; and not at all when that message becomes a consumed one.          *)
(***************************************************************************)
LEMMA GivenMember ==
  \A m : m \in Given <=> (\/ m \in consumed
                        \/ \E u \in Threads : /\ Answer(u) = m
                                              /\ m # NoMessage
                                              /\ ~ IsProbe(u))
  BY DEF Given

LEMMA GivenSame ==
  ASSUME NEW t \in Threads, consumed' = consumed,
         \A u \in Threads \ {t} : Answer(u)' = Answer(u) /\ call'[u] = call[u],
         Answer(t) = NoMessage \/ IsProbe(t),
         Answer(t)' = NoMessage \/ IsProbe(t)'
  PROVE  Given' = Given
<1>1. \A m : m \in Given' <=> (\/ m \in consumed'
                             \/ \E u \in Threads : /\ Answer(u)' = m
                                                   /\ m # NoMessage
                                                   /\ ~ IsProbe(u)')
  BY DEF Given, NoMessage
<1>2. \A u \in Threads \ {t} : IsProbe(u)' <=> IsProbe(u)
  BY DEF IsProbe
<1>3. \A m : m \in Given' <=> m \in Given
  BY <1>1, <1>2, GivenMember
<1> QED
  BY <1>3

LEMMA GivenGrows ==
  ASSUME NEW t \in Threads, NEW m, consumed' = consumed,
         \A u \in Threads \ {t} : Answer(u)' = Answer(u) /\ call'[u] = call[u],
         Answer(t) = NoMessage, Answer(t)' = m, m # NoMessage, ~ IsProbe(t)'
  PROVE  Given' = Given \cup {m}
<1>1. \A n : n \in Given' <=> (\/ n \in consumed'
                             \/ \E u \in Threads : /\ Answer(u)' = n
                                                   /\ n # NoMessage
                                                   /\ ~ IsProbe(u)')
  BY DEF Given, NoMessage
<1>2. \A u \in Threads \ {t} : IsProbe(u)' <=> IsProbe(u)
  BY DEF IsProbe
<1>3. \A n : n \in Given' <=> n \in Given \/ n = m
  BY <1>1, <1>2, GivenMember
<1> QED
  BY <1>3

LEMMA GivenConsumed ==
  ASSUME NEW t \in Threads, consumed' = consumed \cup {Answer(t)},
         \A u \in Threads \ {t} : Answer(u)' = Answer(u) /\ call'[u] = call[u],
         Answer(t) # NoMessage, ~ IsProbe(t), Answer(t)' = NoMessage
  PROVE  Given' = Given
<1>1. \A n : n \in Given' <=> (\/ n \in consumed'
                             \/ \E u \in Threads : /\ Answer(u)' = n
                                                   /\ n # NoMessage
                                                   /\ ~ IsProbe(u)')
  BY DEF Given, NoMessage
<1>2. \A u \in Threads \ {t} : IsProbe(u)' <=> IsProbe(u)
  BY DEF IsProbe
<1>3. \A n : n \in Given' <=> n \in Given
  BY <1>1, <1>2, GivenMember
<1> QED
  BY <1>3

(***************************************************************************)
(* A message in the queue or in the posted receive has not been given.     *)
(***************************************************************************)
LEMMA FreshMessage ==
  ASSUME TypeInv, CallInv, OnceInv, NEW m \in 1..MaxMessages,
         Queued(m) \/ prob_msg = m
  PROVE  m \in (1..Len(arrived)) \ Given
<1>1. m <= taken /\ taken <= Len(arrived)
  BY DEF OnceInv, Old, TypeInv, TypeOK
<1>2. m \notin consumed /\ \A u \in Threads : ~ Holds(u, m)
  BY DEF OnceInv, Disjoint
<1>3. ASSUME NEW u \in Threads, Answer(u) = m, m # NoMessage, ~ IsProbe(u)
      PROVE  FALSE
  BY <1>2, <1>3 DEF Answer, Holds, CallInv
<1> QED
  BY <1>1, <1>2, <1>3, GivenMember DEF TypeInv, TypeOK

(***************************************************************************)
(* Every step of the queue is a step of the mailbox or changes nothing the *)
(* callers see.                                                            *)
(***************************************************************************)
LEMMA StepRefines ==
  ASSUME MaxFailures = 0, TypeInv, CallInv, FailuresAllowed, OnceInv, [Next]_vars
  PROVE  [AnyMailbox!Next]_(AnyMailbox!vars)
<1> DEFINE A == [t \in Threads |-> Answer(t)]
<1> USE DEF NoMessage
<1>1. ASSUME UNCHANGED <<arrived, call, consumed>>,
             \A u \in Threads : Answer(u)' = Answer(u)
      PROVE  UNCHANGED AnyMailbox!vars
  <2>1. A' = A
    BY <1>1
  <2>2. \A u \in Threads : IsProbe(u)' <=> IsProbe(u)
    BY <1>1 DEF IsProbe
  <2>3. \A m : m \in Given' <=> (\/ m \in consumed'
                               \/ \E u \in Threads : /\ Answer(u)' = m
                                                     /\ m # NoMessage
                                                     /\ ~ IsProbe(u)')
    BY DEF Given
  <2>4. \A m : m \in Given' <=> m \in Given
    BY <1>1, <2>2, <2>3, GivenMember
  <2>5. Given' = Given
    BY <2>4
  <2> QED
    BY <1>1, <2>1, <2>5 DEF AnyMailbox!vars
<1>2. CASE Arrive
  <2>1. /\ UNCHANGED <<call, consumed, pc, got>>
        /\ Len(arrived) < MaxMessages
        /\ \E m \in Message : arrived' = Append(arrived, m)
    BY <1>2 DEF Arrive
  <2>2. A' = A /\ Given' = Given
    BY <2>1 DEF Answer, Given, IsProbe
  <2>3. AnyMailbox!Arrive
    BY <2>1, <2>2 DEF AnyMailbox!Arrive, AnyMailbox!Message, Message
  <2> QED
    BY <2>3 DEF AnyMailbox!Next
<1>3. CASE Complete
  BY <1>1, <1>3 DEF Complete, Answer
<1>4. CASE CompleteFails
  BY <1>4 DEF CompleteFails, TypeInv, TypeOK
<1>5. ASSUME NEW t \in Threads, Enter(t)
      PROVE  AnyMailbox!Next
  <2>1. /\ pc[t] = "idle" /\ call[t] = NoCall
        /\ pc' = [pc EXCEPT ![t] = "lock"]
        /\ UNCHANGED <<arrived, consumed, got>>
    BY <1>5 DEF Enter, Goto, CallInv, na
  <2>2. PICK c \in Call : call' = [call EXCEPT ![t] = c]
    BY <1>5 DEF Enter
  <2>3. \A u \in Threads : Answer(u)' = Answer(u)
    BY <2>1 DEF Answer, TypeInv, TypeOK
  <2>4. Answer(t) = NoMessage /\ Answer(t)' = NoMessage
    BY <2>1, <2>3 DEF Answer
  <2>5. A' = A
    BY <2>3
  <2>6. Given' = Given
    BY <2>1, <2>2, <2>3, <2>4, GivenSame DEF TypeInv, TypeOK
  <2>7. AnyMailbox!Ask(t)
    BY <2>1, <2>2, <2>5, <2>6
       DEF AnyMailbox!Ask, AnyMailbox!Call, Call, AnyMailbox!NoCall, NoCall
  <2> QED
    BY <2>7 DEF AnyMailbox!Next
<1>6. ASSUME NEW t \in Threads, NEW m \in 1..MaxMessages, NEW l,
             call' = call, consumed' = consumed, arrived' = arrived,
             call[t] \in Call, ~ IsProbe(t), Matches(call[t], m),
             Queued(m) \/ prob_msg = m, Answer(t) = NoMessage,
             l \in {"return", "deliver"},
             pc' = [pc EXCEPT ![t] = l], got' = [got EXCEPT ![t] = m]
      PROVE  AnyMailbox!Next
  <2>1. m \in (1..Len(arrived)) \ Given
    BY <1>6, FreshMessage
  <2>2. \A u \in Threads : Answer(u)' = IF u = t THEN m ELSE Answer(u)
    BY <1>6 DEF Answer, TypeInv, TypeOK
  <2>3. A' = [A EXCEPT ![t] = m]
    BY <2>2
  <2>4. Answer(t)' = m /\ ~ IsProbe(t)' /\ m # NoMessage
    BY <1>6, <2>2 DEF IsProbe
  <2>5. Given' = Given \cup {m}
    BY <1>6, <2>2, <2>4, GivenGrows
  <2>6. call[t].kind = "urecv"
    BY <1>6 DEF Call, IsProbe
  <2>7. AnyMailbox!Give(t)
    BY <1>6, <2>1, <2>3, <2>5, <2>6
       DEF AnyMailbox!Give, AnyMailbox!Matches, Matches, AnyMailbox!NoMessage
  <2> QED
    BY <2>7 DEF AnyMailbox!Next
<1>7. ASSUME NEW t \in Threads, SearchHit(t)
      PROVE  AnyMailbox!Next
  <2>1. PICK i \in 1..Len(pending) :
          /\ Matches(call[t], pending[i])
          /\ got' = [got EXCEPT ![t] = pending[i]]
    BY <1>7 DEF SearchHit, IsOldestMatch
  <2>2. /\ pc[t] = "search" /\ UNCHANGED <<arrived, call, consumed>>
        /\ pc' = [pc EXCEPT ![t] = IF IsProbe(t) THEN "peek" ELSE "return"]
    BY <1>7 DEF SearchHit, Goto, na
  <2>3. pending[i] \in 1..MaxMessages /\ Queued(pending[i])
    BY ElementOfSeq DEF Queued, TypeInv, TypeOK
  <2>4. Answer(t) = NoMessage /\ call[t] \in Call
    BY <2>2 DEF Answer, CallInv
  <2>5. CASE ~ IsProbe(t)
    BY <1>6, <2>1, <2>2, <2>3, <2>4, <2>5
  <2>6. CASE IsProbe(t)
    <3>1. \A u \in Threads : Answer(u)' = IF u = t THEN pending[i] ELSE Answer(u)
      BY <2>1, <2>2, <2>6 DEF Answer, TypeInv, TypeOK
    <3>2. A' = [A EXCEPT ![t] = pending[i]]
      BY <3>1
    <3>3. IsProbe(t)'
      BY <2>2, <2>6 DEF IsProbe
    <3>4. Given' = Given
      BY <2>2, <2>6, <3>1, <3>3, GivenSame
    <3>5. pending[i] \in 1..Len(arrived)
      BY <2>3, FreshMessage
    <3>6. call[t].kind \in {"uiprobe", "uprobe"}
      BY <2>4, <2>6, ConstantsAssumption DEF Call, IsProbe
    <3>7. AnyMailbox!Show(t)
      BY <2>1, <2>2, <2>4, <3>2, <3>4, <3>5, <3>6
         DEF AnyMailbox!Show, AnyMailbox!Matches, Matches, AnyMailbox!NoMessage
    <3> QED
      BY <3>7 DEF AnyMailbox!Next
  <2> QED
    BY <2>5, <2>6
<1>8. ASSUME NEW t \in Threads, Reap(t)
      PROVE  AnyMailbox!Next \/ UNCHANGED AnyMailbox!vars
  <2>1. /\ pc[t] = "wait" /\ prob_req = "done"
        /\ UNCHANGED <<arrived, call, consumed>>
        /\ got' = [got EXCEPT ![t] = prob_msg]
    BY <1>8 DEF Reap, na
  <2>2. prob_msg \in 1..MaxMessages
    BY <2>1, ConstantsAssumption DEF TypeInv, TypeOK, HandsOK
  <2>3. Answer(t) = NoMessage /\ call[t] \in Call
    BY <2>1 DEF Answer, CallInv
  <2>4. CASE ~ IsProbe(t) /\ Matches(call[t], prob_msg)
    <3>1. pc' = [pc EXCEPT ![t] = "deliver"]
      BY <1>8, <2>4 DEF Reap, Goto
    <3> QED
      BY <1>6, <2>1, <2>2, <2>3, <2>4, <3>1
  <2>5. CASE ~ (~ IsProbe(t) /\ Matches(call[t], prob_msg))
    <3>1. pc' = [pc EXCEPT ![t] = "enqueue"]
      BY <1>8, <2>5 DEF Reap, Goto
    <3>2. \A u \in Threads : Answer(u)' = Answer(u)
      BY <2>1, <3>1 DEF Answer, TypeInv, TypeOK
    <3> QED
      BY <1>1, <2>1, <3>2
  <2> QED
    BY <2>4, <2>5
<1>9. ASSUME NEW t \in Threads, Peek(t)
      PROVE  AnyMailbox!Next
  <2>1. /\ pc[t] = "peek" /\ got[t] # NoMessage /\ IsProbe(t)
        /\ got' = [got EXCEPT ![t] = NoMessage]
        /\ call' = [call EXCEPT ![t] = NoCall]
        /\ pc' = [pc EXCEPT ![t] = "idle"]
        /\ UNCHANGED <<arrived, consumed>>
    BY <1>9 DEF Peek, Goto, na, CallInv, TypeInv, HandsOK
  <2>2. \A u \in Threads : Answer(u)' = IF u = t THEN NoMessage ELSE Answer(u)
    BY <2>1 DEF Answer, TypeInv, TypeOK
  <2>3. A' = [A EXCEPT ![t] = NoMessage]
    BY <2>2
  <2>4. Given' = Given
    BY <2>1, <2>2, GivenSame DEF TypeInv, TypeOK
  <2>5. Answer(t) # NoMessage
    BY <2>1 DEF Answer
  <2>6. AnyMailbox!Finish(t)
    BY <2>1, <2>3, <2>4, <2>5
       DEF AnyMailbox!Finish, AnyMailbox!NoMessage, AnyMailbox!NoCall, NoCall
  <2> QED
    BY <2>6 DEF AnyMailbox!Next
<1>10. ASSUME NEW t \in Threads, Return(t)
       PROVE  AnyMailbox!Next \/ UNCHANGED AnyMailbox!vars
  <2>1. /\ pc[t] = "return" /\ Answer(t) = got[t]
        /\ consumed' = consumed \cup ({got[t]} \ {NoMessage})
        /\ got' = [got EXCEPT ![t] = NoMessage]
        /\ UNCHANGED arrived
    BY <1>10 DEF Return, na, Answer
  <2>2. CASE call[t].kind = "uprobe"
    <3>1. pc' = [pc EXCEPT ![t] = "lock"] /\ UNCHANGED call
      BY <1>10, <2>2 DEF Return, Goto
    <3>2. got[t] = NoMessage
      BY <2>1, <2>2 DEF CallInv, IsProbe
    <3>3. \A u \in Threads : Answer(u)' = Answer(u)
      BY <2>1, <3>1, <3>2 DEF Answer, TypeInv, TypeOK
    <3>4. consumed' = consumed
      BY <2>1, <3>2
    <3> QED
      BY <1>1, <2>1, <3>1, <3>3, <3>4
  <2>3. CASE call[t].kind # "uprobe"
    <3>1. /\ pc' = [pc EXCEPT ![t] = "idle"]
          /\ call' = [call EXCEPT ![t] = NoCall]
      BY <1>10, <2>3 DEF Return, Goto
    <3>2. \A u \in Threads : Answer(u)' = IF u = t THEN NoMessage ELSE Answer(u)
      BY <2>1, <3>1 DEF Answer, TypeInv, TypeOK
    <3>3. A' = [A EXCEPT ![t] = NoMessage]
      BY <3>2
    <3>4. call[t] \in Call
      BY <2>1 DEF CallInv
    <3>5. CASE IsProbe(t)
      <4>1. got[t] = NoMessage
        BY <2>1, <3>5 DEF CallInv
      <4>2. consumed' = consumed
        BY <2>1, <4>1
      <4>3. Given' = Given
        BY <3>1, <3>2, <3>5, <4>2, GivenSame DEF TypeInv, TypeOK
      <4>4. call[t].kind = "uiprobe"
        BY <2>3, <3>4, <3>5, ConstantsAssumption DEF Call, IsProbe
      <4>5. AnyMailbox!Finish(t)
        BY <2>1, <3>1, <3>3, <4>3, <4>4
           DEF AnyMailbox!Finish, AnyMailbox!NoMessage, AnyMailbox!NoCall, NoCall
      <4> QED
        BY <4>5 DEF AnyMailbox!Next
    <3>6. CASE ~ IsProbe(t)
      <4>1. got[t] # NoMessage
        BY <2>1, <3>6 DEF CallInv
      <4>2. Given' = Given
        BY <2>1, <3>1, <3>2, <3>6, <4>1, GivenConsumed DEF TypeInv, TypeOK
      <4>3. AnyMailbox!Finish(t)
        BY <2>1, <3>1, <3>3, <4>1, <4>2
           DEF AnyMailbox!Finish, AnyMailbox!NoMessage, AnyMailbox!NoCall, NoCall
      <4> QED
        BY <4>3 DEF AnyMailbox!Next
    <3> QED
      BY <3>5, <3>6
  <2> QED
    BY <2>2, <2>3
<1>11. ASSUME NEW t \in Threads, Lock(t)
       PROVE  UNCHANGED AnyMailbox!vars
  <2>1. \A u \in Threads : Answer(u)' = Answer(u)
    BY <1>11 DEF Lock, Goto, Answer, TypeInv, TypeOK, HandsOK
  <2> QED
    BY <1>1, <1>11, <2>1 DEF Lock, na
<1>12. ASSUME NEW t \in Threads, SearchMiss(t)
       PROVE  UNCHANGED AnyMailbox!vars
  <2>1. \A u \in Threads : Answer(u)' = Answer(u)
    BY <1>12 DEF SearchMiss, Goto, Answer, TypeInv, TypeOK, HandsOK
  <2> QED
    BY <1>1, <1>12, <2>1 DEF SearchMiss, na
<1>13. ASSUME NEW t \in Threads, Decide(t)
       PROVE  UNCHANGED AnyMailbox!vars
  <2>1. \A u \in Threads : Answer(u)' = Answer(u)
    BY <1>13 DEF Decide, Goto, Answer, TypeInv, TypeOK, HandsOK
  <2> QED
    BY <1>1, <1>13, <2>1 DEF Decide, na
<1>14. ASSUME NEW t \in Threads, Relock(t)
       PROVE  UNCHANGED AnyMailbox!vars
  <2>1. \A u \in Threads : Answer(u)' = Answer(u)
    BY <1>14 DEF Relock, Goto, Answer, TypeInv, TypeOK, HandsOK
  <2> QED
    BY <1>1, <1>14, <2>1 DEF Relock, na
<1>15. ASSUME NEW t \in Threads, Recheck(t)
       PROVE  UNCHANGED AnyMailbox!vars
  <2>1. \A u \in Threads : Answer(u)' = Answer(u)
    BY <1>15 DEF Recheck, Goto, Answer, TypeInv, TypeOK, HandsOK
  <2> QED
    BY <1>1, <1>15, <2>1 DEF Recheck, na
<1>16. ASSUME NEW t \in Threads, Claim(t)
       PROVE  UNCHANGED AnyMailbox!vars
  <2>1. \A u \in Threads : Answer(u)' = Answer(u)
    BY <1>16 DEF Claim, Goto, Answer, TypeInv, TypeOK, HandsOK
  <2> QED
    BY <1>1, <1>16, <2>1 DEF Claim, na
<1>17. ASSUME NEW t \in Threads, Post(t)
       PROVE  UNCHANGED AnyMailbox!vars
  <2>1. \A u \in Threads : Answer(u)' = Answer(u)
    BY <1>17 DEF Post, Goto, Answer, TypeInv, TypeOK, HandsOK
  <2> QED
    BY <1>1, <1>17, <2>1 DEF Post, na
<1>18. ASSUME NEW t \in Threads, Test(t)
       PROVE  UNCHANGED AnyMailbox!vars
  <2>1. \A u \in Threads : Answer(u)' = Answer(u)
    BY <1>18 DEF Test, Goto, Answer, TypeInv, TypeOK, HandsOK
  <2> QED
    BY <1>1, <1>18, <2>1 DEF Test, na
<1>19. ASSUME NEW t \in Threads, Deliver(t)
       PROVE  UNCHANGED AnyMailbox!vars
  <2>1. \A u \in Threads : Answer(u)' = Answer(u)
    BY <1>19 DEF Deliver, Goto, Answer, TypeInv, TypeOK, HandsOK
  <2> QED
    BY <1>1, <1>19, <2>1 DEF Deliver, na
<1>20. ASSUME NEW t \in Threads, Enqueue(t)
       PROVE  UNCHANGED AnyMailbox!vars
  <2>1. \A u \in Threads : Answer(u)' = Answer(u)
    BY <1>20 DEF Enqueue, Goto, Answer, TypeInv, TypeOK, HandsOK
  <2> QED
    BY <1>1, <1>20, <2>1 DEF Enqueue, na
<1>21. ASSUME NEW t \in Threads, Notify(t)
       PROVE  UNCHANGED AnyMailbox!vars
  <2>1. \A u \in Threads : Answer(u)' = Answer(u)
    BY <1>21 DEF Notify, Broadcast, CallInv, Answer, TypeInv, TypeOK, HandsOK
  <2> QED
    BY <1>1, <1>21, <2>1 DEF Notify, na
<1>22. ASSUME NEW t \in Threads, PostFails(t)
       PROVE  FALSE
  BY <1>22 DEF PostFails, CallInv, FailuresAllowed, TypeInv, TypeOK
<1>23. ASSUME NEW t \in Threads, ReapFails(t)
       PROVE  FALSE
  BY <1>23 DEF ReapFails, CallInv, FailuresAllowed, TypeInv, TypeOK
<1>24. ASSUME NEW t \in Threads, Error(t)
       PROVE  FALSE
  BY <1>24 DEF Error, CallInv, FailuresAllowed, TypeInv, TypeOK
<1>25. ASSUME NEW t \in Threads, Recycle(t)
       PROVE  FALSE
  BY <1>25 DEF Recycle, CallInv, FailuresAllowed, TypeInv, TypeOK
<1>26. ASSUME NEW t \in Threads, GiveUp(t)
       PROVE  FALSE
  BY <1>26 DEF GiveUp, CallInv, FailuresAllowed, TypeInv, TypeOK
<1>27. CASE UNCHANGED vars
  BY <1>1, <1>27 DEF vars, Answer, na
<1> QED
  BY <1>2, <1>3, <1>4, <1>5, <1>7, <1>8, <1>9, <1>10, <1>11, <1>12, <1>13, <1>14, <1>15, <1>16, <1>17, <1>18, <1>19, <1>20, <1>21, <1>22, <1>23, <1>24, <1>25, <1>26, <1>27 DEF Next, Locking, Running

(***************************************************************************)
(* When no NA operation fails, what the callers of mona_urecv, mona_uprobe *)
(* and mona_uiprobe see is a mailbox, for any number of ULTs, sources,     *)
(* tags and messages: whoever interleaves with whom, every call is given a *)
(* message it asked for that was given to no other mona_urecv.             *)
(***************************************************************************)
THEOREM RecvImplementsMailbox ==
  ASSUME MaxFailures = 0
  PROVE  Spec => ImplementsMailbox
<1>1. Init => AnyMailbox!Init
  BY DEF Init, AnyMailbox!Init, Answer, Given, NoCall, AnyMailbox!NoCall,
         NoMessage, AnyMailbox!NoMessage
<1>2. TypeInv /\ CallInv /\ FailuresAllowed /\ OnceInv /\ [Next]_vars
        => [AnyMailbox!Next]_(AnyMailbox!vars)
  BY StepRefines
<1> QED
  BY <1>1, <1>2, TypeInvariant, CallInvariant, OnceInvariant, PTL
     DEF Spec, ImplementsMailbox, AnyMailbox!Spec

=============================================================================

----------------------------- MODULE Operations -----------------------------
(***************************************************************************)
(* What the functions of mona.c, mona-expected.c and mona-unexpected.c do  *)
(* with the objects of Caches: which operation id, request and message     *)
(* buffer each takes, hands to NA, gives back or forgets, on every path    *)
(* through it, the failing ones included.  What the messages say and who   *)
(* receives which is the business of Transfer and UnexpectedRecv; here a   *)
(* message comes when NA says so and any size may come.                    *)
(*                                                                         *)
(* The ULTs share one instance.  One action is the code between two points *)
(* where a ULT waits.  The lists have a mutex each, so the order in which  *)
(* ULTs get to them within such a stretch changes only which object each   *)
(* is given.                                                               *)
(***************************************************************************)
EXTENDS Caches, FiniteSets

CONSTANTS
  Threads,       \* the ULTs that call
  MayCall,       \* the calls they make, see below
  InitialOps,    \* operation ids made by mona_init_na_pool (16)
  MaxCalls,      \* bound on the calls made
  MaxQueued,     \* bound on the messages that wait in the queue
  MaxFailures    \* bound on the things that fail

VARIABLES
  pool,          \* the free lists and what came from them
  na,            \* operations NA has accepted and not completed
  ult,           \* where each ULT is, and the call it makes
  prob_active,   \* an unexpected receive is posted and not yet reaped
  queue_active,  \* a ULT listens to NA (pending_msg_queue_active)
  up,            \* the instance: "up" or, once finalized, "down"
  stale,         \* the buffer a ULT queued and its local msg still points to
  calls,         \* calls made so far
  larges,        \* large messages sent so far
  failures,      \* things that have failed so far
  short          \* mona_iput or mona_iget has run out of memory

bounds == <<calls, larges, failures, short>>
inst   == <<prob_active, queue_active, up, stale>>
vars   == <<pool, na, ult, inst, bounds>>

-----------------------------------------------------------------------------
(***************************************************************************)
(* The calls of the interface.  `op' is what the function does, `path' the *)
(* kind of message it uses, `mem' whether the caller brings the memory     *)
(* handle, and `by' who runs it: the calling ULT, or one of its own whose  *)
(* result the caller waits for with the request it was given.              *)
(***************************************************************************)
Sends(path, mem)    == [op |-> "send", path |-> path, mem |-> mem, by |-> "caller"]
Receives(path, mem) == [op |-> "recv", path |-> path, mem |-> mem, by |-> "caller"]
Spawned(c)          == [c EXCEPT !.by = "ult"]

mona_send_nc    == Sends("expected", FALSE)
mona_send       == mona_send_nc
mona_isend      == Spawned(mona_send)
mona_isend_nc   == Spawned(mona_send_nc)
mona_send_mem   == Sends("expected", TRUE)
mona_isend_mem  == Spawned(mona_send_mem)
mona_recv_nc    == Receives("expected", FALSE)
mona_recv       == mona_recv_nc
mona_irecv      == Spawned(mona_recv)
mona_irecv_nc   == Spawned(mona_recv_nc)
mona_recv_mem   == Receives("expected", TRUE)
mona_irecv_mem  == Spawned(mona_recv_mem)

mona_usend_nc   == Sends("unexpected", FALSE)
mona_usend      == mona_usend_nc
mona_uisend     == Spawned(mona_usend)
mona_uisend_nc  == Spawned(mona_usend_nc)
mona_usend_mem  == Sends("unexpected", TRUE)
mona_uisend_mem == Spawned(mona_usend_mem)
mona_urecv_nc   == Receives("unexpected", FALSE)
mona_urecv      == mona_urecv_nc
mona_uirecv     == Spawned(mona_urecv)
mona_uirecv_nc  == Spawned(mona_urecv_nc)
mona_urecv_mem  == Receives("unexpected", TRUE)
mona_uirecv_mem == Spawned(mona_urecv_mem)
mona_uiprobe    == [mona_urecv EXCEPT !.op = "probe"]

(***************************************************************************)
(* The functions of mona.c that hand one operation to NA.  The blocking    *)
(* ones take an operation id from the cache; the others are given one by   *)
(* the caller, and give it a request to wait for.                          *)
(***************************************************************************)
Blocking(path)    == [op |-> "oper", path |-> path, mem |-> FALSE, by |-> "caller"]
NonBlocking(path) == [op |-> "ioper", path |-> path, mem |-> FALSE, by |-> "caller"]

mona_msg_send_unexpected  == Blocking("unexpected")
mona_msg_recv_unexpected  == Blocking("unexpected")
mona_msg_send_expected    == Blocking("expected")
mona_msg_recv_expected    == Blocking("expected")
mona_put                  == Blocking("rma")
mona_get                  == Blocking("rma")
mona_msg_isend_unexpected == NonBlocking("unexpected")
mona_msg_irecv_unexpected == NonBlocking("unexpected")
mona_msg_isend_expected   == NonBlocking("expected")
mona_msg_irecv_expected   == NonBlocking("expected")
mona_iput                 == NonBlocking("rma")
mona_iget                 == NonBlocking("rma")

(***************************************************************************)
(* NB_OP_INIT and NB_OP_POST: a collective runs in a ULT of its own.  The  *)
(* macros make the eventual themselves.  To the caches its body is a       *)
(* sequence of sends and receives; one send stands for it.                 *)
(***************************************************************************)
NB_OP == [mona_send EXCEPT !.by = "macro"]

Calls == {mona_send, mona_isend, mona_send_mem, mona_isend_mem,
          mona_recv, mona_irecv, mona_recv_mem, mona_irecv_mem,
          mona_usend, mona_uisend, mona_usend_mem, mona_uisend_mem,
          mona_urecv, mona_uirecv, mona_urecv_mem, mona_uirecv_mem, mona_uiprobe,
          mona_msg_send_unexpected, mona_msg_send_expected, mona_put,
          mona_msg_isend_unexpected, mona_msg_isend_expected, mona_iput, NB_OP}

Idle == [pc |-> "idle", call |-> [op |-> "none"]]

ASSUME OperationsAssumption ==
  /\ "pending" \notin Threads          \* the holder of the queue's messages
  /\ MayCall \subseteq Calls
  /\ InitialOps \in Nat
  /\ MaxCalls \in Nat
  /\ MaxQueued \in Nat
  /\ MaxFailures \in Nat

-----------------------------------------------------------------------------
Slot(t, role) == <<t, role>>
Holds(t, role) == Slot(t, role) \in DOMAIN pool.use
Object(t, role) == pool.use[Slot(t, role)]

(***************************************************************************)
(* The request of a blocking operation is a local variable of its ULT.     *)
(***************************************************************************)
Stack(t) == <<"stack", t>>

(***************************************************************************)
(* The operation id a caller of a non-blocking operation brings.           *)
(***************************************************************************)
UserOp(t) == <<"userop", t>>

NoBuffer == <<"none", 0>>

Operation(op, buf, req) ==
  [op |-> op, buf |-> buf, req |-> req, cancelled |-> FALSE]

Busy(op) == \E o \in na : o.op = op

At(t, l)   == ult[t].pc = l
call(t)    == ult[t].call
Goto(t, l) == ult' = [ult EXCEPT ![t].pc = l]
Begin(t, c) == ult' = [ult EXCEPT ![t] = [pc |-> "begin", call |-> c]]
Done(t)    == ult' = [ult EXCEPT ![t] = Idle]

Fails == failures < MaxFailures /\ failures' = failures + 1

(***************************************************************************)
(* NA refuses an operation: any, as a failure, and always one whose id is  *)
(* that of an operation it still works on (NA_BUSY).                       *)
(***************************************************************************)
Refused(id) == Fails \/ (Busy(id) /\ failures' = failures + 1)

Value(req) == pool.ev[req]
IsSet(req) == req \in DOMAIN pool.ev /\ Value(req) # "unset"

Init ==
  /\ pool = [EmptyPool EXCEPT !.made["op"] = InitialOps,
                              !.free["op"] = [i \in 1..InitialOps |-> <<"op", i>>]]
  /\ na = {}
  /\ ult = [t \in Threads |-> Idle]
  /\ prob_active = FALSE
  /\ queue_active = FALSE
  /\ up = "up"
  /\ stale = [t \in Threads |-> NoBuffer]
  /\ calls = 0
  /\ larges = 0
  /\ failures = 0
  /\ short = FALSE

-----------------------------------------------------------------------------
(***************************************************************************)
(* What every call does last: the `finish' labels give back the message    *)
(* buffers, and what other local variables point to is forgotten.  A ULT   *)
(* of its own sets the eventual of the caller's request.                   *)
(***************************************************************************)
GiveBack_(p, t, role) ==      \* `expected' the wrong way round
  LET other == IF call(t).path = "expected" THEN "unexpected" ELSE "expected" IN
  IF Slot(t, role) \in DOMAIN p.use THEN ReturnMsg(p, Slot(t, role), other) ELSE p

GiveBack(p, t, role) ==
  IF Slot(t, role) \in DOMAIN p.use THEN ReturnMsg(p, Slot(t, role), call(t).path) ELSE p

Locals(t) == {Slot(t, role) : role \in {"op", "msg", "mem", "ack", "ackop", "ackreq"}}

Leave(p, t) == Forget(GiveBack(GiveBack(p, t, "mem"), t, "msg"), Locals(t))

Finish(t, p, status) ==
  LET q == Leave(p, t) IN
  IF call(t).by = "caller"
    THEN pool' = q /\ Done(t)
    ELSE /\ pool' = IF Object(t, "req") \in DOMAIN q.ev
                     THEN SetEventual(q, Object(t, "req"), status) ELSE q
         /\ Goto(t, "owner")

(***************************************************************************)
(* A blocking operation: an id from the cache, an eventual on the stack.   *)
(* One that NA refuses is over at once, with an error.                     *)
(***************************************************************************)
StartBlocking(t, p, buf, next) ==
  LET q  == GetOpId(p, Slot(t, "op"))
      id == q.use[Slot(t, "op")] IN
  /\ Goto(t, next)
  /\ \/ /\ ~ Busy(id)
        /\ pool' = SetEventual(q, Stack(t), "unset")
        /\ na' = na \cup {Operation(id, buf, Stack(t))}
        /\ UNCHANGED failures
     \/ /\ Refused(id)
        /\ pool' = SetEventual(q, Stack(t), "error")
        /\ UNCHANGED na

(***************************************************************************)
(* The blocking operation of t is over; the pool it leaves.                *)
(***************************************************************************)
BlockingOver(t) == IsSet(Stack(t))
AfterBlocking(t) == ReturnOpId(WaitInternal(pool, Stack(t)), Slot(t, "op"))

(***************************************************************************)
(* The program makes a call.  A non-blocking one takes a request and makes *)
(* a ULT, which runs the body; NB_OP gives the request the eventual it has *)
(* made.                                                                   *)
(***************************************************************************)
Request(p, t, c) ==
  LET q == GetReq(p, Slot(t, "req")) IN
  IF c.by = "macro" THEN SetEventual(q, q.use[Slot(t, "req")], "unset") ELSE q

Enter(t) ==
  /\ up = "up"
  /\ At(t, "idle")
  /\ calls < MaxCalls
  /\ calls' = calls + 1
  /\ \E c \in MayCall :
       \/ /\ pool' = IF c.by = "caller" THEN pool ELSE Request(pool, t, c)
          /\ Begin(t, c)
          /\ UNCHANGED failures
       \/ /\ c.by # "caller"          \* ABT_thread_create fails
          /\ Fails
          /\ pool' = ReturnReq(Request(pool, t, c), Slot(t, "req"))
          /\ UNCHANGED ult
       \/ /\ c.by = "macro"           \* ABT_eventual_create fails
          /\ Fails
          /\ UNCHANGED <<pool, ult>>
  /\ UNCHANGED <<na, inst, larges, short>>

(***************************************************************************)
(* The caller waits for the request it was given.                          *)
(***************************************************************************)
Own(t) ==
  /\ At(t, "owner")
  /\ IsSet(Object(t, "req"))
  /\ pool' = Forget(Wait(pool, Slot(t, "req")), {Slot(t, "req")})
  /\ Done(t)
  /\ UNCHANGED <<na, inst, bounds>>

-----------------------------------------------------------------------------
(***************************************************************************)
(* The functions of mona.c that hand NA one operation and wait for it.     *)
(***************************************************************************)
Oper(t) ==
  /\ At(t, "begin")
  /\ call(t).op = "oper"
  /\ StartBlocking(t, pool, NoBuffer, "oper")
  /\ UNCHANGED <<inst, calls, larges, short>>

OperOver(t) ==
  /\ At(t, "oper")
  /\ BlockingOver(t)
  /\ Finish(t, AfterBlocking(t), Value(Stack(t)))
  /\ UNCHANGED <<na, inst, bounds>>

(***************************************************************************)
(* A non-blocking operation on an operation id of the caller.  mona_iput   *)
(* and mona_iget drop the eventual of the request before they make a new   *)
(* one; the others overwrite it, and have it when they cannot.             *)
(***************************************************************************)
Ioper(t) ==
  /\ At(t, "begin")
  /\ call(t).op = "ioper"
  /\ LET p == GetReq(pool, Slot(t, "req"))
         r == p.use[Slot(t, "req")]
         q == IF call(t).path = "rma" THEN DropEventual(p, r) ELSE p IN
     \/ /\ pool' = SetEventual(q, r, "unset")
        /\ na' = na \cup {Operation(UserOp(t), NoBuffer, r)}
        /\ Goto(t, "owner")
        /\ UNCHANGED <<failures, short>>
     \/ /\ Fails                      \* NA refuses
        /\ pool' = ReturnReq(SetEventual(q, r, "unset"), Slot(t, "req"))
        /\ Done(t)
        /\ UNCHANGED <<na, short>>
     \/ /\ Fails                      \* ABT_eventual_create fails
        /\ pool' = ReturnReq(q, Slot(t, "req"))
        /\ short' = (short \/ call(t).path = "rma")
        /\ Done(t)
        /\ UNCHANGED na
  /\ UNCHANGED <<inst, calls, larges>>

-----------------------------------------------------------------------------
(***************************************************************************)
(* A message that fits in a buffer of the cache is copied to it and sent.  *)
(***************************************************************************)
SendSmall(t) ==
  /\ At(t, "begin")
  /\ call(t).op = "send"
  /\ ~ call(t).mem
  /\ LET p == GetMsg(pool, Slot(t, "msg"), call(t).path) IN
     \/ StartBlocking(t, p, p.use[Slot(t, "msg")], "sending")
     \/ Fails /\ Finish(t, p, "error") /\ UNCHANGED na
  /\ UNCHANGED <<inst, calls, larges, short>>

(***************************************************************************)
(* A large message: mona_send_nc keeps its own buffer, which it has no use *)
(* for, around mona_send_mem.  That one takes a buffer for the handle, one *)
(* for the acknowledgement, and posts the receive for it.                  *)
(***************************************************************************)
SendLarge(t) ==
  /\ At(t, "begin")
  /\ call(t).op = "send"
  /\ LET path == call(t).path
         p == IF call(t).mem THEN pool ELSE GetMsg(pool, Slot(t, "msg"), path)
         q == GetMsg(p, Slot(t, "mem"), path)
         r == GetReq(GetOpId(GetMsg(q, Slot(t, "ack"), path), Slot(t, "ackop")),
                     Slot(t, "ackreq"))
         id == r.use[Slot(t, "ackop")]
         ackreq == r.use[Slot(t, "ackreq")] IN
     \/ /\ ~ call(t).mem              \* the buffer cannot be exposed
        /\ Fails
        /\ Finish(t, p, "error")
        /\ UNCHANGED <<na, larges>>
     \/ /\ Fails                      \* the handle cannot be serialized
        /\ Finish(t, q, "error")
        /\ UNCHANGED <<na, larges>>
     \/ /\ Refused(id)
        /\ Finish(t, ReturnOpId(ReturnReq(r, Slot(t, "ackreq")), Slot(t, "ackop")),
                  "error")
        /\ larges' = larges + 1
        /\ UNCHANGED na
     \/ /\ ~ Busy(id)
        /\ pool' = SetEventual(r, ackreq, "unset")
        /\ na' = na \cup {Operation(id, r.use[Slot(t, "ack")], ackreq)}
        /\ larges' = larges + 1
        /\ Goto(t, "handle")
        /\ UNCHANGED failures
  /\ UNCHANGED <<inst, calls, short>>

SendHandle(t) ==
  /\ At(t, "handle")
  /\ StartBlocking(t, pool, Object(t, "mem"), "handlesent")
  /\ UNCHANGED <<inst, calls, larges, short>>

Sent(t) ==
  /\ At(t, "sending")
  /\ BlockingOver(t)
  /\ Finish(t, AfterBlocking(t), Value(Stack(t)))
  /\ UNCHANGED <<na, inst, bounds>>

(***************************************************************************)
(* NA is asked to cancel an operation, if it still has it.                 *)
(***************************************************************************)
Cancel(id) ==
  na' = {IF o.op = id THEN [o EXCEPT !.cancelled = TRUE] ELSE o : o \in na}

(***************************************************************************)
(* The buffer of the acknowledgement goes back to the cache on an error.   *)
(***************************************************************************)
HandleSent_(t) ==
  /\ At(t, "handlesent")
  /\ BlockingOver(t)
  /\ IF Value(Stack(t)) = "ok"
       THEN /\ pool' = AfterBlocking(t)
            /\ Goto(t, "ackwait")
            /\ UNCHANGED na
       ELSE /\ Cancel(Object(t, "ackop"))
            /\ Finish(t, ReturnMsg(ReturnOpId(AfterBlocking(t), Slot(t, "ackop")),
                                   Slot(t, "ack"), call(t).path), "error")
  /\ UNCHANGED <<inst, bounds>>

(***************************************************************************)
(* When the handle cannot be sent the receive for the acknowledgement is   *)
(* cancelled.  Its operation id goes back at once, its request and its     *)
(* buffer are forgotten.                                                   *)
(***************************************************************************)
HandleSent(t) ==
  /\ At(t, "handlesent")
  /\ BlockingOver(t)
  /\ IF Value(Stack(t)) = "ok"
       THEN /\ pool' = AfterBlocking(t)
            /\ Goto(t, "ackwait")
            /\ UNCHANGED na
       ELSE /\ Cancel(Object(t, "ackop"))
            /\ Finish(t, ReturnOpId(AfterBlocking(t), Slot(t, "ackop")), "error")
  /\ UNCHANGED <<inst, bounds>>

(***************************************************************************)
(* The acknowledgement has come; its buffer is forgotten.                  *)
(***************************************************************************)
Acknowledged(t) ==
  /\ At(t, "ackwait")
  /\ IsSet(Object(t, "ackreq"))
  /\ Finish(t, ReturnOpId(Wait(pool, Slot(t, "ackreq")), Slot(t, "ackop")),
            Value(Object(t, "ackreq")))
  /\ UNCHANGED <<na, inst, bounds>>

-----------------------------------------------------------------------------
(***************************************************************************)
(* mona_recv posts its own buffer and waits for the message.               *)
(***************************************************************************)
Recv(t) ==
  /\ At(t, "begin")
  /\ call(t).op = "recv"
  /\ call(t).path = "expected"
  /\ LET p == GetMsg(pool, Slot(t, "msg"), "expected") IN
     StartBlocking(t, p, p.use[Slot(t, "msg")], "receiving")
  /\ UNCHANGED <<inst, calls, larges, short>>

Received(t) ==
  /\ At(t, "receiving")
  /\ BlockingOver(t)
  /\ IF Value(Stack(t)) = "ok"
       THEN pool' = AfterBlocking(t) /\ Goto(t, "got")
       ELSE Finish(t, AfterBlocking(t), "error")
  /\ UNCHANGED <<na, inst, bounds>>

-----------------------------------------------------------------------------
(***************************************************************************)
(* The receive shared by the calls on unexpected messages: three fields of *)
(* the instance point to what it uses.                                     *)
(***************************************************************************)
ProbMsg == <<"instance", "prob_msg">>
ProbId  == <<"instance", "prob_id">>
ProbReq == <<"instance", "prob_req">>

Queued == {s \in DOMAIN pool.use : s[1] = "pending"}

WantsMessage(t) ==
  At(t, "begin") /\ call(t).path = "unexpected" /\ call(t).op \in {"recv", "probe"}

(***************************************************************************)
(* A message of the queue matches.  A receive takes it out; a probe looks  *)
(* at it.                                                                  *)
(***************************************************************************)
TakeQueued(t) ==
  /\ WantsMessage(t)
  /\ \E s \in Queued :
       IF call(t).op = "recv"
         THEN pool' = Move(pool, s, Slot(t, "msg")) /\ Goto(t, "got")
         ELSE Finish(t, pool, "ok")
  /\ UNCHANGED <<na, inst, bounds>>

(***************************************************************************)
(* None matches and nobody listens: t does.  While somebody listens t      *)
(* sleeps, and looks at the queue when woken (see UnexpectedRecv).         *)
(***************************************************************************)
Claim(t) ==
  /\ WantsMessage(t)
  /\ ~ queue_active
  /\ queue_active' = TRUE
  /\ Goto(t, "listen")
  /\ UNCHANGED <<pool, na, prob_active, up, stale, bounds>>

(***************************************************************************)
(* The operation id is not given back when NA refuses.                     *)
(***************************************************************************)
Listen_(t) ==
  /\ At(t, "listen")
  /\ LET p == GetReq(GetOpId(GetMsg(pool, ProbMsg, "unexpected"), ProbId), ProbReq)
         id == p.use[ProbId] IN
     \/ /\ prob_active
        /\ Goto(t, "listening")
        /\ UNCHANGED <<pool, na, prob_active, failures>>
     \/ /\ ~ prob_active
        /\ ~ Busy(id)
        /\ pool' = SetEventual(p, p.use[ProbReq], "unset")
        /\ na' = na \cup {Operation(id, p.use[ProbMsg], p.use[ProbReq])}
        /\ prob_active' = TRUE
        /\ Goto(t, "listening")
        /\ UNCHANGED failures
     \/ /\ ~ prob_active
        /\ stale[t] = NoBuffer
        /\ Refused(id)
        /\ Finish(t, Forget(ReturnMsg(ReturnReq(p, ProbReq), ProbMsg, "unexpected"),
                            {ProbId}), "error")
        /\ UNCHANGED <<na, prob_active>>
  /\ UNCHANGED <<queue_active, up, stale, calls, larges, short>>

(***************************************************************************)
(* A listener takes over the receive a probe has left behind, or posts     *)
(* one.  When NA refuses, t leaves by the error exit, which does not give  *)
(* up the role of listener.                                                *)
(***************************************************************************)
Listen(t) ==
  /\ At(t, "listen")
  /\ LET p == GetReq(GetOpId(GetMsg(pool, ProbMsg, "unexpected"), ProbId), ProbReq)
         id == p.use[ProbId] IN
     \/ /\ prob_active
        /\ Goto(t, "listening")
        /\ UNCHANGED <<pool, na, prob_active, failures>>
     \/ /\ ~ prob_active
        /\ ~ Busy(id)
        /\ pool' = SetEventual(p, p.use[ProbReq], "unset")
        /\ na' = na \cup {Operation(id, p.use[ProbMsg], p.use[ProbReq])}
        /\ prob_active' = TRUE
        /\ Goto(t, "listening")
        /\ UNCHANGED failures
     \/ /\ ~ prob_active
        /\ stale[t] = NoBuffer
        /\ Refused(id)
        /\ Finish(t, ReturnOpId(ReturnMsg(ReturnReq(p, ProbReq),
                                          ProbMsg, "unexpected"), ProbId), "error")
        /\ UNCHANGED <<na, prob_active>>
  /\ UNCHANGED <<queue_active, up, stale, calls, larges, short>>

(***************************************************************************)
(* A probe that finds the receive incomplete leaves it to the next call.   *)
(***************************************************************************)
StopListening(t) ==
  /\ At(t, "listening")
  /\ call(t).op = "probe"
  /\ ~ IsSet(pool.use[ProbReq])
  /\ queue_active' = FALSE
  /\ Finish(t, pool, "ok")
  /\ UNCHANGED <<na, prob_active, up, stale, bounds>>

(***************************************************************************)
(* The buffer of a failed receive is given back here and again at `error'. *)
(***************************************************************************)
Reap_(t) ==
  /\ At(t, "listening")
  /\ IsSet(pool.use[ProbReq])
  /\ prob_active' = FALSE
  /\ LET p == ReturnOpId(Wait(pool, ProbReq), ProbId) IN
     \/ /\ Value(pool.use[ProbReq]) = "error"
        /\ stale[t] = NoBuffer
        /\ LET q == ReturnMsg(p, ProbMsg, "unexpected") IN
           Finish(t, Forget([q EXCEPT !.free["unexpected"] = <<p.use[ProbMsg]>> \o @],
                            {ProbReq}), "error")
        /\ UNCHANGED <<queue_active, stale>>
     \/ /\ Value(pool.use[ProbReq]) = "ok"
        /\ call(t).op = "recv"
        /\ pool' = Move(p, ProbMsg, Slot(t, "msg"))
        /\ queue_active' = FALSE
        /\ stale' = [stale EXCEPT ![t] = NoBuffer]
        /\ Goto(t, "got")
     \/ /\ Value(pool.use[ProbReq]) = "ok"
        /\ Cardinality(Queued) < MaxQueued
        /\ LET q == Move(p, ProbMsg, <<"pending", p.use[ProbMsg]>>) IN
           IF call(t).op = "probe"
             THEN /\ queue_active' = FALSE
                  /\ Finish(t, q, "ok")
                  /\ UNCHANGED stale
             ELSE /\ pool' = q
                  /\ stale' = [stale EXCEPT ![t] = p.use[ProbMsg]]
                  /\ Goto(t, "listen")
                  /\ UNCHANGED queue_active
  /\ UNCHANGED <<na, up, bounds>>

(***************************************************************************)
(* The receive is over: its message is the caller's, or goes to the queue, *)
(* and then msg still points to its buffer while a receive listens again.  *)
(***************************************************************************)
Reap(t) ==
  /\ At(t, "listening")
  /\ IsSet(pool.use[ProbReq])
  /\ prob_active' = FALSE
  /\ LET p == ReturnOpId(Wait(pool, ProbReq), ProbId) IN
     \/ /\ Value(pool.use[ProbReq]) = "error"
        /\ stale[t] = NoBuffer
        /\ Finish(t, Forget(ReturnMsg(p, ProbMsg, "unexpected"), {ProbReq}), "error")
        /\ UNCHANGED <<queue_active, stale>>
     \/ /\ Value(pool.use[ProbReq]) = "ok"
        /\ call(t).op = "recv"
        /\ pool' = Move(p, ProbMsg, Slot(t, "msg"))
        /\ queue_active' = FALSE
        /\ stale' = [stale EXCEPT ![t] = NoBuffer]
        /\ Goto(t, "got")
     \/ /\ Value(pool.use[ProbReq]) = "ok"
        /\ Cardinality(Queued) < MaxQueued
        /\ LET q == Move(p, ProbMsg, <<"pending", p.use[ProbMsg]>>) IN
           IF call(t).op = "probe"
             THEN /\ queue_active' = FALSE
                  /\ Finish(t, q, "ok")
                  /\ UNCHANGED stale
             ELSE /\ pool' = q
                  /\ stale' = [stale EXCEPT ![t] = p.use[ProbMsg]]
                  /\ Goto(t, "listen")
                  /\ UNCHANGED queue_active
  /\ UNCHANGED <<na, up, bounds>>

(***************************************************************************)
(* The two error exits again, of a call that queued a message before: the  *)
(* exit also gives back the buffer msg points to, which is in the queue,   *)
(* with another call, or wherever that one left it.  The queue and the     *)
(* list link buffers by the same field; nothing is said of what follows.   *)
(***************************************************************************)
Recycle(t) ==
  /\ stale[t] # NoBuffer
  /\ LET Again(p) == [p EXCEPT !.free["unexpected"] = <<stale[t]>> \o @] IN
     \/ /\ At(t, "listen")
        /\ ~ prob_active
        /\ LET p == GetReq(GetOpId(GetMsg(pool, ProbMsg, "unexpected"), ProbId),
                           ProbReq)
               q == ReturnMsg(ReturnReq(p, ProbReq), ProbMsg, "unexpected") IN
           /\ Refused(p.use[ProbId])
           /\ Finish(t, Again(ReturnOpId(q, ProbId)), "error")
        /\ UNCHANGED prob_active
     \/ /\ At(t, "listening")
        /\ IsSet(pool.use[ProbReq])
        /\ Value(pool.use[ProbReq]) = "error"
        /\ prob_active' = FALSE
        /\ LET p == ReturnOpId(Wait(pool, ProbReq), ProbId)
               q == Forget(ReturnMsg(p, ProbMsg, "unexpected"), {ProbReq}) IN
           Finish(t, Again(q), "error")
        /\ UNCHANGED failures
  /\ up' = "broken"
  /\ UNCHANGED <<na, queue_active, stale, calls, larges, short>>

-----------------------------------------------------------------------------
(***************************************************************************)
(* The message is in the hands of t.  A small one is copied.  For a large  *)
(* one the receiver's memory is exposed, unless the caller did that, and   *)
(* read into, and the buffer of the message carries the acknowledgement.   *)
(***************************************************************************)
CopySmall(t) ==
  /\ At(t, "got")
  /\ ~ call(t).mem
  /\ Finish(t, pool, "ok")
  /\ UNCHANGED <<na, inst, bounds>>

GetLarge(t) ==
  /\ At(t, "got")
  /\ \/ StartBlocking(t, pool, NoBuffer, "getting")
     \/ Goto(t, "acknowledge") /\ UNCHANGED <<pool, na, failures>>  \* no data
     \/ Fails /\ Finish(t, pool, "error") /\ UNCHANGED na
  /\ UNCHANGED <<inst, calls, larges, short>>

Fetched(t) ==
  /\ At(t, "getting")
  /\ BlockingOver(t)
  /\ IF Value(Stack(t)) = "ok"
       THEN pool' = AfterBlocking(t) /\ Goto(t, "acknowledge")
       ELSE Finish(t, AfterBlocking(t), "error")
  /\ UNCHANGED <<na, inst, bounds>>

Acknowledge(t) ==
  /\ At(t, "acknowledge")
  /\ \/ StartBlocking(t, pool, Object(t, "msg"), "sending")
     \/ Fails /\ Finish(t, pool, "error") /\ UNCHANGED na
  /\ UNCHANGED <<inst, calls, larges, short>>

-----------------------------------------------------------------------------
(***************************************************************************)
(* NA completes an operation and mona_callback sets its eventual.  A       *)
(* cancelled operation may complete either way.                            *)
(***************************************************************************)
mona_callback(o, value) ==
  /\ na' = na \ {o}
  /\ pool' = SetEventual(pool, o.req, value)

Complete ==
  \E o \in na :
    /\ \/ mona_callback(o, "ok") /\ UNCHANGED failures
       \/ mona_callback(o, "error") /\ IF o.cancelled THEN UNCHANGED failures ELSE Fails
    /\ UNCHANGED <<ult, inst, calls, larges, short>>

(***************************************************************************)
(* mona_finalize, called when no call is under way: the receive of a probe *)
(* is cancelled and waited for; if it cannot be cancelled it stays.        *)
(***************************************************************************)
CancelProbe ==
  /\ up = "up"
  /\ \A t \in Threads : At(t, "idle")
  /\ \/ /\ prob_active
        /\ Cancel(pool.use[ProbId])
        /\ up' = "closing"
        /\ UNCHANGED failures
     \/ /\ prob_active
        /\ Fails
        /\ up' = "stopped"
        /\ UNCHANGED na
     \/ /\ ~ prob_active
        /\ up' = "stopped"
        /\ UNCHANGED <<na, failures>>
  /\ UNCHANGED <<pool, ult, prob_active, queue_active, stale, calls, larges, short>>

ReapProbe ==
  /\ up = "closing"
  /\ IsSet(pool.use[ProbReq])
  /\ pool' = ReturnMsg(ReturnOpId(Wait(pool, ProbReq), ProbId), ProbMsg, "unexpected")
  /\ up' = "stopped"
  /\ UNCHANGED <<na, ult, prob_active, queue_active, stale, bounds>>

(***************************************************************************)
(* The progress loop has been joined: the lists are cleared and everything *)
(* else that pointed to an object goes with the instance, the queue of     *)
(* pending messages included.                                              *)
(***************************************************************************)
Free ==
  /\ up = "stopped"
  /\ pool' = Forget(ClearMsgs(ClearReqs(ClearOpIds(pool))), DOMAIN pool.use)
  /\ up' = "down"
  /\ UNCHANGED <<na, ult, prob_active, queue_active, stale, bounds>>

-----------------------------------------------------------------------------
Step(t) ==
  \/ Enter(t) \/ Own(t) \/ Oper(t) \/ OperOver(t) \/ Ioper(t)
  \/ SendSmall(t) \/ SendLarge(t) \/ SendHandle(t) \/ Sent(t) \/ HandleSent(t)
  \/ Acknowledged(t) \/ Recv(t) \/ Received(t)
  \/ TakeQueued(t) \/ Claim(t) \/ Listen(t) \/ StopListening(t) \/ Reap(t)
  \/ CopySmall(t) \/ GetLarge(t) \/ Fetched(t) \/ Acknowledge(t)

(***************************************************************************)
(* Until an error exit breaks the lists.                                   *)
(***************************************************************************)
ListsIntact == up # "broken"

Next ==
  /\ ListsIntact
  /\ \/ Complete \/ CancelProbe \/ ReapProbe \/ Free
     \/ \E t \in Threads : Step(t) \/ Recycle(t)

Spec == Init /\ [][Next]_vars

-----------------------------------------------------------------------------
(***************************************************************************)
(* Types; each list holds objects of its own kind: a buffer on the wrong   *)
(* list would be too small for the messages of the other path.  Nothing is *)
(* said here and below once an error exit has broken the lists.            *)
(***************************************************************************)
Objects  == Kinds \X (Nat \ {0})
Requests == ({"req"} \X (Nat \ {0})) \cup ({"stack"} \X Threads)

TypeOK ==
  /\ up \in {"up", "closing", "stopped", "down", "broken"}
  /\ ListsIntact =>
       /\ \A k \in Kinds : pool.free[k] \in Seq({k} \X (Nat \ {0}))
       /\ pool.made \in [Kinds -> Nat]
       /\ \A s \in DOMAIN pool.use : pool.use[s] \in Objects
       /\ \A r \in DOMAIN pool.ev :
            r \in Requests /\ pool.ev[r] \in {"unset", "ok", "error"}
       /\ pool.lost \cup pool.freed \subseteq Objects
       /\ \A o \in na : o.req \in Requests /\ o.cancelled \in BOOLEAN
       /\ \A t \in Threads : ult[t] = Idle \/ call(t) \in Calls
       /\ prob_active \in BOOLEAN /\ queue_active \in BOOLEAN
       /\ short \in BOOLEAN

(***************************************************************************)
(* Where an object is: on a list, pointed to, forgotten, freed.            *)
(***************************************************************************)
Places(o) ==
  (UNION {{<<k, i>> : i \in {j \in 1..Len(pool.free[k]) : pool.free[k][j] = o}} : k \in Kinds})
  \cup {s \in DOMAIN pool.use : pool.use[s] = o}
  \cup {<<"lost", 0>> : x \in pool.lost \cap {o}}
  \cup {<<"freed", 0>> : x \in pool.freed \cap {o}}

Made(k) == {<<k, n>> : n \in 1..pool.made[k]}

(***************************************************************************)
(* Every object is in exactly one place: no path through the functions     *)
(* gives an object back twice, gives back one that is still pointed to,    *)
(* frees one twice, or lets two calls have the same, but for the exit that *)
(* gives back a queued buffer.                                             *)
(***************************************************************************)
Conserved ==
  ListsIntact => \A k \in Kinds : \A o \in Made(k) : Cardinality(Places(o)) = 1

(***************************************************************************)
(* What NA still works on is not for others: no buffer it may write to and *)
(* no request its callback will set is on a list or freed, not even when   *)
(* the call that started it has failed and gone.  An operation id may be   *)
(* back on the list only if it was cancelled.  As long as no queued buffer *)
(* was given back.                                                         *)
(***************************************************************************)
Reusable == (UNION {ToSet(pool.free[k]) : k \in Kinds}) \cup pool.freed

NAOwns ==
  ListsIntact =>
    \A o \in na :
      /\ o.buf \notin Reusable
      /\ o.req \notin Reusable
      /\ o.op \in Reusable => o.cancelled

(***************************************************************************)
(* What the functions forget, while the instance lives: one buffer for     *)
(* each large message, for each failure the request of the operation and   *)
(* that of the ULT it failed in, never an operation id.                    *)
(***************************************************************************)
Lost(kinds) == {o \in pool.lost : o[1] \in kinds}

LossBounded ==
  up = "up" =>
    /\ Cardinality(Lost({"expected", "unexpected"})) <= larges
    /\ Cardinality(Lost({"req"})) <= 2 * failures
    /\ Lost({"op"}) = {}

(***************************************************************************)
(* No ULT waits for a request without an eventual, which mona_wait does    *)
(* not survive: ABT_eventual_wait fails and leaves the pointer to the      *)
(* result NULL.  A request whose creation ran out of memory in mona_iput   *)
(* or mona_iget goes back to the cache in that state, and then a later     *)
(* call may be given it.                                                   *)
(***************************************************************************)
NoNullWait ==
  ListsIntact =>
    \A t \in Threads :
      At(t, "owner") /\ ~ short => Object(t, "req") \in DOMAIN pool.ev

=============================================================================

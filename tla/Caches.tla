------------------------------- MODULE Caches -------------------------------
(***************************************************************************)
(* The free lists of an instance (mona-types.h): operation ids, requests,  *)
(* and message buffers for the expected and for the unexpected path.  Each *)
(* list is behind a mutex of its own and is last-in first-out.             *)
(*                                                                         *)
(* A pool is the state of the lists and of everything that ever came from  *)
(* them; the operators below are the functions of mona-types.h as          *)
(* functions from a pool to the next.  An object is <<kind, n>>, the n-th  *)
(* of its kind to be made.  A slot <<holder, role>> is a pointer to an     *)
(* object: a local variable of a call, a field of the instance, an entry   *)
(* of its queue of pending messages.                                       *)
(***************************************************************************)
EXTENDS Naturals, SequencesExt

Kinds == {"op", "req", "expected", "unexpected"}

(***************************************************************************)
(* free is the lists, head first; made counts the objects of each kind;    *)
(* use says which object each slot points to; ev is the eventual of each   *)
(* request; lost are the objects that no slot and no list points to any    *)
(* more, freed those given back to the allocator.                          *)
(***************************************************************************)
EmptyPool ==
  [free |-> [k \in Kinds |-> << >>], made |-> [k \in Kinds |-> 0],
   use |-> << >>, ev |-> << >>, lost |-> {}, freed |-> {}]

With(f, x, v) == [y \in DOMAIN f \cup {x} |-> IF y = x THEN v ELSE f[y]]
Without(f, S) == [y \in DOMAIN f \ S |-> f[y]]

(***************************************************************************)
(* Pop the head of a list, or make an object when the list is empty.       *)
(***************************************************************************)
Get(p, slot, kind) ==
  IF p.free[kind] # << >>
    THEN [p EXCEPT !.free[kind] = Tail(@), !.use = With(@, slot, Head(p.free[kind]))]
    ELSE [p EXCEPT !.made[kind] = @ + 1,
                   !.use = With(@, slot, <<kind, p.made[kind] + 1>>)]

(***************************************************************************)
(* Push the object a slot points to on a list.                             *)
(***************************************************************************)
Return(p, slot, list) ==
  [p EXCEPT !.free[list] = <<p.use[slot]>> \o @, !.use = Without(@, {slot})]

(***************************************************************************)
(* The pointer is copied and the original forgotten.                       *)
(***************************************************************************)
Move(p, from, to) ==
  [p EXCEPT !.use = With(Without(@, {from}), to, p.use[from])]

(***************************************************************************)
(* Slots that go out of scope.                                             *)
(***************************************************************************)
Forget(p, slots) ==
  LET gone == slots \cap DOMAIN p.use IN
  [p EXCEPT !.lost = @ \cup {p.use[s] : s \in gone}, !.use = Without(@, gone)]

Clear(p, list) ==
  [p EXCEPT !.freed = @ \cup ToSet(p.free[list]), !.free[list] = << >>]

-----------------------------------------------------------------------------
GetOpId(p, slot)    == Get(p, slot, "op")
ReturnOpId(p, slot) == Return(p, slot, "op")
ClearOpIds(p)       == Clear(p, "op")

(***************************************************************************)
(* A request has an eventual when it is in the domain of ev: "unset", or   *)
(* the value it was set to, "ok" or "error".  Setting it to "unset" stands *)
(* for a new one or for ABT_eventual_reset.                                *)
(***************************************************************************)
SetEventual(p, req, value) == [p EXCEPT !.ev = With(@, req, value)]
DropEventual(p, req)       == [p EXCEPT !.ev = Without(@, {req})]

(***************************************************************************)
(* A new request gets an eventual.  The one of a request from the list is  *)
(* reset, if it has one: ABT_eventual_reset does nothing to a null one.    *)
(***************************************************************************)
GetReq(p, slot) ==
  LET q == Get(p, slot, "req")
      r == q.use[slot] IN
  IF p.free["req"] = << >> \/ r \in DOMAIN p.ev THEN SetEventual(q, r, "unset") ELSE q

ReturnReq(p, slot) == Return(p, slot, "req")
ClearReqs(p)       == Clear(p, "req")

(***************************************************************************)
(* The two paths have lists of their own, since their buffers differ in    *)
(* size.                                                                   *)
(***************************************************************************)
GetMsg(p, slot, path)    == Get(p, slot, path)
ReturnMsg(p, slot, path) == Return(p, slot, path)
ClearMsgs(p)             == Clear(Clear(p, "unexpected"), "expected")

(***************************************************************************)
(* mona_wait_internal frees the eventual; mona_wait frees the request too, *)
(* but only when the operation succeeded.                                  *)
(***************************************************************************)
WaitInternal(p, req) == DropEventual(p, req)

Wait_(p, slot) ==              \* the request goes back to the cache
  LET r == p.use[slot]
      q == WaitInternal(p, r) IN
  IF p.ev[r] = "ok" THEN ReturnReq(q, slot) ELSE q

Wait(p, slot) ==
  LET r == p.use[slot]
      q == WaitInternal(p, r) IN
  IF p.ev[r] = "ok"
    THEN [q EXCEPT !.use = Without(@, {slot}), !.freed = @ \cup {r}]
    ELSE q

=============================================================================

-------------------------- MODULE OperationsProofs --------------------------
(***************************************************************************)
(* Every object of the caches is in exactly one place, and what NA works   *)
(* on is not given to others, for any number of ULTs, calls and failures.  *)
(* The first part is about the functions of Caches: each keeps a pool in   *)
(* order when what it is given is in order.  The second says which slots a *)
(* ULT holds at each point of each call, and that every step leaves it     *)
(* with those of the next point.  The third, from Waits on, says who waits *)
(* for each operation of NA, and that a step touches those of nobody else. *)
(* The fourth, from EventualInv on, says which requests have an eventual.  *)
(* The last, from LossInv on, charges what is forgotten to the failures.   *)
(***************************************************************************)
EXTENDS Operations, SequenceLemmas, FiniteSetTheorems

-----------------------------------------------------------------------------
(***************************************************************************)
(* Free lists.                                                             *)
(***************************************************************************)
NoRepeat(s) == \A i, j \in 1..Len(s) : s[i] = s[j] => i = j

(***************************************************************************)
(* Taking the head of a list.                                              *)
(***************************************************************************)
LEMMA PopList ==
  ASSUME NEW S, NEW s \in Seq(S), s # << >>, NoRepeat(s)
  PROVE  /\ Head(s) \in S /\ Tail(s) \in Seq(S)
         /\ NoRepeat(Tail(s))
         /\ \A x : x \in ToSet(Tail(s)) <=> x \in ToSet(s) /\ x # Head(s)
         /\ Head(s) \in ToSet(s)
<1>1. /\ Len(s) \in Nat \ {0} /\ Head(s) = s[1] /\ Head(s) \in S
      /\ Tail(s) \in Seq(S) /\ Len(Tail(s)) = Len(s) - 1
      /\ \A j \in 1..(Len(s) - 1) : Tail(s)[j] = s[j + 1]
  BY HeadTailProperties, EmptySeq, LenProperties
<1>2. NoRepeat(Tail(s))
  BY <1>1 DEF NoRepeat
<1>3. /\ \A x : x \in ToSet(s) <=> \E j \in 1..Len(s) : x = s[j]
      /\ \A x : x \in ToSet(Tail(s)) <=> \E j \in 1..Len(Tail(s)) : x = Tail(s)[j]
  <2>1. \A x : x \in ToSet(s) <=> \E j \in 1..Len(s) : x = s[j]
    BY ElementsOf
  <2>2. \A x : x \in ToSet(Tail(s)) <=> \E j \in 1..Len(Tail(s)) : x = Tail(s)[j]
    BY <1>1, ElementsOf
  <2> QED
    BY <2>1, <2>2
<1>4. Head(s) \in ToSet(s)
  BY <1>1, <1>3
<1>5. ASSUME NEW x, x \in ToSet(Tail(s)) PROVE x \in ToSet(s) /\ x # Head(s)
  <2>1. PICK j \in 1..(Len(s) - 1) : x = s[j + 1]
    BY <1>1, <1>3, <1>5
  <2>2. 1 \in 1..Len(s) /\ j + 1 \in 1..Len(s) /\ j + 1 # 1
    BY <1>1
  <2> QED
    BY <1>1, <1>3, <2>1, <2>2 DEF NoRepeat
<1>6. ASSUME NEW x, x \in ToSet(s), x # Head(s) PROVE x \in ToSet(Tail(s))
  <2>1. PICK j \in 1..Len(s) : x = s[j]
    BY <1>3, <1>6
  <2>2. j # 1 /\ j - 1 \in 1..(Len(s) - 1) /\ (j - 1) + 1 = j
    BY <1>1, <1>6, <2>1
  <2> QED
    BY <1>1, <1>3, <2>1, <2>2
<1>7. QED
  BY <1>1, <1>2, <1>4, <1>5, <1>6

(***************************************************************************)
(* Pushing an object that is not on the list.                              *)
(***************************************************************************)
LEMMA PushList ==
  ASSUME NEW S, NEW s \in Seq(S), NEW x \in S, NoRepeat(s), x \notin ToSet(s)
  PROVE  /\ <<x>> \o s \in Seq(S)
         /\ NoRepeat(<<x>> \o s)
         /\ \A y : y \in ToSet(<<x>> \o s) <=> y \in ToSet(s) \/ y = x
<1>0. PICK r : r = <<x>> \o s
  OBVIOUS
<1>1. /\ Len(s) \in Nat /\ r \in Seq(S) /\ Len(r) = Len(s) + 1
      /\ r[1] = x
      /\ \A j \in 2..(Len(s) + 1) : r[j] = s[j - 1]
  <2>1. <<x>> \in Seq(S) /\ Len(<<x>>) = 1 /\ <<x>>[1] = x
    OBVIOUS
  <2>2. /\ <<x>> \o s \in Seq(S)
        /\ Len(<<x>> \o s) = Len(<<x>>) + Len(s)
        /\ \A i \in 1..(Len(<<x>>) + Len(s)) :
             (<<x>> \o s)[i] = IF i <= Len(<<x>>) THEN <<x>>[i] ELSE s[i - Len(<<x>>)]
    BY <2>1, ConcatProperties
  <2> QED
    BY <1>0, <2>1, <2>2, LenProperties
<1>2. /\ \A y : y \in ToSet(s) <=> \E j \in 1..Len(s) : y = s[j]
      /\ \A y : y \in ToSet(r) <=> \E j \in 1..Len(r) : y = r[j]
  BY <1>1, ElementsOf
<1>3. NoRepeat(r)
  <2>1. ASSUME NEW i \in 1..Len(r), NEW j \in 1..Len(r), r[i] = r[j], i # j
        PROVE  FALSE
    <3>1. \A l \in 1..Len(r) : l = 1 \/ (l - 1 \in 1..Len(s) /\ r[l] = s[l - 1])
      BY <1>1
    <3>2. \A l \in 1..Len(s) : s[l] # x
      BY <1>2
    <3>3. CASE i = 1
      <4>1. j # 1 /\ r[j] = x
        BY <1>1, <2>1, <3>3
      <4> QED
        BY <3>1, <3>2, <4>1
    <3>4. CASE j = 1
      <4>1. i # 1 /\ r[i] = x
        BY <1>1, <2>1, <3>4
      <4> QED
        BY <3>1, <3>2, <4>1
    <3>5. CASE i # 1 /\ j # 1
      <4>1. /\ i - 1 \in 1..Len(s) /\ j - 1 \in 1..Len(s)
            /\ s[i - 1] = s[j - 1]
        BY <2>1, <3>1, <3>5
      <4>2. i - 1 = j - 1
        BY <4>1 DEF NoRepeat
      <4> QED
        BY <1>1, <2>1, <4>2
    <3> QED
      BY <3>3, <3>4, <3>5
  <2> QED
    BY <2>1 DEF NoRepeat
<1>4. ASSUME NEW y PROVE y \in ToSet(r) <=> y \in ToSet(s) \/ y = x
  <2>1. ASSUME y \in ToSet(r) PROVE y \in ToSet(s) \/ y = x
    <3>1. PICK j \in 1..Len(r) : y = r[j]
      BY <1>2, <2>1
    <3>2. j = 1 \/ (j - 1 \in 1..Len(s) /\ r[j] = s[j - 1])
      BY <1>1
    <3> QED
      BY <1>1, <1>2, <3>1, <3>2
  <2>2. ASSUME y \in ToSet(s) PROVE y \in ToSet(r)
    <3>1. PICK j \in 1..Len(s) : y = s[j]
      BY <1>2, <2>2
    <3>2. j + 1 \in 1..Len(r) /\ r[j + 1] = s[j]
      BY <1>1
    <3> QED
      BY <1>2, <3>1, <3>2
  <2>3. 1 \in 1..Len(r)
    BY <1>1
  <2> QED
    BY <1>1, <1>2, <2>1, <2>2, <2>3
<1>5. QED
  BY <1>0, <1>1, <1>3, <1>4

-----------------------------------------------------------------------------
(***************************************************************************)
(* Pools.                                                                  *)
(***************************************************************************)
Kind(k) == {k} \X (Nat \ {0})

OnList(p, o) == \E k \in Kinds : o \in ToSet(p.free[k])
InUse(p, o)  == \E s \in DOMAIN p.use : p.use[s] = o

Values == {"unset", "ok", "error"}

IsPool(p) ==
  p \in [free : [Kinds -> Seq(Objects)], made : [Kinds -> Nat],
         use : {p.use}, ev : {p.ev},
         lost : SUBSET Objects, freed : SUBSET Objects]

PoolTyped(p) ==
  /\ IsPool(p)
  /\ \A k \in Kinds : p.free[k] \in Seq(Kind(k))
  /\ p.use \in [DOMAIN p.use -> Objects]
  /\ DOMAIN p.ev \subseteq Requests
  /\ p.ev \in [DOMAIN p.ev -> Values]

(***************************************************************************)
(* An object that was made is on a list, in use, lost or freed, and no two *)
(* of these; it is on its list once and in one slot.                       *)
(***************************************************************************)
OnePlace(p) ==
  /\ \A k \in Kinds : NoRepeat(p.free[k])
  /\ \A s, u \in DOMAIN p.use : p.use[s] = p.use[u] => s = u
  /\ \A o : InUse(p, o) => ~ OnList(p, o) /\ o \notin p.lost /\ o \notin p.freed
  /\ \A o : OnList(p, o) => o \notin p.lost /\ o \notin p.freed
  /\ p.lost \cap p.freed = {}
  /\ \A k \in Kinds : \A n \in Nat \ {0} :
       n <= p.made[k] <=> \/ OnList(p, <<k, n>>) \/ InUse(p, <<k, n>>)
                          \/ <<k, n>> \in p.lost \/ <<k, n>> \in p.freed

PoolOK(p) == PoolTyped(p) /\ OnePlace(p)

(***************************************************************************)
(* Outside the slots S, p and q have the same objects in use; what is lost *)
(* in p is lost in q.                                                      *)
(***************************************************************************)
SameBut(p, q, S) ==
  /\ \A s : s \notin S =>
       /\ s \in DOMAIN q.use <=> s \in DOMAIN p.use
       /\ s \in DOMAIN p.use => q.use[s] = p.use[s]
  /\ p.lost \subseteq q.lost

LEMMA KindsOfObjects ==
  /\ \A k \in Kinds : Kind(k) \subseteq Objects
  /\ \A o \in Objects : o = <<o[1], o[2]>> /\ o[1] \in Kinds /\ o[2] \in Nat \ {0}
  /\ \A k : \A o \in Kind(k) : o[1] = k
BY DEF Kind, Objects

LEMMA WithProperties ==
  ASSUME NEW f, NEW x, NEW v
  PROVE  /\ \A y : y \in DOMAIN With(f, x, v) <=> y \in DOMAIN f \/ y = x
         /\ With(f, x, v)[x] = v
         /\ \A y \in DOMAIN f : y # x => With(f, x, v)[y] = f[y]
BY DEF With

LEMMA WithTyped ==
  ASSUME NEW R, NEW f, f \in [DOMAIN f -> R], NEW x, NEW v \in R
  PROVE  With(f, x, v) \in [DOMAIN With(f, x, v) -> R]
BY DEF With

LEMMA WithoutProperties ==
  ASSUME NEW f, NEW S
  PROVE  /\ \A y : y \in DOMAIN Without(f, S) <=> y \in DOMAIN f /\ y \notin S
         /\ \A y \in DOMAIN f : y \notin S => Without(f, S)[y] = f[y]
BY DEF Without

LEMMA WithoutTyped ==
  ASSUME NEW R, NEW f, f \in [DOMAIN f -> R], NEW S
  PROVE  Without(f, S) \in [DOMAIN Without(f, S) -> R]
BY DEF Without

(***************************************************************************)
(* Eventuals are not objects of the caches.                                *)
(***************************************************************************)
LEMMA EventualsChange ==
  ASSUME NEW p, PoolOK(p), NEW ev, DOMAIN ev \subseteq Requests,
         ev \in [DOMAIN ev -> Values],
         NEW q, q = [p EXCEPT !.ev = ev]
  PROVE  /\ PoolOK(q)
         /\ q.use = p.use /\ q.made = p.made /\ q.free = p.free
         /\ q.lost = p.lost /\ q.freed = p.freed /\ q.ev = ev
<1>1. IsPool(p)
  BY DEF PoolOK, PoolTyped
<1>2. /\ q.free = p.free /\ q.made = p.made /\ q.use = p.use
      /\ q.lost = p.lost /\ q.freed = p.freed /\ q.ev = ev
  BY <1>1 DEF IsPool
<1>3. IsPool(q)
  BY <1>1 DEF IsPool
<1>4. PoolTyped(q)
  BY <1>2, <1>3 DEF PoolOK, PoolTyped
<1>5. OnePlace(q)
  BY <1>2, SMTT(30) DEF PoolOK, OnePlace, OnList, InUse
<1>6. QED
  BY <1>2, <1>4, <1>5 DEF PoolOK

LEMMA SetEventualOK ==
  ASSUME NEW p, PoolOK(p), NEW req \in Requests, NEW value \in Values
  PROVE  /\ PoolOK(SetEventual(p, req, value))
         /\ SetEventual(p, req, value).use = p.use
         /\ SameBut(p, SetEventual(p, req, value), {})
<1>1. PICK ev : ev = With(p.ev, req, value)
  OBVIOUS
<1>2. DOMAIN ev \subseteq Requests /\ ev \in [DOMAIN ev -> Values]
  <2>1. DOMAIN p.ev \subseteq Requests /\ p.ev \in [DOMAIN p.ev -> Values]
    BY DEF PoolOK, PoolTyped
  <2>2. DOMAIN With(p.ev, req, value) \subseteq Requests
    BY <2>1 DEF With
  <2>3. With(p.ev, req, value) \in [DOMAIN With(p.ev, req, value) -> Values]
    BY <2>1, WithTyped
  <2> QED
    BY <1>1, <2>2, <2>3
<1>3. SetEventual(p, req, value) = [p EXCEPT !.ev = ev]
  BY <1>1 DEF SetEventual
<1>4. QED
  BY <1>2, <1>3, EventualsChange DEF SameBut

LEMMA DropEventualOK ==
  ASSUME NEW p, PoolOK(p), NEW req
  PROVE  /\ PoolOK(DropEventual(p, req))
         /\ DropEventual(p, req).use = p.use
         /\ SameBut(p, DropEventual(p, req), {})
<1>1. PICK ev : ev = Without(p.ev, {req})
  OBVIOUS
<1>2. DOMAIN ev \subseteq Requests /\ ev \in [DOMAIN ev -> Values]
  <2>1. DOMAIN p.ev \subseteq Requests /\ p.ev \in [DOMAIN p.ev -> Values]
    BY DEF PoolOK, PoolTyped
  <2>2. DOMAIN Without(p.ev, {req}) \subseteq Requests
    BY <2>1 DEF Without
  <2>3. Without(p.ev, {req}) \in [DOMAIN Without(p.ev, {req}) -> Values]
    BY <2>1, WithoutTyped
  <2> QED
    BY <1>1, <2>2, <2>3
<1>3. DropEventual(p, req) = [p EXCEPT !.ev = ev]
  BY <1>1 DEF DropEventual
<1>4. QED
  BY <1>2, <1>3, EventualsChange DEF SameBut

(***************************************************************************)
(* What is in a pool is an object, on the list of its kind, and was made.  *)
(***************************************************************************)
LEMMA PoolObjects ==
  ASSUME NEW p, PoolOK(p)
  PROVE  /\ IsPool(p)
         /\ \A k \in Kinds : p.free[k] \in Seq(Kind(k)) /\ ToSet(p.free[k]) \subseteq Kind(k)
         /\ \A o : OnList(p, o) => o \in Objects /\ o \in ToSet(p.free[o[1]])
         /\ \A s \in DOMAIN p.use : p.use[s] \in Objects /\ InUse(p, p.use[s])
         /\ p.lost \subseteq Objects /\ p.freed \subseteq Objects
         /\ p.made \in [Kinds -> Nat]
<1>1. /\ IsPool(p)
      /\ \A k \in Kinds : p.free[k] \in Seq(Kind(k))
      /\ p.use \in [DOMAIN p.use -> Objects]
  BY DEF PoolOK, PoolTyped
<1>2. ASSUME NEW k \in Kinds PROVE ToSet(p.free[k]) \subseteq Kind(k)
  BY <1>1, ElementsOf
<1>3. ASSUME NEW o, OnList(p, o) PROVE o \in Objects /\ o \in ToSet(p.free[o[1]])
  <2>1. PICK k \in Kinds : o \in ToSet(p.free[k])
    BY <1>3 DEF OnList
  <2>2. o \in Kind(k)
    BY <1>2, <2>1
  <2> QED
    BY <2>1, <2>2, KindsOfObjects
<1>4. p.lost \subseteq Objects /\ p.freed \subseteq Objects /\ p.made \in [Kinds -> Nat]
  BY <1>1 DEF IsPool
<1>5. \A s \in DOMAIN p.use : p.use[s] \in Objects /\ InUse(p, p.use[s])
  BY <1>1 DEF InUse
<1>6. QED
  BY <1>1, <1>2, <1>3, <1>4, <1>5

(***************************************************************************)
(* Pop an object, or make one.                                             *)
(***************************************************************************)
LEMMA GetOK ==
  ASSUME NEW p, PoolOK(p), NEW slot, slot \notin DOMAIN p.use, NEW kind \in Kinds
  PROVE  /\ PoolOK(Get(p, slot, kind))
         /\ SameBut(p, Get(p, slot, kind), {slot})
         /\ slot \in DOMAIN Get(p, slot, kind).use
         /\ Get(p, slot, kind).use[slot] \in Kind(kind)
<1>0. PICK q : q = Get(p, slot, kind)
  OBVIOUS
<1>1. IsPool(p) /\ p.free[kind] \in Seq(Kind(kind)) /\ p.made[kind] \in Nat
  BY PoolObjects
<1>2. CASE p.free[kind] # << >>
  <2>1. PICK h, f, u : /\ h = Head(p.free[kind])
                       /\ f = [p.free EXCEPT ![kind] = Tail(@)]
                       /\ u = With(p.use, slot, h)
    OBVIOUS
  <2>2. /\ h \in Kind(kind) /\ Tail(p.free[kind]) \in Seq(Kind(kind))
        /\ NoRepeat(Tail(p.free[kind]))
        /\ \A x : x \in ToSet(Tail(p.free[kind])) <=> x \in ToSet(p.free[kind]) /\ x # h
        /\ h \in ToSet(p.free[kind])
    BY <1>1, <1>2, <2>1, PopList DEF PoolOK, OnePlace
  <2>3. /\ f \in [Kinds -> Seq(Objects)]
        /\ f[kind] = Tail(p.free[kind])
        /\ \A k \in Kinds \ {kind} : f[k] = p.free[k]
    <3>1. p.free \in [Kinds -> Seq(Objects)]
      BY <1>1 DEF IsPool
    <3>2. Tail(p.free[kind]) \in Seq(Objects)
      BY <1>2, <3>1, HeadTailProperties, EmptySeq
    <3> QED
      BY <2>1, <3>1, <3>2
  <2>4. u \in [DOMAIN u -> Objects]
    BY <2>1, <2>2, KindsOfObjects, WithTyped DEF PoolOK, PoolTyped
  <2>5. /\ IsPool(q)
        /\ q.free = f /\ q.use = u /\ q.made = p.made /\ q.ev = p.ev
        /\ q.lost = p.lost /\ q.freed = p.freed
    <3>1. q = [p EXCEPT !.free = f, !.use = u]
      BY <1>0, <1>1, <1>2, <2>1 DEF Get, IsPool
    <3> QED
      BY <1>1, <2>3, <3>1 DEF IsPool
  <2>6. /\ \A s : s \in DOMAIN u <=> s \in DOMAIN p.use \/ s = slot
        /\ u[slot] = h
        /\ \A s \in DOMAIN p.use : u[s] = p.use[s]
    BY <2>1, WithProperties
  <2>7. PoolTyped(q)
    BY <2>2, <2>3, <2>4, <2>5 DEF PoolOK, PoolTyped
  <2>8. /\ \A o : OnList(q, o) <=> OnList(p, o) /\ o # h
        /\ \A o : InUse(q, o) <=> InUse(p, o) \/ o = h
        /\ OnList(p, h)
    <3>1. \A k \in Kinds \ {kind} : h \notin ToSet(p.free[k])
      BY <2>2, PoolObjects, KindsOfObjects
    <3>2. \A o : OnList(q, o) <=> OnList(p, o) /\ o # h
      BY <2>2, <2>3, <2>5, <3>1 DEF OnList
    <3>3. \A o : InUse(q, o) <=> InUse(p, o) \/ o = h
      BY <2>5, <2>6 DEF InUse
    <3> QED
      BY <2>2, <3>2, <3>3 DEF OnList
  <2>9. OnePlace(q)
    <3>1. \A k \in Kinds : NoRepeat(q.free[k])
      BY <2>2, <2>3, <2>5 DEF PoolOK, OnePlace
    <3>2. \A s, v \in DOMAIN q.use : q.use[s] = q.use[v] => s = v
      BY <2>5, <2>6, <2>8 DEF PoolOK, OnePlace, InUse
    <3> QED
      BY <2>5, <2>8, <3>1, <3>2 DEF PoolOK, OnePlace
  <2> QED
    BY <1>0, <2>2, <2>5, <2>6, <2>7, <2>9 DEF PoolOK, SameBut
<1>3. CASE p.free[kind] = << >>
  <2>1. PICK h, m, u : /\ h = <<kind, p.made[kind] + 1>>
                       /\ m = [p.made EXCEPT ![kind] = @ + 1]
                       /\ u = With(p.use, slot, h)
    OBVIOUS
  <2>2. /\ m \in [Kinds -> Nat] /\ m[kind] = p.made[kind] + 1
        /\ \A k \in Kinds \ {kind} : m[k] = p.made[k]
        /\ h \in Kind(kind)
    <3>1. p.made \in [Kinds -> Nat]
      BY <1>1 DEF IsPool
    <3> QED
      BY <1>1, <2>1, <3>1 DEF Kind
  <2>3. u \in [DOMAIN u -> Objects]
    BY <2>1, <2>2, KindsOfObjects, WithTyped DEF PoolOK, PoolTyped
  <2>4. /\ IsPool(q)
        /\ q.free = p.free /\ q.use = u /\ q.made = m /\ q.ev = p.ev
        /\ q.lost = p.lost /\ q.freed = p.freed
    <3>1. q = [p EXCEPT !.made = m, !.use = u]
      BY <1>0, <1>1, <1>3, <2>1 DEF Get, IsPool
    <3> QED
      BY <1>1, <2>2, <3>1 DEF IsPool
  <2>5. /\ \A s : s \in DOMAIN u <=> s \in DOMAIN p.use \/ s = slot
        /\ u[slot] = h
        /\ \A s \in DOMAIN p.use : u[s] = p.use[s]
    BY <2>1, WithProperties
  <2>6. PoolTyped(q)
    BY <2>3, <2>4 DEF PoolOK, PoolTyped
  <2>7. /\ \A o : OnList(q, o) <=> OnList(p, o)
        /\ \A o : InUse(q, o) <=> InUse(p, o) \/ o = h
    BY <2>4, <2>5 DEF OnList, InUse
  <2>8. ~ OnList(p, h) /\ ~ InUse(p, h) /\ h \notin p.lost /\ h \notin p.freed
    <3>1. p.made[kind] + 1 \in Nat \ {0} /\ ~ (p.made[kind] + 1 <= p.made[kind])
      BY <1>1
    <3> QED
      BY <2>1, <3>1 DEF PoolOK, OnePlace
  <2>9. OnePlace(q)
    <3>1. \A s, v \in DOMAIN q.use : q.use[s] = q.use[v] => s = v
      BY <2>4, <2>5, <2>8 DEF PoolOK, OnePlace, InUse
    <3>2. \A k \in Kinds : \A n \in Nat \ {0} :
            n <= q.made[k] <=> n <= p.made[k] \/ <<k, n>> = h
      BY <1>1, <2>1, <2>2, <2>4
    <3>3. \A k \in Kinds : \A n \in Nat \ {0} :
            n <= q.made[k] <=> \/ OnList(q, <<k, n>>) \/ InUse(q, <<k, n>>)
                               \/ <<k, n>> \in q.lost \/ <<k, n>> \in q.freed
      BY <2>4, <2>7, <3>2 DEF PoolOK, OnePlace
    <3> QED
      BY <2>4, <2>7, <2>8, <3>1, <3>3 DEF PoolOK, OnePlace
  <2> QED
    BY <1>0, <2>2, <2>4, <2>5, <2>6, <2>9 DEF PoolOK, SameBut
<1>4. QED
  BY <1>0, <1>2, <1>3

(***************************************************************************)
(* Push the object of a slot on the list of its kind.                      *)
(***************************************************************************)
LEMMA ReturnOK ==
  ASSUME NEW p, PoolOK(p), NEW slot \in DOMAIN p.use, NEW list \in Kinds,
         p.use[slot] \in Kind(list)
  PROVE  /\ PoolOK(Return(p, slot, list))
         /\ SameBut(p, Return(p, slot, list), {slot})
         /\ slot \notin DOMAIN Return(p, slot, list).use
         /\ Return(p, slot, list).ev = p.ev
<1>0. PICK q : q = Return(p, slot, list)
  OBVIOUS
<1>1. PICK x, f, u : /\ x = p.use[slot]
                     /\ f = [p.free EXCEPT ![list] = <<x>> \o @]
                     /\ u = Without(p.use, {slot})
  OBVIOUS
<1>2. IsPool(p) /\ p.free[list] \in Seq(Kind(list)) /\ p.free \in [Kinds -> Seq(Objects)]
  BY PoolObjects DEF IsPool
<1>3. InUse(p, x) /\ ~ OnList(p, x) /\ x \notin p.lost /\ x \notin p.freed /\ x \in Objects
  BY <1>1, KindsOfObjects DEF InUse, PoolOK, OnePlace
<1>4. /\ <<x>> \o p.free[list] \in Seq(Kind(list))
      /\ NoRepeat(<<x>> \o p.free[list])
      /\ \A y : y \in ToSet(<<x>> \o p.free[list]) <=> y \in ToSet(p.free[list]) \/ y = x
  <2>1. x \in Kind(list) /\ NoRepeat(p.free[list]) /\ x \notin ToSet(p.free[list])
    BY <1>1, <1>3 DEF PoolOK, OnePlace, OnList
  <2> QED
    BY <1>2, <2>1, PushList
<1>5. /\ f \in [Kinds -> Seq(Objects)]
      /\ f[list] = <<x>> \o p.free[list]
      /\ \A k \in Kinds \ {list} : f[k] = p.free[k]
  <2>1. <<x>> \o p.free[list] \in Seq(Objects)
    BY <1>2, <1>3
  <2> QED
    BY <1>1, <1>2, <2>1
<1>6. u \in [DOMAIN u -> Objects]
  BY <1>1, WithoutTyped DEF PoolOK, PoolTyped
<1>7. /\ IsPool(q)
      /\ q.free = f /\ q.use = u /\ q.made = p.made /\ q.ev = p.ev
      /\ q.lost = p.lost /\ q.freed = p.freed
  <2>1. q = [p EXCEPT !.free = f, !.use = u]
    BY <1>0, <1>1, <1>2 DEF Return, IsPool
  <2> QED
    BY <1>2, <1>5, <2>1 DEF IsPool
<1>8. /\ \A s : s \in DOMAIN u <=> s \in DOMAIN p.use /\ s # slot
      /\ \A s \in DOMAIN u : u[s] = p.use[s]
  BY <1>1, WithoutProperties
<1>9. PoolTyped(q)
  BY <1>4, <1>5, <1>6, <1>7 DEF PoolOK, PoolTyped
<1>10. /\ \A o : OnList(q, o) <=> OnList(p, o) \/ o = x
       /\ \A o : InUse(q, o) <=> InUse(p, o) /\ o # x
  <2>1. \A o : OnList(q, o) <=> OnList(p, o) \/ o = x
    BY <1>4, <1>5, <1>7 DEF OnList
  <2>2. \A s, v \in DOMAIN p.use : p.use[s] = p.use[v] => s = v
    BY DEF PoolOK, OnePlace
  <2>3. ASSUME NEW o, InUse(q, o) PROVE InUse(p, o) /\ o # x
    <3>1. PICK s \in DOMAIN u : u[s] = o
      BY <1>7, <2>3 DEF InUse
    <3>2. s \in DOMAIN p.use /\ s # slot /\ p.use[s] = o
      BY <1>8, <3>1
    <3> QED
      BY <1>1, <2>2, <3>2 DEF InUse
  <2>4. ASSUME NEW o, InUse(p, o), o # x PROVE InUse(q, o)
    <3>1. PICK s \in DOMAIN p.use : p.use[s] = o
      BY <2>4 DEF InUse
    <3>2. s \in DOMAIN u /\ u[s] = o
      BY <1>1, <1>8, <2>4, <3>1
    <3> QED
      BY <1>7, <3>2 DEF InUse
  <2> QED
    BY <2>1, <2>3, <2>4
<1>11. OnePlace(q)
  <2>1. \A k \in Kinds : NoRepeat(q.free[k])
    BY <1>4, <1>5, <1>7 DEF PoolOK, OnePlace
  <2>2. \A s, v \in DOMAIN q.use : q.use[s] = q.use[v] => s = v
    BY <1>7, <1>8 DEF PoolOK, OnePlace
  <2> QED
    BY <1>3, <1>7, <1>10, <2>1, <2>2 DEF PoolOK, OnePlace
<1>12. QED
  BY <1>0, <1>7, <1>8, <1>9, <1>11 DEF PoolOK, SameBut

(***************************************************************************)
(* An object changes slots.                                                *)
(***************************************************************************)
LEMMA MoveOK ==
  ASSUME NEW p, PoolOK(p), NEW from \in DOMAIN p.use, NEW to, to \notin DOMAIN p.use
  PROVE  /\ PoolOK(Move(p, from, to))
         /\ SameBut(p, Move(p, from, to), {from, to})
         /\ from \notin DOMAIN Move(p, from, to).use
         /\ to \in DOMAIN Move(p, from, to).use
         /\ Move(p, from, to).use[to] = p.use[from]
         /\ Move(p, from, to).ev = p.ev
<1>0. PICK q, w, u : /\ q = Move(p, from, to)
                     /\ w = Without(p.use, {from})
                     /\ u = With(w, to, p.use[from])
  OBVIOUS
<1>1. IsPool(p) /\ p.use[from] \in Objects
  BY PoolObjects
<1>2. u \in [DOMAIN u -> Objects]
  <2>1. w \in [DOMAIN w -> Objects]
    BY <1>0, WithoutTyped DEF PoolOK, PoolTyped
  <2> QED
    BY <1>0, <1>1, <2>1, WithTyped
<1>3. /\ IsPool(q)
      /\ q.free = p.free /\ q.use = u /\ q.made = p.made /\ q.ev = p.ev
      /\ q.lost = p.lost /\ q.freed = p.freed
  <2>1. q = [p EXCEPT !.use = u]
    BY <1>0, <1>1 DEF Move, IsPool
  <2> QED
    BY <1>1, <2>1 DEF IsPool
<1>4. /\ \A s : s \in DOMAIN u <=> (s \in DOMAIN p.use /\ s # from) \/ s = to
      /\ u[to] = p.use[from]
      /\ \A s \in DOMAIN u : s # to => u[s] = p.use[s]
  <2>1. /\ \A s : s \in DOMAIN w <=> s \in DOMAIN p.use /\ s # from
        /\ \A s \in DOMAIN w : w[s] = p.use[s]
    BY <1>0, WithoutProperties
  <2>2. /\ \A s : s \in DOMAIN u <=> s \in DOMAIN w \/ s = to
        /\ u[to] = p.use[from]
        /\ \A s \in DOMAIN w : s # to => u[s] = w[s]
    BY <1>0, WithProperties
  <2> QED
    BY <2>1, <2>2
<1>5. PoolTyped(q)
  BY <1>2, <1>3 DEF PoolOK, PoolTyped
<1>6. /\ \A o : OnList(q, o) <=> OnList(p, o)
      /\ \A o : InUse(q, o) <=> InUse(p, o)
  <2>1. ASSUME NEW o, InUse(p, o) PROVE InUse(q, o)
    <3>1. PICK s \in DOMAIN p.use : p.use[s] = o
      BY <2>1 DEF InUse
    <3>2. CASE s = from
      BY <1>3, <1>4, <3>1, <3>2 DEF InUse
    <3>3. CASE s # from
      BY <1>3, <1>4, <3>1, <3>3 DEF InUse
    <3> QED
      BY <3>2, <3>3
  <2>2. ASSUME NEW o, InUse(q, o) PROVE InUse(p, o)
    BY <1>3, <1>4, <2>2 DEF InUse
  <2> QED
    BY <1>3, <2>1, <2>2 DEF OnList
<1>7. OnePlace(q)
  <2>1. \A s, v \in DOMAIN q.use : q.use[s] = q.use[v] => s = v
    BY <1>3, <1>4 DEF PoolOK, OnePlace
  <2> QED
    BY <1>3, <1>6, <2>1 DEF PoolOK, OnePlace
<1>8. QED
  BY <1>0, <1>3, <1>4, <1>5, <1>7 DEF PoolOK, SameBut

(***************************************************************************)
(* Objects are forgotten.                                                  *)
(***************************************************************************)
LEMMA ForgetOK ==
  ASSUME NEW p, PoolOK(p), NEW slots
  PROVE  /\ PoolOK(Forget(p, slots))
         /\ SameBut(p, Forget(p, slots), slots)
         /\ \A s \in slots : s \notin DOMAIN Forget(p, slots).use
         /\ \A s \in slots \cap DOMAIN p.use : p.use[s] \in Forget(p, slots).lost
         /\ Forget(p, slots).ev = p.ev
<1>0. PICK q, gone, u, l : /\ q = Forget(p, slots)
                           /\ gone = slots \cap DOMAIN p.use
                           /\ u = Without(p.use, gone)
                           /\ l = p.lost \cup {p.use[s] : s \in gone}
  OBVIOUS
<1>1. /\ IsPool(p) /\ l \in SUBSET Objects
      /\ p.lost \subseteq l /\ \A s \in gone : p.use[s] \in l
  BY <1>0, PoolObjects
<1>2. u \in [DOMAIN u -> Objects]
  BY <1>0, WithoutTyped DEF PoolOK, PoolTyped
<1>3. /\ IsPool(q)
      /\ q.free = p.free /\ q.use = u /\ q.made = p.made /\ q.ev = p.ev
      /\ q.lost = l /\ q.freed = p.freed
  <2>1. q = [p EXCEPT !.lost = l, !.use = u]
    BY <1>0, <1>1 DEF Forget, IsPool
  <2> QED
    BY <1>1, <2>1 DEF IsPool
<1>4. /\ \A s : s \in DOMAIN u <=> s \in DOMAIN p.use /\ s \notin slots
      /\ \A s \in DOMAIN u : u[s] = p.use[s]
  BY <1>0, WithoutProperties
<1>5. PoolTyped(q)
  BY <1>2, <1>3 DEF PoolOK, PoolTyped
<1>6. /\ \A o : OnList(q, o) <=> OnList(p, o)
      /\ \A o : InUse(p, o) <=> InUse(q, o) \/ \E s \in gone : p.use[s] = o
      /\ \A o : InUse(q, o) => ~ \E s \in gone : p.use[s] = o
  <2>1. \A s, v \in DOMAIN p.use : p.use[s] = p.use[v] => s = v
    BY DEF PoolOK, OnePlace
  <2> QED
    BY <1>0, <1>3, <1>4, <2>1 DEF OnList, InUse
<1>7. \A o : o \in q.lost <=> o \in p.lost \/ \E s \in gone : p.use[s] = o
  BY <1>0, <1>3
<1>8. OnePlace(q)
  <2>1. \A s, v \in DOMAIN q.use : q.use[s] = q.use[v] => s = v
    BY <1>3, <1>4 DEF PoolOK, OnePlace
  <2> QED
    BY <1>3, <1>6, <1>7, <2>1 DEF PoolOK, OnePlace
<1>9. QED
  BY <1>0, <1>1, <1>3, <1>4, <1>5, <1>8 DEF PoolOK, SameBut

(***************************************************************************)
(* A list is given back to the allocator.                                  *)
(***************************************************************************)
LEMMA ClearOK ==
  ASSUME NEW p, PoolOK(p), NEW list \in Kinds
  PROVE  PoolOK(Clear(p, list)) /\ SameBut(p, Clear(p, list), {})
         /\ Clear(p, list).ev = p.ev
<1>0. PICK q, f, d : /\ q = Clear(p, list)
                     /\ f = [p.free EXCEPT ![list] = << >>]
                     /\ d = p.freed \cup ToSet(p.free[list])
  OBVIOUS
<1>1. /\ IsPool(p) /\ ToSet(p.free[list]) \subseteq Kind(list) /\ d \in SUBSET Objects
  BY <1>0, PoolObjects, KindsOfObjects
<1>2. /\ << >> \in Seq(Objects) /\ << >> \in Seq(Kind(list))
      /\ NoRepeat(<< >>) /\ ToSet(<< >>) = {}
  <2>1. ToSet(<< >>) = {}
    BY DEF ToSet
  <2>2. NoRepeat(<< >>)
    BY DEF NoRepeat
  <2> QED
    BY <2>1, <2>2
<1>3. /\ f \in [Kinds -> Seq(Objects)] /\ f[list] = << >>
      /\ \A k \in Kinds \ {list} : f[k] = p.free[k]
  BY <1>0, <1>1, <1>2 DEF IsPool
<1>4. /\ IsPool(q)
      /\ q.free = f /\ q.use = p.use /\ q.made = p.made /\ q.ev = p.ev
      /\ q.lost = p.lost /\ q.freed = d
  <2>1. q = [p EXCEPT !.freed = d, !.free = f]
    BY <1>0, <1>1 DEF Clear, IsPool
  <2> QED
    BY <1>1, <1>3, <2>1 DEF IsPool
<1>5. PoolTyped(q)
  BY <1>2, <1>3, <1>4 DEF PoolOK, PoolTyped
<1>6. /\ \A o : InUse(q, o) <=> InUse(p, o)
      /\ \A o : OnList(q, o) <=> OnList(p, o) /\ o \notin ToSet(p.free[list])
      /\ \A o : o \in q.freed <=> o \in p.freed \/ o \in ToSet(p.free[list])
      /\ \A o \in ToSet(p.free[list]) : OnList(p, o)
  <2>1. \A k \in Kinds : ToSet(p.free[k]) \subseteq Kind(k)
    BY PoolObjects
  <2>2. \A k \in Kinds \ {list} : \A o \in ToSet(p.free[k]) : o \notin ToSet(p.free[list])
    BY <2>1 DEF Kind
  <2>3. \A o : OnList(q, o) <=> OnList(p, o) /\ o \notin ToSet(p.free[list])
    BY <1>2, <1>3, <1>4, <2>2 DEF OnList
  <2> QED
    BY <1>0, <1>4, <2>3 DEF OnList, InUse
<1>7. OnePlace(q)
  <2>1. \A k \in Kinds : NoRepeat(q.free[k])
    BY <1>2, <1>3, <1>4 DEF PoolOK, OnePlace
  <2> QED
    BY <1>4, <1>6, <2>1 DEF PoolOK, OnePlace
<1>8. QED
  BY <1>0, <1>4, <1>5, <1>7 DEF PoolOK, SameBut

(***************************************************************************)
(* mona_wait: the request is freed, or still in its slot.                  *)
(***************************************************************************)
LEMMA WaitOK ==
  ASSUME NEW p, PoolOK(p), NEW slot \in DOMAIN p.use
  PROVE  /\ PoolOK(Wait(p, slot))
         /\ SameBut(p, Wait(p, slot), {slot})
         /\ slot \in DOMAIN Wait(p, slot).use => Wait(p, slot).use[slot] = p.use[slot]
         /\ slot \in DOMAIN Wait(p, slot).use <=> p.ev[p.use[slot]] # "ok"
<1>0. PICK r, w, q : /\ r = p.use[slot] /\ w = WaitInternal(p, r) /\ q = Wait(p, slot)
  OBVIOUS
<1>1. PoolOK(w) /\ w.use = p.use /\ w.lost = p.lost
  <2>1. IsPool(p)
    BY PoolObjects
  <2>2. w.lost = p.lost
    BY <1>0, <2>1 DEF WaitInternal, DropEventual, IsPool
  <2> QED
    BY <1>0, <2>2, DropEventualOK DEF WaitInternal
<1>2. CASE p.ev[r] # "ok"
  <2>1. q = w
    BY <1>0, <1>2 DEF Wait
  <2> QED
    BY <1>0, <1>1, <1>2, <2>1 DEF SameBut
<1>3. CASE p.ev[r] = "ok"
  <2>1. PICK u, d : u = Without(w.use, {slot}) /\ d = w.freed \cup {r}
    OBVIOUS
  <2>2. IsPool(w) /\ r \in Objects /\ d \in SUBSET Objects
    BY <1>0, <1>1, <2>1, PoolObjects
  <2>3. u \in [DOMAIN u -> Objects]
    BY <1>1, <2>1, WithoutTyped DEF PoolOK, PoolTyped
  <2>4. /\ IsPool(q)
        /\ q.free = w.free /\ q.use = u /\ q.made = w.made /\ q.ev = w.ev
        /\ q.lost = w.lost /\ q.freed = d
    <3>1. q = [w EXCEPT !.use = u, !.freed = d]
      BY <1>0, <1>3, <2>1, <2>2 DEF Wait, IsPool
    <3> QED
      BY <2>2, <3>1 DEF IsPool
  <2>5. /\ \A s : s \in DOMAIN u <=> s \in DOMAIN w.use /\ s # slot
        /\ \A s \in DOMAIN u : u[s] = w.use[s]
    BY <2>1, WithoutProperties
  <2>6. PoolTyped(q)
    BY <1>1, <2>3, <2>4 DEF PoolOK, PoolTyped
  <2>7. \A o : OnList(q, o) <=> OnList(w, o)
    BY <2>4 DEF OnList
  <2>8. \A o : InUse(q, o) <=> InUse(w, o) /\ o # r
    <3>1. ASSUME NEW o, InUse(q, o) PROVE InUse(w, o) /\ o # r
      <4>1. PICK s \in DOMAIN u : u[s] = o
        BY <2>4, <3>1 DEF InUse
      <4>2. s \in DOMAIN w.use /\ s # slot /\ w.use[s] = o
        BY <2>5, <4>1
      <4> QED
        BY <1>0, <1>1, <4>2 DEF InUse, PoolOK, OnePlace
    <3>2. ASSUME NEW o, InUse(w, o), o # r PROVE InUse(q, o)
      <4>1. PICK s \in DOMAIN w.use : w.use[s] = o
        BY <3>2 DEF InUse
      <4>2. s \in DOMAIN u /\ u[s] = o
        BY <1>0, <1>1, <2>5, <3>2, <4>1
      <4> QED
        BY <2>4, <4>2 DEF InUse
    <3> QED
      BY <3>1, <3>2
  <2>9. OnePlace(q)
    <3>1. InUse(w, r)
      BY <1>0, <1>1 DEF InUse
    <3>2. \A s, v \in DOMAIN q.use : q.use[s] = q.use[v] => s = v
      BY <1>1, <2>4, <2>5 DEF PoolOK, OnePlace
    <3>3. \A o : o \in q.freed <=> o \in w.freed \/ o = r
      BY <2>1, <2>4
    <3> QED
      BY <1>1, <2>4, <2>7, <2>8, <3>1, <3>2, <3>3 DEF PoolOK, OnePlace
  <2> QED
    BY <1>0, <1>1, <1>3, <2>4, <2>5, <2>6, <2>9 DEF PoolOK, SameBut
<1>4. QED
  BY <1>2, <1>3

LEMMA GetReqOK ==
  ASSUME NEW p, PoolOK(p), NEW slot, slot \notin DOMAIN p.use
  PROVE  /\ PoolOK(GetReq(p, slot))
         /\ SameBut(p, GetReq(p, slot), {slot})
         /\ slot \in DOMAIN GetReq(p, slot).use
         /\ GetReq(p, slot).use[slot] \in Kind("req")
<1>0. PICK q, r : q = Get(p, slot, "req") /\ r = q.use[slot]
  OBVIOUS
<1>1. /\ PoolOK(q) /\ SameBut(p, q, {slot})
      /\ slot \in DOMAIN q.use /\ r \in Kind("req")
  BY <1>0, GetOK DEF Kinds
<1>2. GetReq(p, slot) = q \/ GetReq(p, slot) = SetEventual(q, r, "unset")
  BY <1>0 DEF GetReq
<1>3. r \in Requests /\ "unset" \in Values
  BY <1>1 DEF Requests, Kind, Values
<1>4. /\ PoolOK(SetEventual(q, r, "unset"))
      /\ SetEventual(q, r, "unset").use = q.use
      /\ SetEventual(q, r, "unset").lost = q.lost
  <2>1. IsPool(q)
    BY <1>1, PoolObjects
  <2> QED
    BY <1>1, <1>3, <2>1, SetEventualOK DEF SetEventual, IsPool
<1>5. QED
  BY <1>0, <1>1, <1>2, <1>4 DEF SameBut

-----------------------------------------------------------------------------
(***************************************************************************)
(* What a ULT holds at each point of each call.                            *)
(***************************************************************************)
LocalRoles == {"op", "msg", "mem", "ack", "ackop", "ackreq"}
Roles      == LocalRoles \cup {"req"}

Blocked == {"oper", "sending", "handlesent", "receiving", "getting"}
Handing == {"handle", "handlesent", "ackwait"}
Listening == {"listen", "listening"}
Points  == {"idle", "begin", "oper", "sending", "handle", "handlesent", "ackwait",
            "receiving", "got", "getting", "acknowledge", "listen", "listening", "owner"}

LocalAt(w, role) ==
  \/ role = "op" /\ w.pc \in Blocked
  \/ /\ role = "msg"
     /\ \/ w.pc \in {"sending", "receiving", "got", "getting", "acknowledge"}
        \/ w.pc \in Handing /\ ~ w.call.mem
  \/ role \in {"mem", "ack", "ackop", "ackreq"} /\ w.pc \in Handing

RequestAt(w) == w.pc = "owner" \/ (w.pc # "idle" /\ w.call.by # "caller")

Has(w, role) == LocalAt(w, role) \/ (role = "req" /\ RequestAt(w))

KindAt(c, role) ==
  IF role \in {"op", "ackop"} THEN "op"
  ELSE IF role \in {"req", "ackreq"} THEN "req" ELSE c.path

(***************************************************************************)
(* Which calls come to which point.                                        *)
(***************************************************************************)
Fitting(w) ==
  /\ w = [pc |-> w.pc, call |-> w.call] /\ w.pc \in Points
  /\ w.pc = "idle" => w = Idle
  /\ w.pc # "idle" => w.call \in Calls
  /\ w.pc = "sending" => w.call.op \in {"send", "recv"}
  /\ w.pc \in Handing => w.call.op = "send"
  /\ w.pc \in {"receiving", "got", "getting", "acknowledge"} => w.call.op = "recv"
  /\ w.pc \in Listening => w.call.op \in {"recv", "probe"} /\ w.call.path = "unexpected"
  /\ w.pc = "owner" => w.call.by # "caller" \/ w.call.op = "ioper"

UltInv == ult = [t \in Threads |-> ult[t]] /\ \A t \in Threads : Fitting(ult[t])

SlotInv ==
  \A t \in Threads : \A role \in Roles :
    /\ Slot(t, role) \in DOMAIN pool.use <=> Has(ult[t], role)
    /\ Slot(t, role) \in DOMAIN pool.use =>
         pool.use[Slot(t, role)] \in Kind(KindAt(call(t), role))

(***************************************************************************)
(* What the instance holds: the objects of the shared receive exactly when *)
(* it is posted, and the messages of the queue.                            *)
(***************************************************************************)
Prob == {ProbMsg, ProbId, ProbReq}

ProbKind(s) == IF s = ProbMsg THEN "unexpected" ELSE IF s = ProbId THEN "op" ELSE "req"

ProbInv ==
  /\ \A s \in Prob : s \in DOMAIN pool.use => pool.use[s] \in Kind(ProbKind(s))
  /\ up = "up" => \A s \in Prob : s \in DOMAIN pool.use <=> prob_active
  /\ up = "closing" => \A s \in Prob : s \in DOMAIN pool.use

QueueInv ==
  \A s \in Queued :
    s = <<"pending", pool.use[s]>> /\ pool.use[s] \in Kind("unexpected")

(***************************************************************************)
(* One ULT listens, with the shared receive posted; none once the instance *)
(* is being finalized.                                                     *)
(***************************************************************************)
ListenInv ==
  /\ prob_active \in BOOLEAN /\ queue_active \in BOOLEAN /\ short \in BOOLEAN
  /\ up \in {"up", "closing", "stopped", "down"}
  /\ \A t \in Threads : ult[t].pc \in Listening => queue_active
  /\ \A t \in Threads : ult[t].pc = "listening" => prob_active
  /\ \A t, u \in Threads :
       ult[t].pc \in Listening /\ ult[u].pc \in Listening => t = u
  /\ up # "up" => \A t \in Threads : ult[t].pc = "idle"

NaOperations ==
  [op : Kind("op") \cup ({"userop"} \X Threads), buf : Objects \cup {NoBuffer},
   req : Requests, cancelled : BOOLEAN]

NaTyped == na \subseteq NaOperations

PlaceInv == PoolOK(pool) /\ UltInv /\ SlotInv /\ ProbInv /\ QueueInv /\ ListenInv
Inv == PlaceInv /\ NaTyped

Messages   == [op : {"send", "recv", "probe"}, path : {"expected", "unexpected"},
               mem : BOOLEAN, by : {"caller", "ult", "macro"}]
Primitives == [op : {"oper", "ioper"}, path : {"expected", "unexpected", "rma"},
               mem : BOOLEAN, by : {"caller"}]

LEMMA CallsAre == Calls \subseteq Messages \cup Primitives
<1>1. \A path \in {"expected", "unexpected"} : \A mem \in BOOLEAN :
        Sends(path, mem) \in Messages /\ Receives(path, mem) \in Messages
  BY DEF Sends, Receives, Messages
<1>2. \A c \in Messages : Spawned(c) \in Messages
  BY DEF Spawned, Messages
<1>3. /\ mona_send \in Messages /\ mona_send_mem \in Messages
      /\ mona_recv \in Messages /\ mona_recv_mem \in Messages
      /\ mona_usend \in Messages /\ mona_usend_mem \in Messages
      /\ mona_urecv \in Messages /\ mona_urecv_mem \in Messages
  BY <1>1 DEF mona_send, mona_send_nc, mona_send_mem, mona_recv, mona_recv_nc,
     mona_recv_mem, mona_usend, mona_usend_nc, mona_usend_mem, mona_urecv,
     mona_urecv_nc, mona_urecv_mem
<1>4. /\ mona_isend \in Messages /\ mona_isend_mem \in Messages
      /\ mona_irecv \in Messages /\ mona_irecv_mem \in Messages
      /\ mona_uisend \in Messages /\ mona_uisend_mem \in Messages
      /\ mona_uirecv \in Messages /\ mona_uirecv_mem \in Messages
  BY <1>2, <1>3 DEF mona_isend, mona_isend_mem, mona_irecv, mona_irecv_mem,
     mona_uisend, mona_uisend_mem, mona_uirecv, mona_uirecv_mem
<1>5. mona_uiprobe \in Messages /\ NB_OP \in Messages
  BY <1>3 DEF mona_uiprobe, NB_OP, Messages
<1>6. /\ mona_msg_send_unexpected \in Primitives /\ mona_msg_send_expected \in Primitives
      /\ mona_put \in Primitives /\ mona_iput \in Primitives
      /\ mona_msg_isend_unexpected \in Primitives
      /\ mona_msg_isend_expected \in Primitives
  BY DEF mona_msg_send_unexpected, mona_msg_send_expected, mona_put, mona_iput,
     mona_msg_isend_unexpected, mona_msg_isend_expected, Blocking, NonBlocking, Primitives
<1>7. QED
  BY <1>3, <1>4, <1>5, <1>6 DEF Calls

(***************************************************************************)
(* The slots of ULTs, of the instance and of the queue are different.      *)
(***************************************************************************)
LEMMA Slots ==
  ASSUME NEW t \in Threads, NEW role
  PROVE  /\ \A u, r : Slot(u, r) = Slot(t, role) <=> u = t /\ r = role
         /\ role \in Roles => Slot(t, role) \notin Prob
         /\ Slot(t, role)[1] # "pending"
<1>1. t # "pending"
  BY OperationsAssumption
<1>2. QED
  BY <1>1 DEF Slot, Prob, ProbMsg, ProbId, ProbReq, Roles, LocalRoles

(***************************************************************************)
(* The pool p that t has come to, in a call, when it holds the roles R and *)
(* has touched no slots but its own and those of S.                        *)
(***************************************************************************)
OwnSlots(t) == {Slot(t, role) : role \in LocalRoles}

Reached(p, t, R, S) ==
  /\ PoolOK(p)
  /\ SameBut(pool, p, OwnSlots(t) \cup S)
  /\ \A role \in LocalRoles :
       /\ Slot(t, role) \in DOMAIN p.use <=> role \in R
       /\ Slot(t, role) \in DOMAIN p.use =>
            p.use[Slot(t, role)] \in Kind(KindAt(call(t), role))

LEMMA SlotsAgain ==
  ASSUME NEW t \in Threads
  PROVE  /\ \A role \in LocalRoles : Slot(t, role) \in OwnSlots(t)
         /\ Slot(t, "req") \notin OwnSlots(t)
         /\ \A u \in Threads \ {t} : \A role : Slot(u, role) \notin OwnSlots(t)
         /\ \A s \in Prob : s \notin OwnSlots(t)
         /\ \A s : s[1] = "pending" => s \notin OwnSlots(t)
         /\ OwnSlots(t) \cap Prob = {}
BY Slots DEF OwnSlots, LocalRoles, Roles

LEMMA ReachedFirst ==
  ASSUME PlaceInv, NEW t \in Threads
  PROVE  Reached(pool, t, {role \in LocalRoles : Has(ult[t], role)}, {})
BY DEF PlaceInv, SlotInv, Reached, SameBut, Roles

LEMMA ReachedGet ==
  ASSUME NEW t \in Threads, NEW p, NEW R, NEW S, Reached(p, t, R, S),
         NEW role \in LocalRoles \ R, NEW kind \in Kinds, kind = KindAt(call(t), role)
  PROVE  Reached(Get(p, Slot(t, role), kind), t, R \cup {role}, S)
<1>1. PICK q : q = Get(p, Slot(t, role), kind)
  OBVIOUS
<1>2. /\ PoolOK(q) /\ SameBut(p, q, {Slot(t, role)})
      /\ Slot(t, role) \in DOMAIN q.use /\ q.use[Slot(t, role)] \in Kind(kind)
  BY <1>1, GetOK DEF Reached
<1>3. SameBut(pool, q, OwnSlots(t) \cup S)
  BY <1>2, SlotsAgain DEF SameBut, Reached
<1>4. ASSUME NEW r \in LocalRoles
      PROVE  /\ Slot(t, r) \in DOMAIN q.use <=> r \in R \cup {role}
             /\ Slot(t, r) \in DOMAIN q.use =>
                  q.use[Slot(t, r)] \in Kind(KindAt(call(t), r))
  BY <1>2, Slots DEF SameBut, Reached
<1>5. QED
  BY <1>1, <1>2, <1>3, <1>4 DEF Reached

LEMMA ReachedReturn ==
  ASSUME NEW t \in Threads, NEW p, NEW R, NEW S, Reached(p, t, R, S),
         NEW role \in LocalRoles \cap R, NEW list \in Kinds, list = KindAt(call(t), role)
  PROVE  Reached(Return(p, Slot(t, role), list), t, R \ {role}, S)
<1>1. PICK q : q = Return(p, Slot(t, role), list)
  OBVIOUS
<1>2. /\ PoolOK(q) /\ SameBut(p, q, {Slot(t, role)}) /\ Slot(t, role) \notin DOMAIN q.use
  BY <1>1, ReturnOK DEF Reached
<1>3. SameBut(pool, q, OwnSlots(t) \cup S)
  BY <1>2, SlotsAgain DEF SameBut, Reached
<1>4. ASSUME NEW r \in LocalRoles
      PROVE  /\ Slot(t, r) \in DOMAIN q.use <=> r \in R \ {role}
             /\ Slot(t, r) \in DOMAIN q.use =>
                  q.use[Slot(t, r)] \in Kind(KindAt(call(t), r))
  BY <1>2, Slots DEF SameBut, Reached
<1>5. QED
  BY <1>1, <1>2, <1>3, <1>4 DEF Reached

LEMMA ReachedGetReq ==
  ASSUME NEW t \in Threads, NEW p, NEW R, NEW S, Reached(p, t, R, S), "ackreq" \notin R
  PROVE  Reached(GetReq(p, Slot(t, "ackreq")), t, R \cup {"ackreq"}, S)
<1>1. PICK q : q = GetReq(p, Slot(t, "ackreq"))
  OBVIOUS
<1>2. /\ PoolOK(q) /\ SameBut(p, q, {Slot(t, "ackreq")})
      /\ Slot(t, "ackreq") \in DOMAIN q.use /\ q.use[Slot(t, "ackreq")] \in Kind("req")
  <2>1. Slot(t, "ackreq") \notin DOMAIN p.use
    BY DEF Reached, LocalRoles
  <2> QED
    BY <1>1, <2>1, GetReqOK DEF Reached
<1>3. SameBut(pool, q, OwnSlots(t) \cup S)
  BY <1>2, SlotsAgain DEF SameBut, Reached, LocalRoles
<1>4. ASSUME NEW r \in LocalRoles
      PROVE  /\ Slot(t, r) \in DOMAIN q.use <=> r \in R \cup {"ackreq"}
             /\ Slot(t, r) \in DOMAIN q.use =>
                  q.use[Slot(t, r)] \in Kind(KindAt(call(t), r))
  BY <1>2, Slots DEF SameBut, Reached, KindAt
<1>5. QED
  BY <1>1, <1>2, <1>3, <1>4 DEF Reached

LEMMA ReachedWait ==
  ASSUME NEW t \in Threads, NEW p, NEW R, NEW S, Reached(p, t, R, S), "ackreq" \in R
  PROVE  \E Q \in {R, R \ {"ackreq"}} : Reached(Wait(p, Slot(t, "ackreq")), t, Q, S)
<1>1. PICK q : q = Wait(p, Slot(t, "ackreq"))
  OBVIOUS
<1>2. /\ PoolOK(q) /\ SameBut(p, q, {Slot(t, "ackreq")})
      /\ Slot(t, "ackreq") \in DOMAIN q.use =>
           q.use[Slot(t, "ackreq")] = p.use[Slot(t, "ackreq")]
      /\ Slot(t, "ackreq") \in DOMAIN p.use
  <2>1. Slot(t, "ackreq") \in DOMAIN p.use
    BY DEF Reached, LocalRoles
  <2> QED
    BY <1>1, <2>1, WaitOK DEF Reached
<1>3. SameBut(pool, q, OwnSlots(t) \cup S)
  BY <1>2, SlotsAgain DEF SameBut, Reached, LocalRoles
<1>4. PICK Q \in {R, R \ {"ackreq"}} : "ackreq" \in Q <=> Slot(t, "ackreq") \in DOMAIN q.use
  OBVIOUS
<1>5. ASSUME NEW r \in LocalRoles
      PROVE  /\ Slot(t, r) \in DOMAIN q.use <=> r \in Q
             /\ Slot(t, r) \in DOMAIN q.use =>
                  q.use[Slot(t, r)] \in Kind(KindAt(call(t), r))
  BY <1>2, <1>4, Slots DEF SameBut, Reached
<1>6. QED
  BY <1>1, <1>2, <1>3, <1>5 DEF Reached

LEMMA ReachedSame ==
  ASSUME NEW t, NEW p, NEW R, NEW S, Reached(p, t, R, S),
         NEW q, PoolOK(q), q.use = p.use, SameBut(p, q, {})
  PROVE  Reached(q, t, R, S)
BY DEF Reached, SameBut

(***************************************************************************)
(* A call is over: t holds nothing but, in a ULT of its own, the request.  *)
(***************************************************************************)
LEMMA ReachedGiveBack ==
  ASSUME NEW t \in Threads, NEW p, NEW R, NEW S, Reached(p, t, R, S),
         call(t).path \in {"expected", "unexpected"} \/ R \cap {"msg", "mem"} = {},
         NEW role \in {"msg", "mem"}
  PROVE  Reached(GiveBack(p, t, role), t, R \ {role}, S)
<1>1. role \in LocalRoles
  BY DEF LocalRoles
<1>2. CASE role \in R
  <2>1. call(t).path \in Kinds /\ KindAt(call(t), role) = call(t).path
    BY <1>2 DEF Kinds, KindAt
  <2>2. Reached(Return(p, Slot(t, role), call(t).path), t, R \ {role}, S)
    BY <1>1, <1>2, <2>1, ReachedReturn
  <2>3. Slot(t, role) \in DOMAIN p.use
    BY <1>1, <1>2 DEF Reached
  <2> QED
    BY <2>2, <2>3 DEF GiveBack, ReturnMsg
<1>3. CASE role \notin R
  <2>1. GiveBack(p, t, role) = p
    BY <1>1, <1>3 DEF GiveBack, Reached
  <2>2. R \ {role} = R
    BY <1>3
  <2> QED
    BY <2>1, <2>2
<1>4. QED
  BY <1>2, <1>3

LEMMA ReachedLeave ==
  ASSUME NEW t \in Threads, NEW p, NEW R, NEW S, Reached(p, t, R, S),
         call(t).path \in {"expected", "unexpected"} \/ R \cap {"msg", "mem"} = {}
  PROVE  Reached(Leave(p, t), t, {}, S)
<1>1. PICK q : q = GiveBack(GiveBack(p, t, "mem"), t, "msg")
  OBVIOUS
<1>2. Reached(GiveBack(p, t, "mem"), t, R \ {"mem"}, S)
  BY ReachedGiveBack
<1>3. Reached(q, t, (R \ {"mem"}) \ {"msg"}, S)
  BY <1>1, <1>2, ReachedGiveBack
<1>4. Leave(p, t) = Forget(q, OwnSlots(t))
  <2>1. Locals(t) = OwnSlots(t)
    BY DEF Locals, OwnSlots, LocalRoles
  <2> QED
    BY <1>1, <2>1 DEF Leave
<1>5. PICK l : l = Forget(q, OwnSlots(t))
  OBVIOUS
<1>6. PoolOK(l) /\ SameBut(q, l, OwnSlots(t)) /\ \A s \in OwnSlots(t) : s \notin DOMAIN l.use
  BY <1>3, <1>5, ForgetOK DEF Reached
<1>7. QED
  BY <1>3, <1>4, <1>5, <1>6, SlotsAgain DEF Reached, SameBut

Over(t) == IF call(t).by = "caller" THEN Idle ELSE [ult[t] EXCEPT !.pc = "owner"]

LEMMA FinishReached ==
  ASSUME PlaceInv, NEW t \in Threads, ult[t].pc \notin {"idle", "owner"},
         NEW p, NEW R, NEW S, Reached(p, t, R, S),
         call(t).path \in {"expected", "unexpected"} \/ R \cap {"msg", "mem"} = {},
         NEW status \in Values, Finish(t, p, status)
  PROVE  Reached(pool', t, {}, S) /\ ult' = [ult EXCEPT ![t] = Over(t)]
<1>1. PICK q : q = Leave(p, t)
  OBVIOUS
<1>2. Reached(q, t, {}, S)
  BY <1>1, ReachedLeave
<1>3. CASE call(t).by = "caller"
  BY <1>1, <1>2, <1>3 DEF Finish, Done, Over
<1>4. CASE call(t).by # "caller"
  <2>1. PICK r : r = Object(t, "req")
    OBVIOUS
  <2>2. r \in Requests
    <3>1. r \in Kind("req")
      BY <1>4, <2>1 DEF PlaceInv, SlotInv, Has, RequestAt, Roles, KindAt, Object, call
    <3> QED
      BY <3>1 DEF Requests, Kind
  <2>3. /\ pool' = q \/ pool' = SetEventual(q, r, status)
        /\ ult' = [ult EXCEPT ![t] = Over(t)]
    <3>1. ult' = [ult EXCEPT ![t].pc = "owner"]
      BY <1>4 DEF Finish, Goto
    <3>2. ult[t] \in {ult[t]} /\ ult = [u \in Threads |-> ult[u]]
      BY DEF PlaceInv, UltInv
    <3> QED
      BY <1>1, <1>4, <2>1, <3>1, <3>2 DEF Finish, Over
  <2>4. Reached(SetEventual(q, r, status), t, {}, S)
    <3>1. PoolOK(q)
      BY <1>2 DEF Reached
    <3> QED
      BY <1>2, <2>2, <3>1, SetEventualOK, ReachedSame
  <2> QED
    BY <1>2, <2>3, <2>4
<1>5. QED
  BY <1>3, <1>4

(***************************************************************************)
(* A step to another point of the same call.                               *)
(***************************************************************************)
Went(t, l) == [pc |-> l, call |-> call(t)]

LEMMA GotoIs ==
  ASSUME PlaceInv, NEW t \in Threads, NEW l, Goto(t, l)
  PROVE  ult' = [ult EXCEPT ![t] = Went(t, l)]
<1>1. ult = [u \in Threads |-> ult[u]] /\ ult[t] = [pc |-> ult[t].pc, call |-> ult[t].call]
  BY DEF PlaceInv, UltInv, Fitting
<1>2. ult' = [ult EXCEPT ![t] = [ult[t] EXCEPT !.pc = l]]
  BY <1>1 DEF Goto
<1>3. [ult[t] EXCEPT !.pc = l] = Went(t, l)
  BY <1>1 DEF Went, call
<1>4. QED
  BY <1>2, <1>3

(***************************************************************************)
(* A blocking operation is handed to NA, or refused.                       *)
(***************************************************************************)
LEMMA Blocks ==
  ASSUME PlaceInv, NaTyped, NEW t \in Threads, NEW p, NEW R, NEW S, Reached(p, t, R, S),
         "op" \notin R, NEW buf \in Objects \cup {NoBuffer}, NEW l,
         StartBlocking(t, p, buf, l)
  PROVE  /\ Reached(pool', t, R \cup {"op"}, S)
         /\ ult' = [ult EXCEPT ![t] = Went(t, l)]
         /\ NaTyped'
<1>1. PICK q : q = GetOpId(p, Slot(t, "op"))
  OBVIOUS
<1>2. Reached(q, t, R \cup {"op"}, S)
  <2>1. "op" \in LocalRoles \ R /\ "op" \in Kinds /\ "op" = KindAt(call(t), "op")
    BY DEF LocalRoles, Kinds, KindAt
  <2> QED
    BY <1>1, <2>1, ReachedGet DEF GetOpId
<1>3. PICK id : id = q.use[Slot(t, "op")]
  OBVIOUS
<1>4. id \in Kind("op")
  BY <1>2, <1>3 DEF Reached, LocalRoles, KindAt
<1>5. /\ Goto(t, l)
      /\ \/ /\ pool' = SetEventual(q, Stack(t), "unset")
            /\ na' = na \cup {Operation(id, buf, Stack(t))}
         \/ /\ pool' = SetEventual(q, Stack(t), "error")
            /\ UNCHANGED na
  BY <1>1, <1>3 DEF StartBlocking
<1>6. Stack(t) \in Requests /\ "unset" \in Values /\ "error" \in Values
  BY DEF Stack, Requests, Values
<1>7. ASSUME NEW v \in Values
      PROVE  Reached(SetEventual(q, Stack(t), v), t, R \cup {"op"}, S)
  <2>1. PoolOK(q)
    BY <1>2 DEF Reached
  <2> QED
    BY <1>2, <1>6, <2>1, SetEventualOK, ReachedSame
<1>8. NaTyped'
  <2>1. Operation(id, buf, Stack(t)) \in NaOperations
    BY <1>4, <1>6 DEF Operation, NaOperations
  <2> QED
    BY <1>5, <2>1 DEF NaTyped
<1>9. QED
  BY <1>5, <1>6, <1>7, <1>8, GotoIs

(***************************************************************************)
(* The blocking operation is over.                                         *)
(***************************************************************************)
LEMMA Unblocks ==
  ASSUME NEW t \in Threads, NEW R, Reached(pool, t, R, {}), "op" \in R
  PROVE  Reached(AfterBlocking(t), t, R \ {"op"}, {})
<1>1. PICK q : q = WaitInternal(pool, Stack(t))
  OBVIOUS
<1>2. Reached(q, t, R, {})
  BY <1>1, DropEventualOK, ReachedSame DEF WaitInternal, Reached
<1>3. "op" \in LocalRoles \cap R /\ "op" \in Kinds /\ "op" = KindAt(call(t), "op")
  BY DEF LocalRoles, Kinds, KindAt
<1>4. QED
  BY <1>1, <1>2, <1>3, ReachedReturn DEF AfterBlocking, ReturnOpId

(***************************************************************************)
(* A step of t that ends with the pool it has reached, at the point for    *)
(* which t holds what it should.                                           *)
(***************************************************************************)
Rest(S) == \A u \in Threads : \A role \in Roles : Slot(u, role) \notin S

LEMMA StepSlots ==
  ASSUME PlaceInv, NEW t \in Threads, NEW w, Fitting(w), NEW S, Rest(S),
         Reached(pool', t, {role \in LocalRoles : Has(w, role)}, S),
         ult' = [ult EXCEPT ![t] = w],
         w.call = call(t) \/ w = Idle, RequestAt(w) <=> RequestAt(ult[t])
  PROVE  PoolOK(pool)' /\ UltInv' /\ SlotInv'
<1>1. PoolOK(pool')
  BY DEF Reached
<1>2. /\ ult' = [u \in Threads |-> ult'[u]] /\ ult'[t] = w
      /\ \A u \in Threads \ {t} : ult'[u] = ult[u]
  BY DEF PlaceInv, UltInv
<1>3. UltInv'
  BY <1>2 DEF PlaceInv, UltInv
<1>4. ASSUME NEW u \in Threads, NEW role \in Roles
      PROVE  /\ Slot(u, role) \in DOMAIN pool'.use <=> Has(ult'[u], role)
             /\ Slot(u, role) \in DOMAIN pool'.use =>
                  pool'.use[Slot(u, role)] \in Kind(KindAt(ult'[u].call, role))
  <2>1. CASE u # t
    <3>1. Slot(u, role) \notin OwnSlots(t) \cup S
      BY <2>1, SlotsAgain DEF Rest
    <3> QED
      BY <1>2, <2>1, <3>1 DEF PlaceInv, SlotInv, Reached, SameBut, call
  <2>2. CASE u = t /\ role = "req"
    <3>1. Slot(t, "req") \notin OwnSlots(t) \cup S
      BY <2>2, SlotsAgain DEF Rest
    <3>2. Has(w, "req") <=> Has(ult[t], "req")
      BY DEF Has, LocalAt
    <3>3. \A c : KindAt(c, "req") = "req"
      BY DEF KindAt
    <3> QED
      BY <1>2, <2>2, <3>1, <3>2, <3>3 DEF PlaceInv, SlotInv, Reached, SameBut
  <2>3. CASE u = t /\ role # "req"
    <3>1. role \in LocalRoles
      BY <2>3 DEF Roles
    <3>2. CASE w = Idle
      <4>1. ~ Has(w, role)
        BY <2>3, <3>2 DEF Has, LocalAt, Idle, Blocked, Handing
      <4> QED
        BY <1>2, <2>3, <3>1, <4>1 DEF Reached
    <3>3. CASE w.call = call(t)
      BY <1>2, <2>3, <3>1, <3>3 DEF Reached
    <3> QED
      BY <3>2, <3>3
  <2> QED
    BY <2>1, <2>2, <2>3
<1>5. QED
  BY <1>1, <1>3, <1>4 DEF SlotInv, call, Slot

(***************************************************************************)
(* The instance keeps what it has when t does not touch it.                *)
(***************************************************************************)
LEMMA StepInstance ==
  ASSUME PlaceInv, NEW t \in Threads, SameBut(pool, pool', OwnSlots(t) \cup {Slot(t, "req")}),
         UNCHANGED <<up, prob_active>>
  PROVE  ProbInv' /\ QueueInv'
<1>1. \A s \in Prob : s \notin OwnSlots(t) \cup {Slot(t, "req")}
  BY SlotsAgain, Slots DEF Roles
<1>2. \A s : s[1] = "pending" => s \notin OwnSlots(t) \cup {Slot(t, "req")}
  BY SlotsAgain, Slots
<1>3. Prob' = Prob /\ \A s : ProbKind(s)' = ProbKind(s)
  BY DEF Prob, ProbKind, ProbMsg, ProbId, ProbReq
<1>4. ProbInv'
  BY <1>1 DEF PlaceInv, ProbInv, SameBut, Prob, ProbKind, ProbMsg, ProbId, ProbReq
<1>5. QueueInv'
  BY <1>2 DEF PlaceInv, QueueInv, SameBut, Queued
<1>6. QED
  BY <1>4, <1>5

LEMMA StepListen ==
  ASSUME PlaceInv, up = "up", NEW t \in Threads, NEW w, ult' = [ult EXCEPT ![t] = w],
         w.pc \in Listening => w.pc = ult[t].pc,
         UNCHANGED inst, short' \in BOOLEAN
  PROVE  ListenInv'
<1>1. /\ ult'[t] = w /\ \A u \in Threads \ {t} : ult'[u] = ult[u]
      /\ UNCHANGED <<prob_active, queue_active, up>>
  BY DEF PlaceInv, UltInv, inst
<1>2. QED
  BY <1>1 DEF PlaceInv, ListenInv, Listening

LEMMA SomebodyUp ==
  ASSUME PlaceInv, NEW t \in Threads, ult[t].pc # "idle"
  PROVE  up = "up"
BY DEF PlaceInv, ListenInv

(***************************************************************************)
(* What t has reached at the start of a step, and the two ways to end one. *)
(***************************************************************************)
LEMMA ReachedAt ==
  ASSUME PlaceInv, NEW t \in Threads, NEW R,
         \A role \in LocalRoles : role \in R <=> LocalAt(ult[t], role)
  PROVE  Reached(pool, t, R, {})
<1>1. \A role \in LocalRoles : Has(ult[t], role) <=> LocalAt(ult[t], role)
  BY DEF Has, LocalRoles
<1>2. QED
  BY <1>1, ReachedFirst DEF Reached

LEMMA WentStep ==
  ASSUME PlaceInv, NEW t \in Threads, ult[t].pc \notin {"idle", "owner"},
         NEW l \in Points \ ({"idle", "owner"} \cup Listening), Fitting(Went(t, l)),
         NEW R, Reached(pool', t, R, {}),
         \A role \in LocalRoles : role \in R <=> LocalAt(Went(t, l), role),
         ult' = [ult EXCEPT ![t] = Went(t, l)], UNCHANGED inst, short' \in BOOLEAN
  PROVE  PlaceInv'
<1>1. PICK w : w = Went(t, l)
  OBVIOUS
<1>2. w.pc = l /\ w.call = call(t) /\ call(t) = ult[t].call
  BY <1>1 DEF Went, call
<1>3. Reached(pool', t, {role \in LocalRoles : Has(w, role)}, {})
  <2>1. \A role \in LocalRoles : Has(w, role) <=> LocalAt(w, role)
    BY DEF Has, LocalRoles
  <2> QED
    BY <1>1, <2>1 DEF Reached
<1>4. RequestAt(w) <=> RequestAt(ult[t])
  BY <1>2 DEF RequestAt
<1>5. PoolOK(pool)' /\ UltInv' /\ SlotInv'
  <2>1. /\ Rest({}) /\ Fitting(w) /\ w.call = call(t)
        /\ ult' = [ult EXCEPT ![t] = w]
    BY <1>1, <1>2 DEF Rest
  <2> QED
    BY <1>3, <1>4, <2>1, StepSlots
<1>6. ProbInv' /\ QueueInv'
  <2>1. SameBut(pool, pool', OwnSlots(t) \cup {Slot(t, "req")})
    BY <1>3 DEF Reached, SameBut
  <2> QED
    BY <2>1, StepInstance DEF inst
<1>7. ListenInv'
  BY <1>1, <1>2, StepListen, SomebodyUp
<1>8. QED
  BY <1>5, <1>6, <1>7 DEF PlaceInv

LEMMA OverFitting ==
  ASSUME PlaceInv, NEW t \in Threads, ult[t].pc \notin {"idle", "owner"}
  PROVE  /\ Fitting(Over(t)) /\ (Over(t).call = call(t) \/ Over(t) = Idle)
         /\ Over(t).pc \in {"idle", "owner"}
         /\ RequestAt(Over(t)) <=> RequestAt(ult[t])
         /\ \A role \in LocalRoles : ~ Has(Over(t), role)
<1>1. Fitting(ult[t])
  BY DEF PlaceInv, UltInv
<1>2. CASE call(t).by = "caller"
  <2>1. Over(t) = Idle
    BY <1>2 DEF Over
  <2>2. Idle = [pc |-> Idle.pc, call |-> Idle.call] /\ Idle.pc = "idle"
    BY DEF Idle
  <2>3. Fitting(Idle)
    BY <2>2 DEF Fitting, Points, Handing, Listening
  <2>4. ~ RequestAt(Idle) /\ ~ RequestAt(ult[t])
    BY <1>2, <2>2 DEF RequestAt, call
  <2>5. \A role \in LocalRoles : ~ Has(Idle, role)
    BY <2>2 DEF Has, LocalAt, LocalRoles, Blocked, Handing
  <2> QED
    BY <2>1, <2>2, <2>3, <2>4, <2>5
<1>3. CASE call(t).by # "caller"
  <2>1. PICK w : w = [pc |-> "owner", call |-> call(t)]
    OBVIOUS
  <2>2. Over(t) = w /\ w.pc = "owner" /\ w.call = call(t) /\ w = [pc |-> w.pc, call |-> w.call]
    BY <1>1, <1>3, <2>1 DEF Over, Fitting, call
  <2>3. Fitting(w)
    BY <1>1, <1>3, <2>2 DEF Fitting, Points, Handing, Listening, call
  <2>4. RequestAt(w) /\ RequestAt(ult[t])
    BY <1>3, <2>2 DEF RequestAt, call
  <2>5. \A role \in LocalRoles : ~ Has(w, role)
    BY <2>2 DEF Has, LocalAt, LocalRoles, Blocked, Handing
  <2> QED
    BY <2>2, <2>3, <2>4, <2>5
<1>4. QED
  BY <1>2, <1>3

LEMMA FinishSlots ==
  ASSUME PlaceInv, NEW t \in Threads, ult[t].pc \notin {"idle", "owner"},
         NEW p, NEW R, NEW S, Rest(S), Reached(p, t, R, S),
         NEW status \in Values, Finish(t, p, status),
         call(t).path \in {"expected", "unexpected"} \/ R \cap {"msg", "mem"} = {}
  PROVE  /\ PoolOK(pool)' /\ UltInv' /\ SlotInv'
         /\ SameBut(pool, pool', OwnSlots(t) \cup S)
         /\ ult' = [ult EXCEPT ![t] = Over(t)]
<1>1. Reached(pool', t, {}, S) /\ ult' = [ult EXCEPT ![t] = Over(t)]
  BY FinishReached
<1>2. PICK w : w = Over(t)
  OBVIOUS
<1>3. /\ Fitting(w) /\ (w.call = call(t) \/ w = Idle)
      /\ RequestAt(w) <=> RequestAt(ult[t])
      /\ {role \in LocalRoles : Has(w, role)} = {}
  BY <1>2, OverFitting
<1>4. PoolOK(pool)' /\ UltInv' /\ SlotInv'
  BY <1>1, <1>2, <1>3, StepSlots
<1>5. QED
  BY <1>1, <1>4 DEF Reached

LEMMA FinishStep ==
  ASSUME PlaceInv, NEW t \in Threads, ult[t].pc \notin {"idle", "owner"},
         NEW p, NEW R, Reached(p, t, R, {}), NEW status \in Values, Finish(t, p, status),
         call(t).path \in {"expected", "unexpected"} \/ R \cap {"msg", "mem"} = {},
         UNCHANGED inst, short' \in BOOLEAN
  PROVE  PlaceInv'
<1>1. /\ PoolOK(pool)' /\ UltInv' /\ SlotInv'
      /\ SameBut(pool, pool', OwnSlots(t))
      /\ ult' = [ult EXCEPT ![t] = Over(t)]
  <2>1. Rest({})
    BY DEF Rest
  <2>2. /\ PoolOK(pool)' /\ UltInv' /\ SlotInv'
        /\ SameBut(pool, pool', OwnSlots(t) \cup {})
        /\ ult' = [ult EXCEPT ![t] = Over(t)]
    BY <2>1, FinishSlots
  <2> QED
    BY <2>2 DEF SameBut
<1>2. ProbInv' /\ QueueInv'
  <2>1. SameBut(pool, pool', OwnSlots(t) \cup {Slot(t, "req")})
    BY <1>1 DEF SameBut
  <2> QED
    BY <2>1, StepInstance DEF inst
<1>3. ListenInv'
  <2>1. Over(t).pc \notin Listening
    BY OverFitting DEF Listening
  <2> QED
    BY <1>1, <2>1, StepListen, SomebodyUp
<1>4. QED
  BY <1>1, <1>2, <1>3 DEF PlaceInv

-----------------------------------------------------------------------------
(***************************************************************************)
(* The steps of a call, one lemma each.                                    *)
(***************************************************************************)
LEMMA CallOf ==
  ASSUME PlaceInv, NEW t \in Threads, ult[t].pc # "idle"
  PROVE  /\ call(t) = ult[t].call /\ Fitting(ult[t])
         /\ call(t).mem \in BOOLEAN
         /\ call(t).op \in {"send", "recv", "probe"} =>
              call(t).path \in {"expected", "unexpected"}
         /\ \A l : Went(t, l).pc = l /\ Went(t, l).call = ult[t].call
                   /\ Went(t, l) = [pc |-> Went(t, l).pc, call |-> Went(t, l).call]
<1>1. Fitting(ult[t]) /\ call(t) = ult[t].call
  BY DEF PlaceInv, UltInv, call
<1>2. call(t) \in Messages \cup Primitives
  BY <1>1, CallsAre DEF Fitting
<1>3. /\ call(t).mem \in BOOLEAN
      /\ call(t).op \in {"send", "recv", "probe"} =>
           call(t).path \in {"expected", "unexpected"}
  BY <1>2 DEF Messages, Primitives
<1>4. QED
  BY <1>1, <1>3 DEF Went, call

LEMMA FittingWent ==
  ASSUME PlaceInv, NEW t \in Threads, ult[t].pc # "idle", NEW l \in Points \ {"idle", "owner"},
         l = "sending" => call(t).op \in {"send", "recv"},
         l \in Handing => call(t).op = "send",
         l \in {"receiving", "got", "getting", "acknowledge"} => call(t).op = "recv",
         l \in Listening => call(t).op \in {"recv", "probe"} /\ call(t).path = "unexpected"
  PROVE  Fitting(Went(t, l))
<1>1. PICK w : w = Went(t, l)
  OBVIOUS
<1>2. w.pc = l /\ w.call = call(t) /\ w = [pc |-> w.pc, call |-> w.call]
  BY <1>1 DEF Went
<1>3. call(t) \in Calls
  BY CallOf DEF Fitting
<1>4. Fitting(w)
  BY <1>2, <1>3 DEF Fitting
<1>5. QED
  BY <1>1, <1>4

LEMMA SetValue ==
  ASSUME PlaceInv, NEW req, IsSet(req)
  PROVE  Value(req) \in Values
BY DEF PlaceInv, PoolOK, PoolTyped, IsSet, Value

LEMMA BlockStep ==
  ASSUME Inv, NEW t \in Threads, ult[t].pc \notin {"idle", "owner"},
         NEW p, NEW R, Reached(p, t, R, {}), "op" \notin R,
         NEW buf \in Objects \cup {NoBuffer},
         NEW l \in Blocked, Fitting(Went(t, l)),
         \A role \in LocalRoles : role \in R \/ role = "op" <=> LocalAt(Went(t, l), role),
         StartBlocking(t, p, buf, l), UNCHANGED inst, UNCHANGED short
  PROVE  Inv'
<1>1. /\ Reached(pool', t, R \cup {"op"}, {})
      /\ ult' = [ult EXCEPT ![t] = Went(t, l)] /\ NaTyped'
  BY Blocks DEF Inv
<1>2. l \in Points \ ({"idle", "owner"} \cup Listening) /\ short' \in BOOLEAN
  BY DEF Blocked, Points, Listening, Inv, PlaceInv, ListenInv
<1>3. \A role \in LocalRoles : role \in R \cup {"op"} <=> LocalAt(Went(t, l), role)
  OBVIOUS
<1>4. PlaceInv'
  BY <1>1, <1>2, <1>3, WentStep DEF Inv
<1>5. QED
  BY <1>1, <1>4 DEF Inv

LEMMA OverStep ==
  ASSUME Inv, NEW t \in Threads, ult[t].pc \notin {"idle", "owner"},
         NEW p, NEW R, Reached(p, t, R, {}), NEW status \in Values, Finish(t, p, status),
         call(t).path \in {"expected", "unexpected"} \/ R \cap {"msg", "mem"} = {},
         UNCHANGED <<inst, short>>, NaTyped'
  PROVE  Inv'
<1>1. short' \in BOOLEAN
  BY DEF Inv, PlaceInv, ListenInv
<1>2. QED
  BY <1>1, FinishStep DEF Inv

LEMMA NoBufferIsOne == NoBuffer \in Objects \cup {NoBuffer} /\ {"ok", "error"} \subseteq Values
BY DEF Values

LEMMA OperKeeps ==
  ASSUME Inv, NEW t \in Threads, Oper(t)
  PROVE  Inv'
<1>0. PICK R : R = {}
  OBVIOUS
<1>1. ult[t].pc = "begin" /\ StartBlocking(t, pool, NoBuffer, "oper") /\ call(t).op = "oper"
  BY DEF Oper, At
<1>2. Reached(pool, t, R, {})
  BY <1>0, <1>1, ReachedAt DEF Inv, LocalAt, Blocked, Handing
<1>3. Fitting(Went(t, "oper"))
  BY <1>1, FittingWent DEF Inv, Points, Handing, Listening
<1>4. \A role \in LocalRoles : role \in R \/ role = "op" <=> LocalAt(Went(t, "oper"), role)
  BY <1>0, <1>1, CallOf DEF Inv, LocalAt, Blocked, Handing, LocalRoles
<1>5. UNCHANGED inst /\ UNCHANGED short /\ "oper" \in Blocked /\ "op" \notin R
  BY <1>0 DEF Oper, Blocked
<1>6. QED
  BY <1>1, <1>2, <1>3, <1>4, <1>5, BlockStep, NoBufferIsOne

LEMMA OperOverKeeps ==
  ASSUME Inv, NEW t \in Threads, OperOver(t)
  PROVE  Inv'
<1>1. ult[t].pc = "oper" /\ IsSet(Stack(t)) /\ Finish(t, AfterBlocking(t), Value(Stack(t)))
  BY DEF OperOver, At, BlockingOver
<1>2. Reached(pool, t, {"op"}, {})
  BY <1>1, ReachedAt DEF Inv, LocalAt, Blocked, Handing, LocalRoles
<1>3. Reached(AfterBlocking(t), t, {"op"} \ {"op"}, {})
  BY <1>2, Unblocks
<1>4. UNCHANGED <<inst, short>> /\ NaTyped'
  BY DEF OperOver, bounds, Inv, NaTyped
<1>5. QED
  BY <1>1, <1>3, <1>4, OverStep, SetValue DEF Inv

(***************************************************************************)
(* Sends.                                                                  *)
(***************************************************************************)
LEMMA ReachedMsg ==
  ASSUME NEW t \in Threads, NEW p, NEW R, NEW S, Reached(p, t, R, S),
         NEW role \in {"msg", "mem", "ack"}, role \notin R,
         call(t).path \in {"expected", "unexpected"}
  PROVE  Reached(GetMsg(p, Slot(t, role), call(t).path), t, R \cup {role}, S)
<1>1. role \in LocalRoles \ R /\ call(t).path \in Kinds /\ call(t).path = KindAt(call(t), role)
  BY DEF LocalRoles, Kinds, KindAt
<1>2. QED
  BY <1>1, ReachedGet DEF GetMsg

LEMMA ReachedObject ==
  ASSUME NEW t \in Threads, NEW p, NEW R, NEW S, Reached(p, t, R, S),
         NEW role \in LocalRoles \cap R
  PROVE  p.use[Slot(t, role)] \in Objects
BY PoolObjects DEF Reached

LEMMA SendSmallKeeps ==
  ASSUME Inv, NEW t \in Threads, SendSmall(t)
  PROVE  Inv'
<1>1. ult[t].pc = "begin" /\ call(t).op = "send" /\ UNCHANGED <<inst, short>>
  BY DEF SendSmall, At
<1>2. call(t).path \in {"expected", "unexpected"}
  BY <1>1, CallOf DEF Inv
<1>3. PICK p : p = GetMsg(pool, Slot(t, "msg"), call(t).path)
  OBVIOUS
<1>4. Reached(p, t, {"msg"}, {})
  <2>1. Reached(pool, t, {}, {})
    BY <1>1, ReachedAt DEF Inv, LocalAt, Blocked, Handing
  <2>2. Reached(p, t, {} \cup {"msg"}, {})
    BY <1>2, <1>3, <2>1, ReachedMsg
  <2> QED
    BY <2>2
<1>5. \/ StartBlocking(t, p, p.use[Slot(t, "msg")], "sending")
      \/ Finish(t, p, "error") /\ UNCHANGED na
  BY <1>3 DEF SendSmall
<1>6. CASE StartBlocking(t, p, p.use[Slot(t, "msg")], "sending")
  <2>1. p.use[Slot(t, "msg")] \in Objects \cup {NoBuffer}
    BY <1>4, ReachedObject DEF LocalRoles
  <2>2. Fitting(Went(t, "sending"))
    BY <1>1, FittingWent DEF Inv, Points, Handing, Listening
  <2>3. \A role \in LocalRoles :
           role \in {"msg"} \/ role = "op" <=> LocalAt(Went(t, "sending"), role)
    BY <1>1, CallOf DEF Inv, LocalAt, Blocked, Handing, LocalRoles
  <2>4. "sending" \in Blocked
    BY DEF Blocked
  <2> QED
    BY <1>1, <1>4, <1>6, <2>1, <2>2, <2>3, <2>4, BlockStep
<1>7. CASE Finish(t, p, "error") /\ UNCHANGED na
  BY <1>1, <1>2, <1>4, <1>7, OverStep, NoBufferIsOne DEF Inv, NaTyped
<1>8. QED
  BY <1>5, <1>6, <1>7

LEMMA SentKeeps ==
  ASSUME Inv, NEW t \in Threads, Sent(t)
  PROVE  Inv'
<1>1. ult[t].pc = "sending" /\ IsSet(Stack(t)) /\ Finish(t, AfterBlocking(t), Value(Stack(t)))
  BY DEF Sent, At, BlockingOver
<1>2. Reached(pool, t, {"op", "msg"}, {}) /\ call(t).path \in {"expected", "unexpected"}
  <2>1. \A role \in LocalRoles : role \in {"op", "msg"} <=> LocalAt(ult[t], role)
    BY <1>1, SMTT(30) DEF LocalAt, Blocked, Handing, LocalRoles
  <2>2. Reached(pool, t, {"op", "msg"}, {})
    BY <2>1, ReachedAt DEF Inv
  <2>3. call(t).path \in {"expected", "unexpected"}
    BY <1>1, CallOf DEF Inv, Fitting
  <2> QED
    BY <2>2, <2>3
<1>3. Reached(AfterBlocking(t), t, {"op", "msg"} \ {"op"}, {})
  BY <1>2, Unblocks
<1>4. UNCHANGED <<inst, short>> /\ NaTyped'
  BY DEF Sent, bounds, Inv, NaTyped
<1>5. QED
  BY <1>1, <1>2, <1>3, <1>4, OverStep, SetValue DEF Inv

Handles(t) == {"mem", "ack", "ackop", "ackreq"} \cup (IF call(t).mem THEN {} ELSE {"msg"})

LEMMA HandlesHeld ==
  ASSUME PlaceInv, NEW t \in Threads, ult[t].pc # "idle", NEW l \in {"handle", "ackwait"}
  PROVE  /\ \A role \in LocalRoles : role \in Handles(t) <=> LocalAt(Went(t, l), role)
         /\ \A role \in LocalRoles : role \in Handles(t) \/ role = "op" <=>
              LocalAt(Went(t, "handlesent"), role)
         /\ ult[t].pc = l => \A role \in LocalRoles :
              role \in Handles(t) <=> LocalAt(ult[t], role)
         /\ ult[t].pc = "handlesent" => \A role \in LocalRoles :
              role \in Handles(t) \cup {"op"} <=> LocalAt(ult[t], role)
         /\ "op" \notin Handles(t)
BY CallOf DEF Handles, LocalAt, LocalRoles, Blocked, Handing

LEMMA SendHandleKeeps ==
  ASSUME Inv, NEW t \in Threads, SendHandle(t)
  PROVE  Inv'
<1>1. /\ ult[t].pc = "handle" /\ StartBlocking(t, pool, Object(t, "mem"), "handlesent")
      /\ UNCHANGED <<inst, short>>
  BY DEF SendHandle, At
<1>2. Reached(pool, t, Handles(t), {})
  BY <1>1, ReachedAt, HandlesHeld DEF Inv
<1>3. Object(t, "mem") \in Objects \cup {NoBuffer}
  BY <1>2, ReachedObject DEF Object, LocalRoles, Handles
<1>4. Fitting(Went(t, "handlesent"))
  <2>1. call(t).op = "send"
    BY <1>1, CallOf DEF Inv, Fitting, Handing
  <2> QED
    BY <1>1, <2>1, FittingWent DEF Inv, Points, Handing, Listening
<1>5. "handlesent" \in Blocked
  BY DEF Blocked
<1>6. QED
  BY <1>1, <1>2, <1>3, <1>4, <1>5, HandlesHeld, BlockStep DEF Inv

(***************************************************************************)
(* NA's operations stay what they are when one is cancelled.               *)
(***************************************************************************)
LEMMA CancelTyped ==
  ASSUME NaTyped, NEW id, Cancel(id)
  PROVE  NaTyped'
<1>1. \A o \in NaOperations : [o EXCEPT !.cancelled = TRUE] \in NaOperations
  BY DEF NaOperations
<1>2. QED
  BY <1>1 DEF NaTyped, Cancel

LEMMA ReachedReturnOp ==
  ASSUME NEW t \in Threads, NEW p, NEW R, NEW S, Reached(p, t, R, S), "ackop" \in R
  PROVE  Reached(ReturnOpId(p, Slot(t, "ackop")), t, R \ {"ackop"}, S)
<1>1. "ackop" \in LocalRoles \cap R /\ "op" \in Kinds /\ "op" = KindAt(call(t), "ackop")
  BY DEF LocalRoles, Kinds, KindAt
<1>2. QED
  BY <1>1, ReachedReturn DEF ReturnOpId

LEMMA HandleSentKeeps ==
  ASSUME Inv, NEW t \in Threads, HandleSent(t)
  PROVE  Inv'
<1>1. ult[t].pc = "handlesent" /\ UNCHANGED <<inst, short>>
  BY DEF HandleSent, At, bounds
<1>2. call(t).op = "send" /\ call(t).path \in {"expected", "unexpected"}
  BY <1>1, CallOf DEF Inv, Fitting, Handing
<1>3. PICK p : p = AfterBlocking(t)
  OBVIOUS
<1>4. Reached(p, t, Handles(t), {})
  <2>1. Reached(pool, t, Handles(t) \cup {"op"}, {})
    BY <1>1, ReachedAt, HandlesHeld DEF Inv
  <2>2. Reached(p, t, (Handles(t) \cup {"op"}) \ {"op"}, {})
    BY <1>3, <2>1, Unblocks
  <2>3. (Handles(t) \cup {"op"}) \ {"op"} = Handles(t)
    BY <1>1, HandlesHeld DEF Inv
  <2> QED
    BY <2>2, <2>3
<1>5. \/ pool' = p /\ Goto(t, "ackwait") /\ UNCHANGED na
      \/ /\ Cancel(Object(t, "ackop"))
         /\ Finish(t, ReturnOpId(p, Slot(t, "ackop")), "error")
  BY <1>3 DEF HandleSent
<1>6. CASE pool' = p /\ Goto(t, "ackwait") /\ UNCHANGED na
  <2>1. ult' = [ult EXCEPT ![t] = Went(t, "ackwait")]
    BY <1>6, GotoIs DEF Inv
  <2>2. Fitting(Went(t, "ackwait"))
    BY <1>1, <1>2, FittingWent DEF Inv, Points, Handing, Listening
  <2>3. /\ "ackwait" \in Points \ ({"idle", "owner"} \cup Listening) /\ short' \in BOOLEAN
    BY <1>1 DEF Points, Listening, Inv, PlaceInv, ListenInv
  <2>4. \A role \in LocalRoles : role \in Handles(t) <=> LocalAt(Went(t, "ackwait"), role)
    BY <1>1, HandlesHeld DEF Inv
  <2>5. Reached(pool', t, Handles(t), {})
    BY <1>4, <1>6
  <2>6. PlaceInv'
    BY <1>1, <2>1, <2>2, <2>3, <2>4, <2>5, WentStep DEF Inv
  <2> QED
    BY <1>6, <2>6 DEF Inv, NaTyped
<1>7. CASE /\ Cancel(Object(t, "ackop"))
           /\ Finish(t, ReturnOpId(p, Slot(t, "ackop")), "error")
  <2>1. Reached(ReturnOpId(p, Slot(t, "ackop")), t, Handles(t) \ {"ackop"}, {})
    BY <1>4, ReachedReturnOp DEF Handles
  <2>2. NaTyped'
    BY <1>7, CancelTyped DEF Inv
  <2> QED
    BY <1>1, <1>2, <1>7, <2>1, <2>2, OverStep, NoBufferIsOne
<1>8. QED
  BY <1>5, <1>6, <1>7

LEMMA AcknowledgedKeeps ==
  ASSUME Inv, NEW t \in Threads, Acknowledged(t)
  PROVE  Inv'
<1>1. /\ ult[t].pc = "ackwait" /\ UNCHANGED <<inst, short>> /\ IsSet(Object(t, "ackreq"))
      /\ NaTyped'
  BY DEF Acknowledged, At, bounds, Inv, NaTyped
<1>2. call(t).op = "send" /\ call(t).path \in {"expected", "unexpected"}
  BY <1>1, CallOf DEF Inv, Fitting, Handing
<1>3. PICK p : p = Wait(pool, Slot(t, "ackreq"))
  OBVIOUS
<1>4. PICK R \in {Handles(t), Handles(t) \ {"ackreq"}} : Reached(p, t, R, {})
  <2>1. Reached(pool, t, Handles(t), {})
    BY <1>1, ReachedAt, HandlesHeld DEF Inv
  <2>2. "ackreq" \in Handles(t)
    BY DEF Handles
  <2> QED
    BY <1>3, <2>1, <2>2, ReachedWait
<1>5. Reached(ReturnOpId(p, Slot(t, "ackop")), t, R \ {"ackop"}, {})
  BY <1>4, ReachedReturnOp DEF Handles
<1>6. Finish(t, ReturnOpId(p, Slot(t, "ackop")), Value(Object(t, "ackreq")))
  BY <1>3 DEF Acknowledged
<1>7. QED
  BY <1>1, <1>2, <1>5, <1>6, OverStep, SetValue DEF Inv

(***************************************************************************)
(* SendLarge reaches three pools: with the buffer of mona_send_nc, if any, *)
(* with that of the handle, and with what the acknowledgement needs.       *)
(***************************************************************************)
LEMMA SendLargeKeeps ==
  ASSUME Inv, NEW t \in Threads, SendLarge(t)
  PROVE  Inv'
<1>1. ult[t].pc = "begin" /\ call(t).op = "send" /\ UNCHANGED <<inst, short>>
  BY DEF SendLarge, At
<1>2. call(t).path \in {"expected", "unexpected"}
  BY <1>1, CallOf DEF Inv
<1>3. PICK p, q, g, h, r :
        /\ p = IF call(t).mem THEN pool ELSE GetMsg(pool, Slot(t, "msg"), call(t).path)
        /\ q = GetMsg(p, Slot(t, "mem"), call(t).path)
        /\ g = GetMsg(q, Slot(t, "ack"), call(t).path)
        /\ h = GetOpId(g, Slot(t, "ackop"))
        /\ r = GetReq(h, Slot(t, "ackreq"))
  OBVIOUS
<1>4. PICK R : R = IF call(t).mem THEN {} ELSE {"msg"}
  OBVIOUS
<1>5. Reached(p, t, R, {})
  <2>1. Reached(pool, t, {}, {})
    BY <1>1, ReachedAt DEF Inv, LocalAt, Blocked, Handing
  <2>2. Reached(GetMsg(pool, Slot(t, "msg"), call(t).path), t, {} \cup {"msg"}, {})
    BY <1>2, <2>1, ReachedMsg
  <2>3. {} \cup {"msg"} = {"msg"}
    OBVIOUS
  <2> QED
    BY <1>3, <1>4, <2>1, <2>2, <2>3
<1>6. Reached(q, t, R \cup {"mem"}, {})
  BY <1>2, <1>3, <1>4, <1>5, ReachedMsg
<1>7. Reached(g, t, (R \cup {"mem"}) \cup {"ack"}, {})
  BY <1>2, <1>3, <1>4, <1>6, ReachedMsg
<1>8. Reached(h, t, ((R \cup {"mem"}) \cup {"ack"}) \cup {"ackop"}, {})
  <2>1. /\ "ackop" \in LocalRoles \ ((R \cup {"mem"}) \cup {"ack"})
        /\ "op" \in Kinds /\ "op" = KindAt(call(t), "ackop")
    BY <1>4 DEF LocalRoles, Kinds, KindAt
  <2> QED
    BY <1>3, <1>7, <2>1, ReachedGet DEF GetOpId
<1>9. Reached(r, t, Handles(t), {})
  <2>1. "ackreq" \notin ((R \cup {"mem"}) \cup {"ack"}) \cup {"ackop"}
    BY <1>4
  <2>2. Reached(r, t, (((R \cup {"mem"}) \cup {"ack"}) \cup {"ackop"}) \cup {"ackreq"}, {})
    BY <1>3, <1>8, <2>1, ReachedGetReq
  <2>3. (((R \cup {"mem"}) \cup {"ack"}) \cup {"ackop"}) \cup {"ackreq"} = Handles(t)
    BY <1>4 DEF Handles
  <2> QED
    BY <2>2, <2>3
<1>10. PICK id, req, back :
         /\ id = r.use[Slot(t, "ackop")] /\ req = r.use[Slot(t, "ackreq")]
         /\ back = ReturnOpId(ReturnReq(r, Slot(t, "ackreq")), Slot(t, "ackop"))
  OBVIOUS
<1>11. \/ Finish(t, p, "error") /\ UNCHANGED na
       \/ Finish(t, q, "error") /\ UNCHANGED na
       \/ Finish(t, back, "error") /\ UNCHANGED na
       \/ /\ pool' = SetEventual(r, req, "unset")
          /\ na' = na \cup {Operation(id, r.use[Slot(t, "ack")], req)}
          /\ Goto(t, "handle")
  BY <1>3, <1>10 DEF SendLarge
<1>12. Reached(back, t, (Handles(t) \ {"ackreq"}) \ {"ackop"}, {})
  <2>1. /\ "ackreq" \in LocalRoles \cap Handles(t)
        /\ "req" \in Kinds /\ "req" = KindAt(call(t), "ackreq")
        /\ "ackop" \in Handles(t) \ {"ackreq"}
    BY DEF LocalRoles, Handles, Kinds, KindAt
  <2>2. Reached(ReturnReq(r, Slot(t, "ackreq")), t, Handles(t) \ {"ackreq"}, {})
    BY <1>9, <2>1, ReachedReturn DEF ReturnReq
  <2> QED
    BY <1>10, <2>1, <2>2, ReachedReturnOp
<1>13. CASE /\ pool' = SetEventual(r, req, "unset")
            /\ na' = na \cup {Operation(id, r.use[Slot(t, "ack")], req)}
            /\ Goto(t, "handle")
  <2>1. /\ req \in Kind("req") /\ id \in Kind("op") /\ r.use[Slot(t, "ack")] \in Objects
    BY <1>9, <1>10, ReachedObject DEF Reached, LocalRoles, Handles, KindAt
  <2>2. req \in Requests /\ "unset" \in Values /\ PoolOK(r)
    BY <1>9, <2>1 DEF Requests, Kind, Values, Reached
  <2>3. Reached(pool', t, Handles(t), {})
    BY <1>9, <1>13, <2>2, SetEventualOK, ReachedSame
  <2>4. NaTyped'
    <3>1. Operation(id, r.use[Slot(t, "ack")], req) \in NaOperations
      BY <2>1, <2>2 DEF Operation, NaOperations
    <3> QED
      BY <1>13, <3>1 DEF Inv, NaTyped
  <2>5. ult' = [ult EXCEPT ![t] = Went(t, "handle")]
    BY <1>13, GotoIs DEF Inv
  <2>6. Fitting(Went(t, "handle"))
    BY <1>1, <1>2, FittingWent DEF Inv, Points, Handing, Listening
  <2>7. /\ "handle" \in Points \ ({"idle", "owner"} \cup Listening) /\ short' \in BOOLEAN
    BY <1>1 DEF Points, Listening, Inv, PlaceInv, ListenInv
  <2>8. \A role \in LocalRoles : role \in Handles(t) <=> LocalAt(Went(t, "handle"), role)
    BY <1>1, HandlesHeld DEF Inv
  <2>9. PlaceInv'
    BY <1>1, <2>3, <2>5, <2>6, <2>7, <2>8, WentStep DEF Inv
  <2> QED
    BY <2>4, <2>9 DEF Inv
<1>14. ASSUME NEW x \in {p, q, back}, Finish(t, x, "error"), UNCHANGED na PROVE Inv'
  <2>1. PICK Q : Reached(x, t, Q, {})
    BY <1>5, <1>6, <1>12
  <2>2. NaTyped'
    BY <1>14 DEF Inv, NaTyped
  <2> QED
    BY <1>1, <1>2, <1>14, <2>1, <2>2, OverStep, NoBufferIsOne
<1>15. QED
  BY <1>11, <1>13, <1>14

(***************************************************************************)
(* Receives.                                                               *)
(***************************************************************************)
LEMMA RecvKeeps ==
  ASSUME Inv, NEW t \in Threads, Recv(t)
  PROVE  Inv'
<1>1. /\ ult[t].pc = "begin" /\ call(t).op = "recv" /\ call(t).path = "expected"
      /\ UNCHANGED <<inst, short>>
  BY DEF Recv, At
<1>2. PICK p : p = GetMsg(pool, Slot(t, "msg"), call(t).path)
  OBVIOUS
<1>3. Reached(p, t, {"msg"}, {})
  <2>1. Reached(pool, t, {}, {})
    BY <1>1, ReachedAt DEF Inv, LocalAt, Blocked, Handing
  <2>2. Reached(p, t, {} \cup {"msg"}, {})
    BY <1>1, <1>2, <2>1, ReachedMsg
  <2> QED
    BY <2>2
<1>4. StartBlocking(t, p, p.use[Slot(t, "msg")], "receiving")
  BY <1>1, <1>2 DEF Recv
<1>5. p.use[Slot(t, "msg")] \in Objects \cup {NoBuffer}
  BY <1>3, ReachedObject DEF LocalRoles
<1>6. Fitting(Went(t, "receiving"))
  BY <1>1, FittingWent DEF Inv, Points, Handing, Listening
<1>7. \A role \in LocalRoles :
         role \in {"msg"} \/ role = "op" <=> LocalAt(Went(t, "receiving"), role)
  BY <1>1, CallOf DEF Inv, LocalAt, Blocked, Handing, LocalRoles
<1>8. "receiving" \in Blocked
  BY DEF Blocked
<1>9. QED
  BY <1>1, <1>3, <1>4, <1>5, <1>6, <1>7, <1>8, BlockStep

(***************************************************************************)
(* The message is in the hands of t.                                       *)
(***************************************************************************)
LEMMA HasMessage ==
  ASSUME Inv, NEW t \in Threads, ult[t].pc \in {"receiving", "got", "getting", "acknowledge"}
  PROVE  /\ call(t).op = "recv" /\ call(t).path \in {"expected", "unexpected"}
         /\ ult[t].pc \in {"got", "acknowledge"} => Reached(pool, t, {"msg"}, {})
         /\ ult[t].pc \in {"receiving", "getting"} => Reached(AfterBlocking(t), t, {"msg"}, {})
<1>1. call(t).op = "recv" /\ call(t).path \in {"expected", "unexpected"}
  BY CallOf DEF Inv, Fitting
<1>2. CASE ult[t].pc \in {"got", "acknowledge"}
  <2>1. Reached(pool, t, {"msg"}, {})
    BY <1>2, ReachedAt DEF Inv, LocalAt, Blocked, Handing, LocalRoles
  <2> QED
    BY <1>1, <1>2, <2>1
<1>3. CASE ult[t].pc \in {"receiving", "getting"}
  <2>1. Reached(pool, t, {"msg", "op"}, {})
    BY <1>3, ReachedAt DEF Inv, LocalAt, Blocked, Handing, LocalRoles
  <2>2. Reached(AfterBlocking(t), t, {"msg", "op"} \ {"op"}, {})
    BY <2>1, Unblocks
  <2>3. {"msg", "op"} \ {"op"} = {"msg"}
    OBVIOUS
  <2> QED
    BY <1>1, <1>3, <2>2, <2>3
<1>4. QED
  BY <1>2, <1>3

LEMMA HoldsMessage ==
  ASSUME Inv, NEW t \in Threads, ult[t].pc # "idle", ult[t].pc # "owner", call(t).op = "recv",
         NEW l \in {"got", "acknowledge"}, Goto(t, l),
         Reached(pool', t, {"msg"}, {}), UNCHANGED <<inst, short, na>>
  PROVE  Inv'
<1>1. ult' = [ult EXCEPT ![t] = Went(t, l)]
  BY GotoIs DEF Inv
<1>2. Fitting(Went(t, l))
  BY FittingWent DEF Inv, Points, Handing, Listening
<1>3. /\ l \in Points \ ({"idle", "owner"} \cup Listening) /\ short' \in BOOLEAN
  BY DEF Points, Listening, Inv, PlaceInv, ListenInv
<1>4. \A role \in LocalRoles : role \in {"msg"} <=> LocalAt(Went(t, l), role)
  BY CallOf DEF Inv, LocalAt, LocalRoles, Handing, Blocked
<1>5. PlaceInv'
  BY <1>1, <1>2, <1>3, <1>4, WentStep DEF Inv
<1>6. QED
  BY <1>5 DEF Inv, NaTyped

LEMMA ReceivedKeeps ==
  ASSUME Inv, NEW t \in Threads, Received(t) \/ Fetched(t)
  PROVE  Inv'
<1>1. /\ ult[t].pc \in {"receiving", "getting"} /\ UNCHANGED <<inst, short, na>>
      /\ \/ \E l \in {"got", "acknowledge"} : pool' = AfterBlocking(t) /\ Goto(t, l)
         \/ Finish(t, AfterBlocking(t), "error")
  BY DEF Received, Fetched, At, bounds
<1>2. /\ Reached(AfterBlocking(t), t, {"msg"}, {}) /\ call(t).op = "recv"
      /\ call(t).path \in {"expected", "unexpected"}
  BY <1>1, HasMessage
<1>3. CASE \E l \in {"got", "acknowledge"} : pool' = AfterBlocking(t) /\ Goto(t, l)
  BY <1>1, <1>2, <1>3, HoldsMessage
<1>4. CASE Finish(t, AfterBlocking(t), "error")
  BY <1>1, <1>2, <1>4, OverStep, NoBufferIsOne DEF Inv, NaTyped
<1>5. QED
  BY <1>1, <1>3, <1>4

LEMMA CopySmallKeeps ==
  ASSUME Inv, NEW t \in Threads, CopySmall(t)
  PROVE  Inv'
<1>1. /\ ult[t].pc = "got" /\ UNCHANGED <<inst, short, na>> /\ Finish(t, pool, "ok")
  BY DEF CopySmall, At, bounds
<1>2. QED
  BY <1>1, HasMessage, OverStep, NoBufferIsOne DEF Inv, NaTyped

LEMMA GetLargeKeeps ==
  ASSUME Inv, NEW t \in Threads, GetLarge(t)
  PROVE  Inv'
<1>1. /\ ult[t].pc = "got" /\ UNCHANGED <<inst, short>>
      /\ \/ StartBlocking(t, pool, NoBuffer, "getting")
         \/ Goto(t, "acknowledge") /\ UNCHANGED <<pool, na>>
         \/ Finish(t, pool, "error") /\ UNCHANGED na
  BY DEF GetLarge, At
<1>2. /\ call(t).op = "recv" /\ call(t).path \in {"expected", "unexpected"}
      /\ Reached(pool, t, {"msg"}, {})
  BY <1>1, HasMessage
<1>3. CASE StartBlocking(t, pool, NoBuffer, "getting")
  <2>1. Fitting(Went(t, "getting"))
    BY <1>1, <1>2, FittingWent DEF Inv, Points, Handing, Listening
  <2>2. \A role \in LocalRoles :
           role \in {"msg"} \/ role = "op" <=> LocalAt(Went(t, "getting"), role)
    BY <1>1, CallOf DEF Inv, LocalAt, Blocked, Handing, LocalRoles
  <2>3. "getting" \in Blocked
    BY DEF Blocked
  <2> QED
    BY <1>1, <1>2, <1>3, <2>1, <2>2, <2>3, NoBufferIsOne, BlockStep
<1>4. CASE Goto(t, "acknowledge") /\ UNCHANGED <<pool, na>>
  <2>1. Reached(pool', t, {"msg"}, {})
    BY <1>2, <1>4
  <2> QED
    BY <1>1, <1>2, <1>4, <2>1, HoldsMessage
<1>5. CASE Finish(t, pool, "error") /\ UNCHANGED na
  BY <1>1, <1>2, <1>5, OverStep, NoBufferIsOne DEF Inv, NaTyped
<1>6. QED
  BY <1>1, <1>3, <1>4, <1>5

LEMMA AcknowledgeKeeps ==
  ASSUME Inv, NEW t \in Threads, Acknowledge(t)
  PROVE  Inv'
<1>1. /\ ult[t].pc = "acknowledge" /\ UNCHANGED <<inst, short>>
      /\ \/ StartBlocking(t, pool, Object(t, "msg"), "sending")
         \/ Finish(t, pool, "error") /\ UNCHANGED na
  BY DEF Acknowledge, At
<1>2. /\ call(t).op = "recv" /\ call(t).path \in {"expected", "unexpected"}
      /\ Reached(pool, t, {"msg"}, {})
  BY <1>1, HasMessage
<1>3. CASE StartBlocking(t, pool, Object(t, "msg"), "sending")
  <2>1. Fitting(Went(t, "sending"))
    BY <1>1, <1>2, FittingWent DEF Inv, Points, Handing, Listening
  <2>2. \A role \in LocalRoles :
           role \in {"msg"} \/ role = "op" <=> LocalAt(Went(t, "sending"), role)
    BY <1>1, CallOf DEF Inv, LocalAt, Blocked, Handing, LocalRoles
  <2>3. "sending" \in Blocked
    BY DEF Blocked
  <2>4. Object(t, "msg") \in Objects \cup {NoBuffer}
    BY <1>2, ReachedObject DEF LocalRoles, Object
  <2> QED
    BY <1>1, <1>2, <1>3, <2>1, <2>2, <2>3, <2>4, BlockStep
<1>4. CASE Finish(t, pool, "error") /\ UNCHANGED na
  BY <1>1, <1>2, <1>4, OverStep, NoBufferIsOne DEF Inv, NaTyped
<1>5. QED
  BY <1>1, <1>3, <1>4

-----------------------------------------------------------------------------
(***************************************************************************)
(* Steps on what the instance holds.                                       *)
(***************************************************************************)
LEMMA PendingRests ==
  ASSUME NEW S, \A s \in S : s \in Prob \/ s[1] = "pending"
  PROVE  Rest(S)
BY Slots DEF Rest

LEMMA ProbKinds ==
  /\ ProbMsg # ProbId /\ ProbMsg # ProbReq /\ ProbId # ProbReq
  /\ ProbKind(ProbMsg) = "unexpected" /\ ProbKind(ProbId) = "op" /\ ProbKind(ProbReq) = "req"
  /\ "unexpected" \in Kinds /\ "op" \in Kinds /\ "req" \in Kinds
  /\ \A s \in Prob : s = ProbMsg \/ s = ProbId \/ s = ProbReq
  /\ ProbMsg \in Prob /\ ProbId \in Prob /\ ProbReq \in Prob
  /\ \A s \in Prob : s[1] # "pending"
BY DEF ProbMsg, ProbId, ProbReq, ProbKind, Kinds, Prob

(***************************************************************************)
(* The message in slot s, of the queue or of the receive, becomes that of  *)
(* t.                                                                      *)
(***************************************************************************)
LEMMA TookMessage ==
  ASSUME PlaceInv, NEW t \in Threads, ult[t].pc \notin {"idle", "owner"},
         call(t).op = "recv", call(t).path = "unexpected",
         NEW p, NEW S, Reached(p, t, {}, S), NEW s \in DOMAIN p.use,
         p.use[s] \in Kind("unexpected"), Rest(S \cup {s}), s \notin OwnSlots(t),
         pool' = Move(p, s, Slot(t, "msg")), Goto(t, "got")
  PROVE  /\ PoolOK(pool)' /\ UltInv' /\ SlotInv' /\ ult' = [ult EXCEPT ![t] = Went(t, "got")]
         /\ SameBut(p, pool', {s, Slot(t, "msg")}) /\ s \notin DOMAIN pool'.use
<1>1. Slot(t, "msg") \notin DOMAIN p.use /\ PoolOK(p)
  BY DEF Reached, LocalRoles
<1>2. /\ PoolOK(pool') /\ SameBut(p, pool', {s, Slot(t, "msg")})
      /\ s \notin DOMAIN pool'.use
      /\ Slot(t, "msg") \in DOMAIN pool'.use
      /\ pool'.use[Slot(t, "msg")] = p.use[s]
  BY <1>1, MoveOK
<1>3. Reached(pool', t, {"msg"}, S \cup {s})
  <2>1. SameBut(pool, pool', OwnSlots(t) \cup (S \cup {s}))
    <3>1. Slot(t, "msg") \in OwnSlots(t)
      BY DEF OwnSlots, LocalRoles
    <3> QED
      BY <1>2, <3>1 DEF Reached, SameBut
  <2>2. ASSUME NEW role \in LocalRoles
        PROVE  /\ Slot(t, role) \in DOMAIN pool'.use <=> role \in {"msg"}
               /\ Slot(t, role) \in DOMAIN pool'.use =>
                    pool'.use[Slot(t, role)] \in Kind(KindAt(call(t), role))
    <3>1. CASE role = "msg"
      BY <1>2, <3>1 DEF KindAt
    <3>2. CASE role # "msg"
      <4>1. Slot(t, role) \notin {s, Slot(t, "msg")}
        BY <3>2, Slots, SlotsAgain
      <4> QED
        BY <1>2, <3>2, <4>1 DEF SameBut, Reached
    <3> QED
      BY <3>1, <3>2
  <2> QED
    BY <1>2, <2>1, <2>2 DEF Reached
<1>4. PICK w : w = Went(t, "got")
  OBVIOUS
<1>5. /\ Fitting(w) /\ w.call = call(t) /\ w.pc = "got" /\ ult' = [ult EXCEPT ![t] = w]
      /\ RequestAt(w) <=> RequestAt(ult[t])
  <2>1. Fitting(w) /\ ult' = [ult EXCEPT ![t] = w]
    BY <1>4, FittingWent, GotoIs DEF Points, Handing, Listening
  <2>2. w.call = call(t) /\ w.pc = "got"
    BY <1>4 DEF Went
  <2> QED
    BY <2>1, <2>2 DEF RequestAt, call
<1>6. Reached(pool', t, {role \in LocalRoles : Has(w, role)}, S \cup {s})
  <2>1. \A role \in LocalRoles : role \in {"msg"} <=> Has(w, role)
    BY <1>5 DEF Has, LocalAt, LocalRoles, Handing, Blocked
  <2> QED
    BY <1>3, <2>1 DEF Reached
<1>7. PoolOK(pool)' /\ UltInv' /\ SlotInv'
  BY <1>5, <1>6, StepSlots
<1>8. QED
  BY <1>2, <1>4, <1>5, <1>7

LEMMA TakeQueuedKeeps ==
  ASSUME Inv, NEW t \in Threads, TakeQueued(t)
  PROVE  Inv'
<1>1. /\ ult[t].pc = "begin" /\ call(t).op \in {"recv", "probe"} /\ call(t).path = "unexpected"
      /\ UNCHANGED <<inst, short, na>>
  BY DEF TakeQueued, WantsMessage, At, bounds
<1>2. PICK s \in Queued : IF call(t).op = "recv"
                            THEN pool' = Move(pool, s, Slot(t, "msg")) /\ Goto(t, "got")
                            ELSE Finish(t, pool, "ok")
  BY DEF TakeQueued
<1>3. Reached(pool, t, {}, {})
  BY <1>1, ReachedAt DEF Inv, LocalAt, Blocked, Handing
<1>4. CASE call(t).op # "recv"
  BY <1>1, <1>2, <1>3, <1>4, OverStep, NoBufferIsOne DEF Inv, NaTyped
<1>5. CASE call(t).op = "recv"
  <2>1. s \in DOMAIN pool.use /\ s[1] = "pending" /\ pool.use[s] \in Kind("unexpected")
    BY DEF Queued, Inv, PlaceInv, QueueInv
  <2>2. Rest({} \cup {s}) /\ s \notin OwnSlots(t)
    BY <2>1, PendingRests, SlotsAgain
  <2>3. /\ PoolOK(pool)' /\ UltInv' /\ SlotInv' /\ ult' = [ult EXCEPT ![t] = Went(t, "got")]
        /\ SameBut(pool, pool', {s, Slot(t, "msg")}) /\ s \notin DOMAIN pool'.use
    BY <1>1, <1>2, <1>3, <1>5, <2>1, <2>2, TookMessage DEF Inv
  <2>4. ListenInv'
    <3>1. short' \in BOOLEAN /\ Went(t, "got").pc \notin Listening
      BY <1>1 DEF Inv, PlaceInv, ListenInv, Went, Listening
    <3> QED
      BY <1>1, <2>3, <3>1, StepListen, SomebodyUp DEF Inv
  <2>5. ProbInv'
    <3>1. \A r \in Prob : r \notin {s, Slot(t, "msg")}
      BY <2>1, Slots, ProbKinds DEF Roles, LocalRoles
    <3> QED
      BY <1>1, <2>3, <3>1 DEF inst, Inv, PlaceInv, ProbInv, SameBut, Prob, ProbKind, ProbMsg,
         ProbId, ProbReq
  <2>6. QueueInv'
    <3>1. \A r : r[1] = "pending" => r # Slot(t, "msg")
      BY Slots
    <3> QED
      BY <2>3, <3>1 DEF Inv, PlaceInv, QueueInv, SameBut, Queued
  <2> QED
    BY <1>1, <2>3, <2>4, <2>5, <2>6 DEF Inv, PlaceInv, NaTyped
<1>6. QED
  BY <1>4, <1>5

LEMMA ClaimKeeps ==
  ASSUME Inv, NEW t \in Threads, Claim(t)
  PROVE  Inv'
<1>1. /\ ult[t].pc = "begin" /\ call(t).op \in {"recv", "probe"} /\ call(t).path = "unexpected"
      /\ ~ queue_active /\ queue_active' = TRUE /\ Goto(t, "listen")
      /\ UNCHANGED <<pool, na, prob_active, up, short>>
  BY DEF Claim, WantsMessage, At, bounds
<1>2. PICK w : w = Went(t, "listen")
  OBVIOUS
<1>3. /\ Fitting(w) /\ w.call = call(t) /\ w.pc = "listen" /\ ult' = [ult EXCEPT ![t] = w]
      /\ RequestAt(w) <=> RequestAt(ult[t])
  BY <1>1, <1>2, FittingWent, GotoIs, CallOf DEF Inv, Points, Handing, Listening, RequestAt
<1>4. Reached(pool', t, {role \in LocalRoles : Has(w, role)}, {})
  <2>1. \A role \in LocalRoles : ~ Has(w, role)
    BY <1>3 DEF Has, LocalAt, LocalRoles, Handing, Blocked
  <2>2. Reached(pool, t, {}, {})
    BY <1>1, ReachedAt DEF Inv, LocalAt, Blocked, Handing
  <2> QED
    BY <1>1, <2>1, <2>2 DEF Reached
<1>5. PoolOK(pool)' /\ UltInv' /\ SlotInv'
  <2>1. Rest({})
    BY DEF Rest
  <2> QED
    BY <1>3, <1>4, <2>1, StepSlots DEF Inv
<1>6. ProbInv' /\ QueueInv'
  <2>1. SameBut(pool, pool', OwnSlots(t) \cup {Slot(t, "req")})
    BY <1>1 DEF SameBut
  <2> QED
    BY <1>1, <2>1, StepInstance DEF Inv
<1>7. ListenInv'
  <2>1. ult'[t] = w /\ \A u \in Threads \ {t} : ult'[u] = ult[u]
    BY <1>3 DEF Inv, PlaceInv, UltInv
  <2>2. up = "up"
    BY <1>1, SomebodyUp DEF Inv
  <2> QED
    BY <1>1, <1>3, <2>1, <2>2 DEF Inv, PlaceInv, ListenInv, Listening
<1>8. QED
  BY <1>1, <1>5, <1>6, <1>7 DEF Inv, PlaceInv, NaTyped

(***************************************************************************)
(* A listener posts the receive.                                           *)
(***************************************************************************)
LEMMA ProbTaken ==
  ASSUME PoolOK(pool), \A s \in Prob : s \notin DOMAIN pool.use,
         NEW p, p = GetReq(GetOpId(GetMsg(pool, ProbMsg, "unexpected"), ProbId), ProbReq)
  PROVE  /\ PoolOK(p) /\ SameBut(pool, p, Prob)
         /\ \A s \in Prob : s \in DOMAIN p.use /\ p.use[s] \in Kind(ProbKind(s))
<1>1. PICK q, r : q = Get(pool, ProbMsg, "unexpected") /\ r = Get(q, ProbId, "op")
  OBVIOUS
<1>2. /\ PoolOK(q) /\ SameBut(pool, q, {ProbMsg})
      /\ ProbMsg \in DOMAIN q.use /\ q.use[ProbMsg] \in Kind("unexpected")
  BY <1>1, GetOK, ProbKinds
<1>3. ProbId \notin DOMAIN q.use /\ ProbReq \notin DOMAIN q.use
  BY <1>2, ProbKinds DEF SameBut
<1>4. /\ PoolOK(r) /\ SameBut(q, r, {ProbId})
      /\ ProbId \in DOMAIN r.use /\ r.use[ProbId] \in Kind("op")
  BY <1>1, <1>2, <1>3, GetOK, ProbKinds
<1>5. p = GetReq(r, ProbReq) /\ ProbReq \notin DOMAIN r.use
  BY <1>1, <1>3, <1>4, ProbKinds DEF SameBut, GetMsg, GetOpId
<1>6. /\ PoolOK(p) /\ SameBut(r, p, {ProbReq})
      /\ ProbReq \in DOMAIN p.use /\ p.use[ProbReq] \in Kind("req")
  BY <1>4, <1>5, GetReqOK
<1>7. SameBut(pool, p, Prob)
  <2>1. ASSUME NEW s, s \notin Prob
        PROVE  /\ s \in DOMAIN p.use <=> s \in DOMAIN pool.use
               /\ s \in DOMAIN pool.use => p.use[s] = pool.use[s]
    <3>1. s # ProbMsg /\ s # ProbId /\ s # ProbReq
      BY <2>1, ProbKinds
    <3> QED
      BY <1>2, <1>4, <1>6, <3>1 DEF SameBut
  <2>2. pool.lost \subseteq p.lost
    BY <1>2, <1>4, <1>6 DEF SameBut
  <2> QED
    BY <2>1, <2>2 DEF SameBut
<1>8. /\ ProbMsg \in DOMAIN p.use /\ p.use[ProbMsg] \in Kind("unexpected")
      /\ ProbId \in DOMAIN p.use /\ p.use[ProbId] \in Kind("op")
  BY <1>2, <1>4, <1>6, ProbKinds DEF SameBut
<1>9. QED
  BY <1>6, <1>7, <1>8, ProbKinds

LEMMA ProbReturned ==
  ASSUME NEW p, PoolOK(p), \A s \in Prob : s \in DOMAIN p.use /\ p.use[s] \in Kind(ProbKind(s)),
         NEW q, q = ReturnOpId(ReturnMsg(ReturnReq(p, ProbReq), ProbMsg, "unexpected"), ProbId)
  PROVE  PoolOK(q) /\ SameBut(p, q, Prob) /\ \A s \in Prob : s \notin DOMAIN q.use
<1>1. PICK r, u : r = Return(p, ProbReq, "req") /\ u = Return(r, ProbMsg, "unexpected")
  OBVIOUS
<1>2. PoolOK(r) /\ SameBut(p, r, {ProbReq}) /\ ProbReq \notin DOMAIN r.use
  BY <1>1, ReturnOK, ProbKinds
<1>3. /\ ProbMsg \in DOMAIN r.use /\ r.use[ProbMsg] \in Kind("unexpected")
      /\ ProbId \in DOMAIN r.use /\ r.use[ProbId] \in Kind("op")
  BY <1>2, ProbKinds DEF SameBut
<1>4. PoolOK(u) /\ SameBut(r, u, {ProbMsg}) /\ ProbMsg \notin DOMAIN u.use
  BY <1>1, <1>2, <1>3, ReturnOK, ProbKinds
<1>5. ProbId \in DOMAIN u.use /\ u.use[ProbId] \in Kind("op") /\ q = Return(u, ProbId, "op")
  BY <1>1, <1>3, <1>4, ProbKinds DEF SameBut, ReturnOpId, ReturnMsg, ReturnReq
<1>6. PoolOK(q) /\ SameBut(u, q, {ProbId}) /\ ProbId \notin DOMAIN q.use
  BY <1>4, <1>5, ReturnOK, ProbKinds, SMTT(30)
<1>7. SameBut(p, q, Prob)
  <2>1. ASSUME NEW s, s \notin Prob
        PROVE  /\ s \in DOMAIN q.use <=> s \in DOMAIN p.use
               /\ s \in DOMAIN p.use => q.use[s] = p.use[s]
    <3>1. s # ProbMsg /\ s # ProbId /\ s # ProbReq
      BY <2>1, ProbKinds
    <3> QED
      BY <1>2, <1>4, <1>6, <3>1 DEF SameBut
  <2>2. p.lost \subseteq q.lost
    BY <1>2, <1>4, <1>6 DEF SameBut
  <2> QED
    BY <2>1, <2>2 DEF SameBut
<1>8. ProbMsg \notin DOMAIN q.use /\ ProbReq \notin DOMAIN q.use
  BY <1>2, <1>4, <1>6, ProbKinds DEF SameBut
<1>9. QED
  BY <1>6, <1>7, <1>8, ProbKinds

(***************************************************************************)
(* t keeps what it has while slots of others change.                       *)
(***************************************************************************)
LEMMA ReachedBeyond ==
  ASSUME NEW t \in Threads, NEW p, NEW R, NEW S, Reached(p, t, R, S),
         NEW q, NEW U, PoolOK(q), SameBut(p, q, U), U \cap OwnSlots(t) = {}
  PROVE  Reached(q, t, R, S \cup U)
<1>1. SameBut(pool, q, OwnSlots(t) \cup (S \cup U))
  BY DEF Reached, SameBut
<1>2. \A role \in LocalRoles : Slot(t, role) \notin U
  BY SlotsAgain
<1>3. QED
  BY <1>1, <1>2 DEF Reached, SameBut

(***************************************************************************)
(* A step by which t becomes or stays the listener.                        *)
(***************************************************************************)
LEMMA ListenerStep ==
  ASSUME Inv, NEW t \in Threads, ult[t].pc \in Listening, queue_active' = TRUE,
         NEW l \in Listening, Goto(t, l), NEW S, Rest(S), Reached(pool', t, {}, S),
         l = "listening" => prob_active',
         prob_active' \in BOOLEAN, UNCHANGED <<up, short>>
  PROVE  PoolOK(pool)' /\ UltInv' /\ SlotInv' /\ ListenInv'
<1>1. PICK w : w = Went(t, l)
  OBVIOUS
<1>2. call(t).op \in {"recv", "probe"} /\ call(t).path = "unexpected" /\ l \in Points
      /\ ult[t].pc \notin {"idle", "owner"} /\ l \notin {"idle", "owner"}
  BY CallOf DEF Inv, Fitting, Listening, Points
<1>3. /\ Fitting(w) /\ w.call = call(t) /\ w.pc = l /\ ult' = [ult EXCEPT ![t] = w]
      /\ RequestAt(w) <=> RequestAt(ult[t])
  <2>1. Fitting(w) /\ ult' = [ult EXCEPT ![t] = w]
    BY <1>1, <1>2, FittingWent, GotoIs DEF Inv, Points, Handing, Listening
  <2>2. w.call = call(t) /\ w.pc = l
    BY <1>1 DEF Went
  <2> QED
    BY <1>2, <2>1, <2>2 DEF RequestAt, call
<1>4. Reached(pool', t, {role \in LocalRoles : Has(w, role)}, S)
  <2>1. \A role \in LocalRoles : ~ Has(w, role)
    BY <1>3 DEF Has, LocalAt, LocalRoles, Handing, Blocked, Listening
  <2> QED
    BY <2>1 DEF Reached
<1>5. PoolOK(pool)' /\ UltInv' /\ SlotInv'
  BY <1>3, <1>4, StepSlots DEF Inv
<1>6. ListenInv'
  <2>1. ult'[t] = w /\ \A u \in Threads \ {t} : ult'[u] = ult[u]
    BY <1>3 DEF Inv, PlaceInv, UltInv
  <2>2. up = "up" /\ \A u \in Threads \ {t} : ult[u].pc \notin Listening
    BY <1>2, SomebodyUp DEF Inv, PlaceInv, ListenInv
  <2>3. \A u \in Threads : ult'[u].pc \in Listening => u = t
    BY <2>1, <2>2
  <2>4. \A u \in Threads : ult'[u].pc = "listening" => prob_active'
    BY <1>3, <2>1, <2>3 DEF Listening
  <2> QED
    BY <2>2, <2>3, <2>4 DEF Inv, PlaceInv, ListenInv
<1>7. QED
  BY <1>5, <1>6

(***************************************************************************)
(* Nothing but the slots of t changes when its call is over.               *)
(***************************************************************************)
LEMMA GiveBackRest ==
  ASSUME NEW t \in Threads, NEW p, NEW R, NEW S, Reached(p, t, R, S),
         call(t).path \in {"expected", "unexpected"} \/ R \cap {"msg", "mem"} = {},
         NEW role \in {"msg", "mem"}
  PROVE  SameBut(p, GiveBack(p, t, role), OwnSlots(t))
<1>1. role \in LocalRoles
  BY DEF LocalRoles
<1>2. CASE role \in R
  <2>1. call(t).path \in Kinds /\ KindAt(call(t), role) = call(t).path
    BY <1>2 DEF Kinds, KindAt
  <2>2. Slot(t, role) \in DOMAIN p.use /\ p.use[Slot(t, role)] \in Kind(call(t).path)
    BY <1>1, <1>2, <2>1 DEF Reached
  <2>3. SameBut(p, Return(p, Slot(t, role), call(t).path), {Slot(t, role)})
    BY <2>1, <2>2, ReturnOK DEF Reached
  <2>4. GiveBack(p, t, role) = Return(p, Slot(t, role), call(t).path)
    BY <2>2 DEF GiveBack, ReturnMsg
  <2> QED
    BY <1>1, <2>3, <2>4 DEF SameBut, OwnSlots
<1>3. CASE role \notin R
  <2>1. GiveBack(p, t, role) = p
    BY <1>1, <1>3 DEF GiveBack, Reached
  <2> QED
    BY <2>1 DEF SameBut
<1>4. QED
  BY <1>2, <1>3

LEMMA LeaveRest ==
  ASSUME NEW t \in Threads, NEW p, NEW R, NEW S, Reached(p, t, R, S),
         call(t).path \in {"expected", "unexpected"} \/ R \cap {"msg", "mem"} = {}
  PROVE  PoolOK(Leave(p, t)) /\ SameBut(p, Leave(p, t), OwnSlots(t))
<1>1. PICK q, r : q = GiveBack(p, t, "mem") /\ r = GiveBack(q, t, "msg")
  OBVIOUS
<1>2. Reached(q, t, R \ {"mem"}, S) /\ SameBut(p, q, OwnSlots(t))
  BY <1>1, ReachedGiveBack, GiveBackRest
<1>3. Reached(r, t, (R \ {"mem"}) \ {"msg"}, S) /\ SameBut(q, r, OwnSlots(t))
  <2>1. call(t).path \in {"expected", "unexpected"} \/ (R \ {"mem"}) \cap {"msg", "mem"} = {}
    OBVIOUS
  <2> QED
    BY <1>1, <1>2, <2>1, ReachedGiveBack, GiveBackRest
<1>4. Leave(p, t) = Forget(r, OwnSlots(t))
  <2>1. Locals(t) = OwnSlots(t)
    BY DEF Locals, OwnSlots, LocalRoles
  <2> QED
    BY <1>1, <2>1 DEF Leave
<1>5. PICK l : l = Forget(r, OwnSlots(t))
  OBVIOUS
<1>6. PoolOK(l) /\ SameBut(r, l, OwnSlots(t))
  BY <1>3, <1>5, ForgetOK DEF Reached
<1>7. QED
  BY <1>2, <1>3, <1>4, <1>5, <1>6 DEF SameBut

LEMMA FinishRest ==
  ASSUME PlaceInv, NEW t \in Threads, ult[t].pc \notin {"idle", "owner"},
         NEW p, NEW R, NEW S, Reached(p, t, R, S),
         call(t).path \in {"expected", "unexpected"} \/ R \cap {"msg", "mem"} = {},
         NEW status \in Values, Finish(t, p, status)
  PROVE  SameBut(p, pool', OwnSlots(t))
<1>1. PICK q : q = Leave(p, t)
  OBVIOUS
<1>2. PoolOK(q) /\ SameBut(p, q, OwnSlots(t))
  BY <1>1, LeaveRest
<1>3. CASE call(t).by = "caller"
  BY <1>1, <1>2, <1>3 DEF Finish
<1>4. CASE call(t).by # "caller"
  <2>1. PICK r : r = Object(t, "req")
    OBVIOUS
  <2>2. r \in Requests
    <3>1. r \in Kind("req")
      BY <1>4, <2>1 DEF PlaceInv, SlotInv, Has, RequestAt, Roles, KindAt, Object, call
    <3> QED
      BY <3>1 DEF Requests, Kind
  <2>3. pool' = q \/ pool' = SetEventual(q, r, status)
    BY <1>1, <1>4, <2>1 DEF Finish
  <2>4. /\ SetEventual(q, r, status).use = q.use
        /\ SameBut(q, SetEventual(q, r, status), {})
    BY <1>2, <2>2, SetEventualOK
  <2> QED
    BY <1>2, <2>3, <2>4 DEF SameBut
<1>5. QED
  BY <1>3, <1>4

LEMMA ProbBecomes ==
  ASSUME up' = "up",
         \A s \in Prob : s \in DOMAIN pool'.use <=> prob_active',
         \A s \in Prob : s \in DOMAIN pool'.use => pool'.use[s] \in Kind(ProbKind(s))
  PROVE  ProbInv'
BY DEF ProbInv, Prob, ProbKind, ProbMsg, ProbId, ProbReq

LEMMA QueueKept ==
  ASSUME PlaceInv, NEW U, SameBut(pool, pool', U), \A s \in U : s[1] # "pending"
  PROVE  QueueInv'
BY DEF PlaceInv, QueueInv, SameBut, Queued

(***************************************************************************)
(* The listener ends its call.                                             *)
(***************************************************************************)
LEMMA ListenerOver ==
  ASSUME Inv, NEW t \in Threads, ult[t].pc \in Listening,
         NEW p, NEW S, Rest(S), Reached(p, t, {}, S), NEW status \in Values,
         Finish(t, p, status), queue_active' \in BOOLEAN, prob_active' \in BOOLEAN,
         UNCHANGED <<up, short>>
  PROVE  /\ PoolOK(pool)' /\ UltInv' /\ SlotInv' /\ ListenInv'
         /\ SameBut(p, pool', OwnSlots(t))
<1>1. ult[t].pc \notin {"idle", "owner"}
  BY DEF Listening
<1>2. /\ PoolOK(pool)' /\ UltInv' /\ SlotInv'
      /\ ult' = [ult EXCEPT ![t] = Over(t)] /\ SameBut(p, pool', OwnSlots(t))
  <2>1. PICK R : R = {}
    OBVIOUS
  <2>2. Reached(p, t, R, S) /\ R \cap {"msg", "mem"} = {}
    BY <2>1
  <2>3. PoolOK(pool)' /\ UltInv' /\ SlotInv' /\ ult' = [ult EXCEPT ![t] = Over(t)]
    BY <1>1, <2>2, FinishSlots DEF Inv
  <2>4. SameBut(p, pool', OwnSlots(t))
    BY <1>1, <2>2, FinishRest DEF Inv
  <2> QED
    BY <2>3, <2>4
<1>3. ListenInv'
  <2>1. Over(t).pc \in {"idle", "owner"} /\ Over(t).pc \notin Listening
    BY <1>1, OverFitting DEF Inv, Listening
  <2>2. ult'[t] = Over(t) /\ \A u \in Threads \ {t} : ult'[u] = ult[u]
    BY <1>2 DEF Inv, PlaceInv, UltInv
  <2>3. up = "up" /\ \A u \in Threads \ {t} : ult[u].pc \notin Listening
    BY <1>1, SomebodyUp DEF Inv, PlaceInv, ListenInv
  <2>4. \A u \in Threads : ult'[u].pc \notin Listening
    BY <2>1, <2>2, <2>3
  <2>5. \A u \in Threads : ult'[u].pc # "listening"
    BY <2>4 DEF Listening
  <2> QED
    BY <2>3, <2>4, <2>5 DEF Inv, PlaceInv, ListenInv
<1>4. QED
  BY <1>2, <1>3

LEMMA ListenerReached ==
  ASSUME Inv, NEW t \in Threads, ult[t].pc \in Listening
  PROVE  /\ Reached(pool, t, {}, {}) /\ up = "up" /\ PoolOK(pool)
         /\ call(t).op \in {"recv", "probe"} /\ call(t).path = "unexpected"
         /\ prob_active \in BOOLEAN /\ queue_active \in BOOLEAN /\ queue_active
         /\ ult[t].pc = "listening" => prob_active
<1>1. Reached(pool, t, {}, {})
  BY ReachedAt DEF Inv, LocalAt, Blocked, Handing, Listening
<1>2. up = "up"
  BY SomebodyUp DEF Inv, Listening
<1>3. call(t).op \in {"recv", "probe"} /\ call(t).path = "unexpected"
  BY CallOf DEF Inv, Fitting, Listening
<1>4. QED
  BY <1>1, <1>2, <1>3 DEF Inv, PlaceInv, ListenInv

LEMMA ListenKeeps ==
  ASSUME Inv, NEW t \in Threads, Listen(t)
  PROVE  Inv'
<1>1. PICK p : p = GetReq(GetOpId(GetMsg(pool, ProbMsg, "unexpected"), ProbId), ProbReq)
  OBVIOUS
<1>2. /\ ult[t].pc = "listen" /\ ult[t].pc \in Listening
      /\ UNCHANGED <<queue_active, up, stale, short>>
      /\ \/ /\ prob_active
            /\ Goto(t, "listening")
            /\ UNCHANGED <<pool, na, prob_active>>
         \/ /\ ~ prob_active
            /\ pool' = SetEventual(p, p.use[ProbReq], "unset")
            /\ na' = na \cup {Operation(p.use[ProbId], p.use[ProbMsg], p.use[ProbReq])}
            /\ prob_active' = TRUE
            /\ Goto(t, "listening")
         \/ /\ ~ prob_active
            /\ Finish(t, ReturnOpId(ReturnMsg(ReturnReq(p, ProbReq),
                                              ProbMsg, "unexpected"), ProbId), "error")
            /\ UNCHANGED <<na, prob_active>>
  BY <1>1 DEF Listen, At, Listening
<1>3. /\ Reached(pool, t, {}, {}) /\ up = "up" /\ PoolOK(pool)
      /\ prob_active \in BOOLEAN /\ queue_active = TRUE
  BY <1>2, ListenerReached
<1>4. Rest(Prob) /\ Rest({}) /\ Prob \cap OwnSlots(t) = {} /\ \A s \in Prob : s[1] # "pending"
  BY PendingRests, SlotsAgain, ProbKinds
<1>5. "listening" \in Listening
  BY DEF Listening
<1>6. CASE prob_active /\ Goto(t, "listening") /\ UNCHANGED <<pool, na, prob_active>>
  <2>1. PoolOK(pool)' /\ UltInv' /\ SlotInv' /\ ListenInv'
    BY <1>2, <1>3, <1>4, <1>5, <1>6, ListenerStep
  <2>2. ProbInv' /\ QueueInv'
    <3>1. SameBut(pool, pool', OwnSlots(t) \cup {Slot(t, "req")})
      BY <1>6 DEF SameBut
    <3> QED
      BY <1>2, <1>6, <3>1, StepInstance DEF Inv
  <2> QED
    BY <1>6, <2>1, <2>2 DEF Inv, PlaceInv, NaTyped
<1>7. CASE ~ prob_active
  <2>1. \A s \in Prob : s \notin DOMAIN pool.use
    BY <1>3, <1>7 DEF Inv, PlaceInv, ProbInv
  <2>2. /\ PoolOK(p) /\ SameBut(pool, p, Prob)
        /\ \A s \in Prob : s \in DOMAIN p.use /\ p.use[s] \in Kind(ProbKind(s))
    BY <1>1, <1>3, <2>1, ProbTaken
  <2>3. CASE /\ pool' = SetEventual(p, p.use[ProbReq], "unset")
             /\ na' = na \cup {Operation(p.use[ProbId], p.use[ProbMsg], p.use[ProbReq])}
             /\ prob_active' = TRUE
             /\ Goto(t, "listening")
    <3>1. p.use[ProbReq] \in Requests /\ p.use[ProbReq] \in Kind("req") /\ "unset" \in Values
      BY <2>2, ProbKinds DEF Requests, Kind, Values
    <3>2. PoolOK(pool') /\ pool'.use = p.use /\ SameBut(pool, pool', Prob)
      BY <2>2, <2>3, <3>1, SetEventualOK DEF SameBut
    <3>3. Reached(pool', t, {}, {} \cup Prob)
      BY <1>3, <1>4, <3>2, ReachedBeyond
    <3>4. PoolOK(pool)' /\ UltInv' /\ SlotInv' /\ ListenInv'
      BY <1>2, <1>3, <1>4, <1>5, <2>3, <3>3, ListenerStep
    <3>5. ProbInv'
      BY <1>2, <1>3, <2>2, <2>3, <3>2, ProbBecomes
    <3>6. QueueInv'
      BY <1>4, <3>2, QueueKept DEF Inv
    <3>7. NaTyped'
      <4>1. /\ p.use[ProbMsg] \in Objects /\ p.use[ProbId] \in Kind("op")
        BY <2>2, ProbKinds, KindsOfObjects
      <4>2. Operation(p.use[ProbId], p.use[ProbMsg], p.use[ProbReq]) \in NaOperations
        BY <3>1, <4>1 DEF Operation, NaOperations
      <4> QED
        BY <2>3, <4>2 DEF Inv, NaTyped
    <3> QED
      BY <3>4, <3>5, <3>6, <3>7 DEF Inv, PlaceInv
  <2>4. CASE /\ Finish(t, ReturnOpId(ReturnMsg(ReturnReq(p, ProbReq),
                                               ProbMsg, "unexpected"), ProbId), "error")
             /\ UNCHANGED <<na, prob_active>>
    <3>1. PICK q : q = ReturnOpId(ReturnMsg(ReturnReq(p, ProbReq), ProbMsg, "unexpected"), ProbId)
      OBVIOUS
    <3>2. PoolOK(q) /\ SameBut(p, q, Prob) /\ \A s \in Prob : s \notin DOMAIN q.use
      BY <2>2, <3>1, ProbReturned
    <3>3. SameBut(pool, q, {})
      BY <2>1, <2>2, <3>2 DEF SameBut
    <3>4. PICK R : R = {}
      OBVIOUS
    <3>5. Reached(q, t, R, {}) /\ R \cap {"msg", "mem"} = {}
      <4>1. Reached(q, t, {}, {} \cup {})
        BY <1>3, <3>2, <3>3, ReachedBeyond
      <4> QED
        BY <3>4, <4>1
    <3>6. UNCHANGED <<inst, short>> /\ NaTyped' /\ Finish(t, q, "error") /\ "error" \in Values
      BY <1>2, <2>4, <3>1 DEF inst, Inv, NaTyped, Values
    <3> QED
      BY <1>2, <3>5, <3>6, OverStep
  <2> QED
    BY <1>2, <1>7, <2>3, <2>4
<1>8. QED
  BY <1>2, <1>6, <1>7

LEMMA StopListeningKeeps ==
  ASSUME Inv, NEW t \in Threads, StopListening(t)
  PROVE  Inv'
<1>1. /\ ult[t].pc \in Listening /\ queue_active' \in BOOLEAN /\ Finish(t, pool, "ok")
      /\ UNCHANGED <<na, prob_active, up, short>>
  BY DEF StopListening, At, Listening, bounds
<1>2. /\ Reached(pool, t, {}, {}) /\ prob_active' \in BOOLEAN /\ Rest({}) /\ "ok" \in Values
  BY <1>1, ListenerReached DEF Rest, Values
<1>3. /\ PoolOK(pool)' /\ UltInv' /\ SlotInv' /\ ListenInv'
      /\ SameBut(pool, pool', OwnSlots(t))
  BY <1>1, <1>2, ListenerOver
<1>4. ProbInv' /\ QueueInv'
  <2>1. SameBut(pool, pool', OwnSlots(t) \cup {Slot(t, "req")})
    BY <1>3 DEF SameBut
  <2> QED
    BY <1>1, <2>1, StepInstance DEF Inv
<1>5. QED
  BY <1>1, <1>3, <1>4 DEF Inv, PlaceInv, NaTyped

(***************************************************************************)
(* The receive is over: its operation id is back, its request freed or not.*)
(***************************************************************************)
LEMMA ProbReaped ==
  ASSUME PoolOK(pool), \A s \in Prob : s \in DOMAIN pool.use /\ pool.use[s] \in Kind(ProbKind(s)),
         NEW p, p = ReturnOpId(Wait(pool, ProbReq), ProbId)
  PROVE  /\ PoolOK(p) /\ SameBut(pool, p, {ProbId, ProbReq})
         /\ ProbId \notin DOMAIN p.use
         /\ ProbReq \in DOMAIN p.use <=> pool.ev[pool.use[ProbReq]] # "ok"
         /\ ProbReq \in DOMAIN p.use => p.use[ProbReq] \in Kind("req")
         /\ ProbMsg \in DOMAIN p.use /\ p.use[ProbMsg] \in Kind("unexpected")
         /\ p.use[ProbMsg] = pool.use[ProbMsg]
<1>1. PICK q : q = Wait(pool, ProbReq)
  OBVIOUS
<1>2. /\ PoolOK(q) /\ SameBut(pool, q, {ProbReq})
      /\ ProbReq \in DOMAIN q.use => q.use[ProbReq] = pool.use[ProbReq]
      /\ ProbReq \in DOMAIN q.use <=> pool.ev[pool.use[ProbReq]] # "ok"
  BY <1>1, WaitOK, ProbKinds
<1>3. ProbId \in DOMAIN q.use /\ q.use[ProbId] \in Kind("op") /\ p = Return(q, ProbId, "op")
  BY <1>1, <1>2, ProbKinds DEF SameBut, ReturnOpId
<1>4. PoolOK(p) /\ SameBut(q, p, {ProbId}) /\ ProbId \notin DOMAIN p.use
  BY <1>2, <1>3, ReturnOK, ProbKinds
<1>5. SameBut(pool, p, {ProbId, ProbReq})
  BY <1>2, <1>4 DEF SameBut
<1>6. /\ ProbReq \in DOMAIN p.use <=> ProbReq \in DOMAIN q.use
      /\ ProbReq \in DOMAIN q.use => p.use[ProbReq] = q.use[ProbReq]
  BY <1>4, ProbKinds DEF SameBut
<1>7. /\ ProbMsg \in DOMAIN p.use /\ p.use[ProbMsg] = pool.use[ProbMsg]
  BY <1>5, ProbKinds DEF SameBut
<1>8. pool.use[ProbMsg] \in Kind("unexpected") /\ pool.use[ProbReq] \in Kind("req")
  BY ProbKinds
<1>9. QED
  BY <1>2, <1>4, <1>5, <1>6, <1>7, <1>8

LEMMA ProbForgotten ==
  ASSUME NEW p, PoolOK(p), ProbId \notin DOMAIN p.use,
         ProbMsg \in DOMAIN p.use, p.use[ProbMsg] \in Kind("unexpected"),
         NEW q, q = Forget(ReturnMsg(p, ProbMsg, "unexpected"), {ProbReq})
  PROVE  PoolOK(q) /\ SameBut(p, q, Prob) /\ \A s \in Prob : s \notin DOMAIN q.use
<1>1. PICK r : r = Return(p, ProbMsg, "unexpected")
  OBVIOUS
<1>2. PoolOK(r) /\ SameBut(p, r, {ProbMsg}) /\ ProbMsg \notin DOMAIN r.use
  BY <1>1, ReturnOK, ProbKinds
<1>3. PoolOK(q) /\ SameBut(r, q, {ProbReq}) /\ ProbReq \notin DOMAIN q.use
  <2>1. q = Forget(r, {ProbReq})
    BY <1>1 DEF ReturnMsg
  <2> QED
    BY <1>2, <2>1, ForgetOK
<1>4. SameBut(p, q, Prob)
  <2>1. ASSUME NEW s, s \notin Prob
        PROVE  /\ s \in DOMAIN q.use <=> s \in DOMAIN p.use
               /\ s \in DOMAIN p.use => q.use[s] = p.use[s]
    <3>1. s # ProbMsg /\ s # ProbReq
      BY <2>1, ProbKinds
    <3> QED
      BY <1>2, <1>3, <3>1 DEF SameBut
  <2>2. p.lost \subseteq q.lost
    BY <1>2, <1>3 DEF SameBut
  <2> QED
    BY <2>1, <2>2 DEF SameBut
<1>5. ProbMsg \notin DOMAIN q.use /\ ProbId \notin DOMAIN q.use
  BY <1>2, <1>3, ProbKinds DEF SameBut
<1>6. QED
  BY <1>3, <1>4, <1>5, ProbKinds

(***************************************************************************)
(* The message of the receive goes to the queue: the entry for it is new,  *)
(* since an object is in one slot only.                                    *)
(***************************************************************************)
Entry(o) == <<"pending", o>>

LEMMA ProbQueued ==
  ASSUME PlaceInv, \A s \in Prob : s \in DOMAIN pool.use,
         NEW p, PoolOK(p), SameBut(pool, p, {ProbId, ProbReq}),
         ProbId \notin DOMAIN p.use, ProbReq \notin DOMAIN p.use,
         p.use[ProbMsg] \in Kind("unexpected"),
         NEW q, q = Move(p, ProbMsg, Entry(p.use[ProbMsg]))
  PROVE  /\ PoolOK(q) /\ SameBut(pool, q, Prob \cup {Entry(p.use[ProbMsg])})
         /\ \A s \in Prob : s \notin DOMAIN q.use
         /\ Entry(p.use[ProbMsg]) \in DOMAIN q.use
         /\ q.use[Entry(p.use[ProbMsg])] = p.use[ProbMsg]
<1>0. PICK entry : entry = Entry(p.use[ProbMsg])
  OBVIOUS
<1>1. ProbMsg \in DOMAIN p.use /\ p.use[ProbMsg] = pool.use[ProbMsg] /\ ProbMsg \in DOMAIN pool.use
  BY ProbKinds DEF SameBut
<1>2. entry[1] = "pending" /\ entry \notin Prob
  BY <1>0, ProbKinds DEF Entry
<1>3. entry \notin DOMAIN pool.use
  <2>1. ASSUME entry \in DOMAIN pool.use PROVE FALSE
    <3>1. entry = <<"pending", pool.use[entry]>>
      BY <1>2, <2>1 DEF PlaceInv, QueueInv, Queued
    <3>2. pool.use[entry] = p.use[ProbMsg]
      BY <1>0, <3>1 DEF Entry
    <3>3. entry = ProbMsg
      BY <1>1, <2>1, <3>2 DEF PlaceInv, PoolOK, OnePlace
    <3> QED
      BY <1>2, <3>3, ProbKinds
  <2> QED
    BY <2>1
<1>4. entry \notin DOMAIN p.use
  BY <1>2, <1>3, ProbKinds DEF SameBut
<1>5. /\ PoolOK(q) /\ SameBut(p, q, {ProbMsg, entry})
      /\ ProbMsg \notin DOMAIN q.use /\ entry \in DOMAIN q.use
      /\ q.use[entry] = p.use[ProbMsg]
  <2>1. /\ PoolOK(Move(p, ProbMsg, entry))
        /\ SameBut(p, Move(p, ProbMsg, entry), {ProbMsg, entry})
        /\ ProbMsg \notin DOMAIN Move(p, ProbMsg, entry).use
        /\ entry \in DOMAIN Move(p, ProbMsg, entry).use
        /\ Move(p, ProbMsg, entry).use[entry] = p.use[ProbMsg]
    BY ONLY <1>1, <1>4, PoolOK(p), MoveOK
  <2> QED
    BY <1>0, <2>1
<1>6. SameBut(pool, q, Prob \cup {entry})
  <2>1. ASSUME NEW s, s \notin Prob \cup {entry}
        PROVE  /\ s \in DOMAIN q.use <=> s \in DOMAIN pool.use
               /\ s \in DOMAIN pool.use => q.use[s] = pool.use[s]
    <3>1. s # ProbMsg /\ s # ProbId /\ s # ProbReq /\ s # entry
      BY <2>1, ProbKinds
    <3> QED
      BY <1>5, <3>1 DEF SameBut
  <2>2. pool.lost \subseteq q.lost
    BY <1>5 DEF SameBut
  <2> QED
    BY <2>1, <2>2 DEF SameBut
<1>7. ProbId \notin DOMAIN q.use /\ ProbReq \notin DOMAIN q.use
  BY <1>2, <1>5, ProbKinds DEF SameBut
<1>8. QED
  BY <1>0, <1>5, <1>6, <1>7, ProbKinds

LEMMA QueueGrows ==
  ASSUME PlaceInv, NEW U, NEW o \in Kind("unexpected"),
         SameBut(pool, pool', U \cup {<<"pending", o>>}), \A s \in U : s[1] # "pending",
         pool'.use[<<"pending", o>>] = o
  PROVE  QueueInv'
<1>1. ASSUME NEW s \in DOMAIN pool'.use, s[1] = "pending"
      PROVE  s = <<"pending", pool'.use[s]>> /\ pool'.use[s] \in Kind("unexpected")
  <2>1. CASE s = <<"pending", o>>
    BY <2>1
  <2>2. CASE s # <<"pending", o>>
    <3>1. s \notin U \cup {<<"pending", o>>}
      BY <1>1, <2>2
    <3>2. s \in DOMAIN pool.use /\ pool'.use[s] = pool.use[s]
      BY <3>1 DEF SameBut
    <3> QED
      BY <1>1, <3>2 DEF PlaceInv, QueueInv, Queued
  <2> QED
    BY <2>1, <2>2
<1>2. QED
  BY <1>1 DEF QueueInv, Queued

LEMMA ReapKeeps ==
  ASSUME Inv, NEW t \in Threads, Reap(t)
  PROVE  Inv'
<1>1. PICK p : p = ReturnOpId(Wait(pool, ProbReq), ProbId)
  OBVIOUS
<1>2. PICK entry : entry = Entry(p.use[ProbMsg])
  OBVIOUS
<1>3. /\ ult[t].pc = "listening" /\ ult[t].pc \in Listening /\ prob_active' = FALSE
      /\ IsSet(pool.use[ProbReq]) /\ UNCHANGED <<up, short, na>>
      /\ \/ /\ Finish(t, Forget(ReturnMsg(p, ProbMsg, "unexpected"), {ProbReq}), "error")
            /\ UNCHANGED queue_active
         \/ /\ Value(pool.use[ProbReq]) = "ok"
            /\ call(t).op = "recv"
            /\ pool' = Move(p, ProbMsg, Slot(t, "msg"))
            /\ queue_active' = FALSE
            /\ Goto(t, "got")
         \/ /\ Value(pool.use[ProbReq]) = "ok"
            /\ \/ queue_active' = FALSE /\ Finish(t, Move(p, ProbMsg, entry), "ok")
               \/ /\ pool' = Move(p, ProbMsg, entry)
                  /\ Goto(t, "listen")
                  /\ UNCHANGED queue_active
  BY <1>1, <1>2 DEF Reap, At, Listening, bounds, Entry
<1>4. /\ Reached(pool, t, {}, {}) /\ up = "up" /\ PoolOK(pool) /\ prob_active
      /\ call(t).path = "unexpected" /\ queue_active \in BOOLEAN /\ queue_active
      /\ prob_active' \in BOOLEAN /\ up' = "up"
  BY <1>3, ListenerReached
<1>5. \A s \in Prob : s \in DOMAIN pool.use /\ pool.use[s] \in Kind(ProbKind(s))
  BY <1>4 DEF Inv, PlaceInv, ProbInv
<1>6. /\ PoolOK(p) /\ SameBut(pool, p, {ProbId, ProbReq})
      /\ ProbId \notin DOMAIN p.use
      /\ ProbReq \in DOMAIN p.use <=> pool.ev[pool.use[ProbReq]] # "ok"
      /\ ProbMsg \in DOMAIN p.use /\ p.use[ProbMsg] \in Kind("unexpected")
  BY <1>1, <1>4, <1>5, ProbReaped
<1>7. SameBut(pool, p, Prob)
  BY <1>6, ProbKinds DEF SameBut
<1>8. /\ Rest(Prob) /\ Prob \cap OwnSlots(t) = {} /\ \A s \in Prob : s[1] # "pending"
      /\ \A s \in Prob : s \notin OwnSlots(t) /\ s # Slot(t, "msg")
      /\ \A s \in OwnSlots(t) : s[1] # "pending"
  BY PendingRests, SlotsAgain, ProbKinds, Slots DEF Roles, LocalRoles
<1>9. CASE /\ Finish(t, Forget(ReturnMsg(p, ProbMsg, "unexpected"), {ProbReq}), "error")
           /\ UNCHANGED queue_active
  <2>1. PICK q : q = Forget(ReturnMsg(p, ProbMsg, "unexpected"), {ProbReq})
    OBVIOUS
  <2>2. PoolOK(q) /\ SameBut(pool, q, Prob) /\ \A s \in Prob : s \notin DOMAIN q.use
    <3>1. PoolOK(q) /\ SameBut(p, q, Prob) /\ \A s \in Prob : s \notin DOMAIN q.use
      BY <1>6, <2>1, ProbForgotten
    <3> QED
      BY <1>7, <3>1 DEF SameBut
  <2>3. Reached(q, t, {}, {} \cup Prob)
    BY <1>4, <1>8, <2>2, ReachedBeyond
  <2>4. /\ PoolOK(pool)' /\ UltInv' /\ SlotInv' /\ ListenInv'
        /\ SameBut(q, pool', OwnSlots(t))
    BY <1>3, <1>4, <1>8, <1>9, <2>1, <2>3, ListenerOver, NoBufferIsOne
  <2>5. \A s \in Prob : s \notin DOMAIN pool'.use
    BY <1>8, <2>2, <2>4 DEF SameBut
  <2>6. ProbInv'
    BY <1>3, <1>4, <2>5, ProbBecomes
  <2>7. QueueInv'
    <3>1. SameBut(pool, pool', Prob \cup OwnSlots(t))
      BY <2>2, <2>4 DEF SameBut
    <3> QED
      BY <1>8, <3>1, QueueKept DEF Inv
  <2> QED
    BY <1>3, <2>4, <2>6, <2>7 DEF Inv, PlaceInv, NaTyped
<1>10. CASE Value(pool.use[ProbReq]) = "ok"
  <2>1. ProbReq \notin DOMAIN p.use
    BY <1>6, <1>10 DEF Value
  <2>2. CASE /\ call(t).op = "recv"
             /\ pool' = Move(p, ProbMsg, Slot(t, "msg"))
             /\ queue_active' = FALSE
             /\ Goto(t, "got")
    <3>1. PICK S : S = Prob
      OBVIOUS
    <3>2. Reached(p, t, {}, S) /\ Rest(S \cup {ProbMsg}) /\ ProbMsg \notin OwnSlots(t)
      <4>1. Reached(p, t, {}, {} \cup Prob)
        BY <1>4, <1>6, <1>7, <1>8, ReachedBeyond
      <4>2. {} \cup Prob = S /\ S \cup {ProbMsg} = Prob
        BY <3>1, ProbKinds
      <4> QED
        BY <1>8, <4>1, <4>2, ProbKinds
    <3>3. /\ PoolOK(pool)' /\ UltInv' /\ SlotInv'
          /\ ult' = [ult EXCEPT ![t] = Went(t, "got")]
          /\ SameBut(p, pool', {ProbMsg, Slot(t, "msg")}) /\ ProbMsg \notin DOMAIN pool'.use
      <4>1. ult[t].pc \notin {"idle", "owner"} /\ PlaceInv
        BY <1>3 DEF Inv, Listening
      <4> QED
        BY <1>4, <1>6, <2>2, <3>2, <4>1, TookMessage
    <3>4. ListenInv'
      <4>1. Went(t, "got").pc = "got" /\ "got" \notin Listening
        BY DEF Went, Listening
      <4>2. /\ ult'[t] = Went(t, "got") /\ \A u \in Threads \ {t} : ult'[u] = ult[u]
        BY <3>3 DEF Inv, PlaceInv, UltInv
      <4>3. \A u \in Threads \ {t} : ult[u].pc \notin Listening
        BY <1>3 DEF Inv, PlaceInv, ListenInv
      <4>4. \A u \in Threads : ult'[u].pc \notin Listening
        BY <4>1, <4>2, <4>3
      <4>5. \A u \in Threads : ult'[u].pc # "listening"
        BY <4>4 DEF Listening
      <4> QED
        BY <1>3, <1>4, <2>2, <4>4, <4>5 DEF Inv, PlaceInv, ListenInv
    <3>5. \A s \in Prob : s \notin DOMAIN pool'.use
      <4>1. ProbId \notin DOMAIN pool'.use /\ ProbReq \notin DOMAIN pool'.use
        BY <1>6, <1>8, <2>1, <3>3, ProbKinds DEF SameBut
      <4> QED
        BY <3>3, <4>1, ProbKinds
    <3>6. ProbInv'
      BY <1>3, <1>4, <3>5, ProbBecomes
    <3>7. QueueInv'
      <4>1. SameBut(pool, pool', Prob \cup {Slot(t, "msg")})
        BY <1>7, <3>3, ProbKinds DEF SameBut
      <4>2. \A s \in Prob \cup {Slot(t, "msg")} : s[1] # "pending"
        BY <1>8, Slots
      <4> QED
        BY <4>1, <4>2, QueueKept DEF Inv
    <3> QED
      BY <1>3, <3>3, <3>4, <3>6, <3>7 DEF Inv, PlaceInv, NaTyped
  <2>3. CASE \/ queue_active' = FALSE /\ Finish(t, Move(p, ProbMsg, entry), "ok")
             \/ /\ pool' = Move(p, ProbMsg, entry)
                /\ Goto(t, "listen")
                /\ UNCHANGED queue_active
    <3>1. PICK q : q = Move(p, ProbMsg, entry)
      OBVIOUS
    <3>2. /\ PoolOK(q) /\ SameBut(pool, q, Prob \cup {entry})
          /\ \A s \in Prob : s \notin DOMAIN q.use
          /\ entry \in DOMAIN q.use /\ q.use[entry] = p.use[ProbMsg]
      <4>1. /\ PlaceInv /\ \A s \in Prob : s \in DOMAIN pool.use
            /\ PoolOK(p) /\ SameBut(pool, p, {ProbId, ProbReq})
            /\ ProbId \notin DOMAIN p.use /\ ProbReq \notin DOMAIN p.use
            /\ p.use[ProbMsg] \in Kind("unexpected")
        BY <1>5, <1>6, <2>1 DEF Inv
      <4> QED
        BY ONLY <1>2, <3>1, <4>1, ProbQueued
    <3>3. /\ Rest(Prob \cup {entry}) /\ (Prob \cup {entry}) \cap OwnSlots(t) = {}
          /\ entry \notin OwnSlots(t)
      <4>1. entry[1] = "pending"
        BY <1>2 DEF Entry
      <4> QED
        BY <1>8, <4>1, PendingRests
    <3>4. Reached(q, t, {}, Prob \cup {entry})
      <4>1. Reached(q, t, {}, {} \cup (Prob \cup {entry}))
        BY <1>4, <3>2, <3>3, ReachedBeyond
      <4>2. {} \cup (Prob \cup {entry}) = Prob \cup {entry}
        OBVIOUS
      <4> QED
        BY <4>1, <4>2
    <3>5. /\ PoolOK(pool)' /\ UltInv' /\ SlotInv' /\ ListenInv'
          /\ SameBut(q, pool', OwnSlots(t))
      <4>1. CASE queue_active' = FALSE /\ Finish(t, q, "ok")
        BY <1>3, <1>4, <3>3, <3>4, <4>1, ListenerOver, NoBufferIsOne
      <4>2. CASE pool' = q /\ Goto(t, "listen") /\ UNCHANGED queue_active
        <5>1. SameBut(q, pool', OwnSlots(t))
          BY <4>2 DEF SameBut
        <5>2. "listen" \in Listening /\ queue_active' = TRUE
          BY <1>4, <4>2 DEF Listening
        <5>3. PoolOK(pool)' /\ UltInv' /\ SlotInv' /\ ListenInv'
          BY <1>3, <1>4, <3>3, <3>4, <4>2, <5>2, ListenerStep
        <5> QED
          BY <5>1, <5>3
      <4> QED
        BY <2>3, <3>1, <4>1, <4>2
    <3>6. ProbInv'
      <4>1. \A s \in Prob : s \notin DOMAIN pool'.use
        BY <1>8, <3>2, <3>5 DEF SameBut
      <4> QED
        BY <1>3, <1>4, <4>1, ProbBecomes
    <3>7. QueueInv'
      <4>1. SameBut(pool, pool', (Prob \cup OwnSlots(t)) \cup {entry})
        BY <3>2, <3>5 DEF SameBut
      <4>2. pool'.use[entry] = p.use[ProbMsg] /\ \A s \in Prob \cup OwnSlots(t) : s[1] # "pending"
        BY <1>8, <3>2, <3>3, <3>5 DEF SameBut
      <4> QED
        BY <1>2, <1>6, <4>1, <4>2, QueueGrows DEF Inv, Entry
    <3> QED
      BY <1>3, <3>5, <3>6, <3>7 DEF Inv, PlaceInv, NaTyped
  <2> QED
    BY <1>3, <1>9, <1>10, <2>2, <2>3
<1>11. QED
  BY <1>3, <1>9, <1>10

-----------------------------------------------------------------------------
(***************************************************************************)
(* Steps at which a ULT gets or gives up its request, and nothing else.    *)
(***************************************************************************)
LEMMA RequestStep ==
  ASSUME PlaceInv, up = "up", NEW t \in Threads, NEW w, Fitting(w),
         ult' = [ult EXCEPT ![t] = w], PoolOK(pool'),
         SameBut(pool, pool', {Slot(t, "req")}),
         \A role \in LocalRoles : ~ LocalAt(ult[t], role) /\ ~ LocalAt(w, role),
         Slot(t, "req") \in DOMAIN pool'.use <=> RequestAt(w),
         Slot(t, "req") \in DOMAIN pool'.use => pool'.use[Slot(t, "req")] \in Kind("req"),
         w.pc \notin Listening, UNCHANGED inst, short' \in BOOLEAN
  PROVE  PlaceInv'
<1>1. /\ ult' = [u \in Threads |-> ult'[u]] /\ ult'[t] = w
      /\ \A u \in Threads \ {t} : ult'[u] = ult[u]
  BY DEF PlaceInv, UltInv
<1>2. UltInv'
  BY <1>1 DEF PlaceInv, UltInv
<1>3. ASSUME NEW u \in Threads, NEW role \in Roles
      PROVE  /\ Slot(u, role) \in DOMAIN pool'.use <=> Has(ult'[u], role)
             /\ Slot(u, role) \in DOMAIN pool'.use =>
                  pool'.use[Slot(u, role)] \in Kind(KindAt(ult'[u].call, role))
  <2>1. CASE u # t
    <3>1. Slot(u, role) # Slot(t, "req")
      BY <2>1, Slots
    <3> QED
      BY <1>1, <2>1, <3>1 DEF PlaceInv, SlotInv, SameBut, call
  <2>2. CASE u = t /\ role = "req"
    <3>1. Has(w, "req") <=> RequestAt(w)
      BY DEF Has, LocalAt
    <3>2. \A c : KindAt(c, "req") = "req"
      BY DEF KindAt
    <3> QED
      BY <1>1, <2>2, <3>1, <3>2
  <2>3. CASE u = t /\ role # "req"
    <3>1. role \in LocalRoles /\ Slot(t, role) # Slot(t, "req")
      BY <2>3, Slots DEF Roles
    <3>2. ~ Has(w, role) /\ ~ Has(ult[t], role)
      BY <2>3, <3>1 DEF Has
    <3> QED
      BY <1>1, <2>3, <3>1, <3>2 DEF PlaceInv, SlotInv, SameBut
  <2> QED
    BY <2>1, <2>2, <2>3
<1>4. SlotInv'
  BY <1>3 DEF SlotInv, call, Slot
<1>5. ProbInv' /\ QueueInv'
  <2>1. SameBut(pool, pool', OwnSlots(t) \cup {Slot(t, "req")})
    BY DEF SameBut
  <2> QED
    BY <2>1, StepInstance DEF inst
<1>6. ListenInv'
  BY StepListen
<1>7. QED
  BY <1>2, <1>4, <1>5, <1>6 DEF PlaceInv

(***************************************************************************)
(* A request for the caller, and the same request back.                    *)
(***************************************************************************)
LEMMA RequestOK ==
  ASSUME PoolOK(pool), NEW t \in Threads, Slot(t, "req") \notin DOMAIN pool.use, NEW c,
         NEW p, p = Request(pool, t, c)
  PROVE  /\ PoolOK(p) /\ SameBut(pool, p, {Slot(t, "req")})
         /\ Slot(t, "req") \in DOMAIN p.use /\ p.use[Slot(t, "req")] \in Kind("req")
<1>1. PICK q : q = GetReq(pool, Slot(t, "req"))
  OBVIOUS
<1>2. /\ PoolOK(q) /\ SameBut(pool, q, {Slot(t, "req")})
      /\ Slot(t, "req") \in DOMAIN q.use /\ q.use[Slot(t, "req")] \in Kind("req")
  BY <1>1, GetReqOK
<1>3. PICK r : r = q.use[Slot(t, "req")]
  OBVIOUS
<1>4. r \in Requests /\ "unset" \in Values
  BY <1>2, <1>3 DEF Requests, Kind, Values
<1>5. /\ PoolOK(SetEventual(q, r, "unset"))
      /\ SetEventual(q, r, "unset").use = q.use
      /\ SameBut(q, SetEventual(q, r, "unset"), {})
  BY <1>2, <1>4, SetEventualOK
<1>6. p = q \/ p = SetEventual(q, r, "unset")
  BY <1>1, <1>3 DEF Request
<1>7. QED
  BY <1>2, <1>5, <1>6 DEF SameBut

LEMMA RequestBack ==
  ASSUME NEW t \in Threads, NEW p, PoolOK(p), SameBut(pool, p, {Slot(t, "req")}),
         Slot(t, "req") \in DOMAIN p.use, p.use[Slot(t, "req")] \in Kind("req"),
         NEW q, q = ReturnReq(p, Slot(t, "req"))
  PROVE  /\ PoolOK(q) /\ SameBut(pool, q, {Slot(t, "req")})
         /\ Slot(t, "req") \notin DOMAIN q.use
<1>1. q = Return(p, Slot(t, "req"), "req") /\ "req" \in Kinds
  BY DEF ReturnReq, Kinds
<1>2. PoolOK(q) /\ SameBut(p, q, {Slot(t, "req")}) /\ Slot(t, "req") \notin DOMAIN q.use
  BY <1>1, ReturnOK
<1>3. QED
  BY <1>2 DEF SameBut

LEMMA IdleFits ==
  /\ Fitting(Idle) /\ Idle.pc = "idle" /\ ~ RequestAt(Idle) /\ Idle.pc \notin Listening
  /\ \A role : ~ LocalAt(Idle, role) /\ ~ Has(Idle, role)
<1>1. Idle = [pc |-> Idle.pc, call |-> Idle.call] /\ Idle.pc = "idle"
  BY DEF Idle
<1>2. QED
  BY <1>1 DEF Fitting, Points, Handing, Listening, RequestAt, LocalAt, Has, Blocked

LEMMA EnterKeeps ==
  ASSUME Inv, NEW t \in Threads, Enter(t)
  PROVE  Inv'
<1>1. PICK c \in MayCall :
        \/ /\ pool' = IF c.by = "caller" THEN pool ELSE Request(pool, t, c)
           /\ Begin(t, c)
        \/ /\ c.by # "caller"
           /\ pool' = ReturnReq(Request(pool, t, c), Slot(t, "req"))
           /\ UNCHANGED ult
        \/ UNCHANGED <<pool, ult>>
  BY DEF Enter
<1>2. up = "up" /\ ult[t].pc = "idle" /\ UNCHANGED <<na, inst, short>> /\ short' \in BOOLEAN
  BY DEF Enter, At, Inv, PlaceInv, ListenInv
<1>3. /\ ult[t] = Idle /\ PoolOK(pool) /\ Slot(t, "req") \notin DOMAIN pool.use
  <2>1. ult[t] = Idle
    BY <1>2 DEF Inv, PlaceInv, UltInv, Fitting
  <2>2. ~ Has(ult[t], "req")
    BY <2>1, IdleFits DEF Has, LocalAt
  <2> QED
    BY <2>1, <2>2 DEF Inv, PlaceInv, SlotInv, Roles
<1>4. PICK p : p = Request(pool, t, c)
  OBVIOUS
<1>5. /\ PoolOK(p) /\ SameBut(pool, p, {Slot(t, "req")})
      /\ Slot(t, "req") \in DOMAIN p.use /\ p.use[Slot(t, "req")] \in Kind("req")
  BY <1>3, <1>4, RequestOK
<1>6. \A role \in LocalRoles : ~ LocalAt(ult[t], role)
  BY <1>3, IdleFits
<1>7. CASE /\ pool' = IF c.by = "caller" THEN pool ELSE p
           /\ Begin(t, c)
  <2>1. PICK w : w = [pc |-> "begin", call |-> c]
    OBVIOUS
  <2>2. w.pc = "begin" /\ w.call = c /\ w = [pc |-> w.pc, call |-> w.call]
    BY <2>1
  <2>3. Fitting(w)
    BY <2>2, OperationsAssumption DEF Fitting, Points, Handing, Listening
  <2>4. /\ \A role \in LocalRoles : ~ LocalAt(w, role)
        /\ w.pc \notin Listening /\ (RequestAt(w) <=> c.by # "caller")
    BY <2>2 DEF LocalAt, LocalRoles, Blocked, Handing, Listening, RequestAt
  <2>5. ult' = [ult EXCEPT ![t] = w]
    BY <1>7, <2>1 DEF Begin
  <2>6. /\ PoolOK(pool') /\ SameBut(pool, pool', {Slot(t, "req")})
        /\ Slot(t, "req") \in DOMAIN pool'.use <=> RequestAt(w)
        /\ Slot(t, "req") \in DOMAIN pool'.use => pool'.use[Slot(t, "req")] \in Kind("req")
    <3>1. CASE c.by = "caller"
      BY <1>3, <1>7, <2>4, <3>1 DEF SameBut
    <3>2. CASE c.by # "caller"
      BY <1>5, <1>7, <2>4, <3>2
    <3> QED
      BY <3>1, <3>2
  <2> QED
    BY <1>2, <1>6, <2>3, <2>4, <2>5, <2>6, RequestStep DEF Inv, NaTyped
<1>8. CASE UNCHANGED ult /\ (pool' = ReturnReq(p, Slot(t, "req")) \/ UNCHANGED pool)
  <2>1. /\ PoolOK(pool') /\ SameBut(pool, pool', {Slot(t, "req")})
        /\ Slot(t, "req") \notin DOMAIN pool'.use
    <3>1. CASE pool' = ReturnReq(p, Slot(t, "req"))
      BY <1>5, <3>1, RequestBack
    <3>2. CASE UNCHANGED pool
      BY <1>3, <3>2 DEF SameBut
    <3> QED
      BY <1>8, <3>1, <3>2
  <2>2. ult' = [ult EXCEPT ![t] = Idle]
    BY <1>3, <1>8 DEF Inv, PlaceInv, UltInv
  <2> QED
    BY <1>2, <1>6, <2>1, <2>2, IdleFits, RequestStep DEF Inv, NaTyped
<1>9. QED
  BY <1>1, <1>4, <1>7, <1>8

LEMMA OwnKeeps ==
  ASSUME Inv, NEW t \in Threads, Own(t)
  PROVE  Inv'
<1>1. PICK slot : slot = Slot(t, "req")
  OBVIOUS
<1>2. /\ ult[t].pc = "owner" /\ pool' = Forget(Wait(pool, slot), {slot})
      /\ ult' = [ult EXCEPT ![t] = Idle] /\ UNCHANGED <<na, inst, short>>
  BY <1>1 DEF Own, At, Done, bounds
<1>3. /\ up = "up" /\ PoolOK(pool) /\ slot \in DOMAIN pool.use /\ short' \in BOOLEAN
      /\ \A role \in LocalRoles : ~ LocalAt(ult[t], role)
  <2>1. Has(ult[t], "req") /\ \A role \in LocalRoles : ~ LocalAt(ult[t], role)
    BY <1>2 DEF Has, RequestAt, LocalAt, LocalRoles, Blocked, Handing
  <2>2. up = "up"
    BY <1>2, SomebodyUp DEF Inv
  <2> QED
    BY <1>1, <1>2, <2>1, <2>2 DEF Inv, PlaceInv, SlotInv, ListenInv, Roles
<1>4. PICK p : p = Wait(pool, slot)
  OBVIOUS
<1>5. PoolOK(p) /\ SameBut(pool, p, {slot})
  BY <1>3, <1>4, WaitOK
<1>6. PoolOK(pool') /\ SameBut(p, pool', {slot}) /\ slot \notin DOMAIN pool'.use
  BY <1>2, <1>4, <1>5, ForgetOK
<1>7. SameBut(pool, pool', {Slot(t, "req")})
  BY <1>1, <1>5, <1>6 DEF SameBut
<1>8. QED
  BY <1>1, <1>2, <1>3, <1>6, <1>7, IdleFits, RequestStep DEF Inv, NaTyped

(***************************************************************************)
(* An operation id of the caller is not one of the cache.                  *)
(***************************************************************************)
LEMMA IoperKeeps ==
  ASSUME Inv, NEW t \in Threads, Ioper(t)
  PROVE  Inv'
<1>1. PICK p, r, q : /\ p = GetReq(pool, Slot(t, "req"))
                     /\ r = p.use[Slot(t, "req")]
                     /\ q = IF call(t).path = "rma" THEN DropEventual(p, r) ELSE p
  OBVIOUS
<1>2. PICK u : u = SetEventual(q, r, "unset")
  OBVIOUS
<1>3. /\ ult[t].pc = "begin" /\ call(t).op = "ioper" /\ UNCHANGED inst
      /\ \/ /\ pool' = u
            /\ na' = na \cup {Operation(UserOp(t), NoBuffer, r)}
            /\ Goto(t, "owner")
            /\ UNCHANGED short
         \/ /\ pool' = ReturnReq(u, Slot(t, "req"))
            /\ Done(t)
            /\ UNCHANGED <<na, short>>
         \/ /\ pool' = ReturnReq(q, Slot(t, "req"))
            /\ short' = (short \/ call(t).path = "rma")
            /\ Done(t)
            /\ UNCHANGED na
  BY <1>1, <1>2 DEF Ioper, At
<1>4. /\ up = "up" /\ PoolOK(pool) /\ short' \in BOOLEAN
      /\ call(t) = ult[t].call /\ call(t).by = "caller"
  <2>1. call(t) = ult[t].call /\ call(t) \in Messages \cup Primitives
    BY <1>3, CallOf, CallsAre DEF Inv, Fitting
  <2>2. call(t).by = "caller"
    BY <1>3, <2>1 DEF Messages, Primitives
  <2>3. up = "up"
    BY <1>3, SomebodyUp DEF Inv
  <2>4. short' \in BOOLEAN
    BY <1>3 DEF Inv, PlaceInv, ListenInv
  <2> QED
    BY <2>1, <2>2, <2>3, <2>4 DEF Inv, PlaceInv
<1>5. /\ Slot(t, "req") \notin DOMAIN pool.use
      /\ \A role \in LocalRoles : ~ LocalAt(ult[t], role)
  <2>1. ~ Has(ult[t], "req")
    BY <1>3, <1>4 DEF Has, LocalAt, RequestAt
  <2> QED
    BY <1>3, <2>1 DEF Inv, PlaceInv, SlotInv, Roles, LocalAt, LocalRoles, Blocked, Handing
<1>6. /\ PoolOK(p) /\ SameBut(pool, p, {Slot(t, "req")})
      /\ Slot(t, "req") \in DOMAIN p.use /\ r \in Kind("req")
  BY <1>1, <1>4, <1>5, GetReqOK
<1>7. r \in Requests /\ "unset" \in Values
  BY <1>6 DEF Requests, Kind, Values
<1>8. PoolOK(q) /\ q.use = p.use /\ SameBut(pool, q, {Slot(t, "req")})
  <2>1. /\ PoolOK(DropEventual(p, r)) /\ DropEventual(p, r).use = p.use
        /\ SameBut(p, DropEventual(p, r), {})
    BY <1>6, DropEventualOK
  <2>2. q = p \/ q = DropEventual(p, r)
    BY <1>1
  <2> QED
    BY <1>6, <2>1, <2>2 DEF SameBut
<1>9. PoolOK(u) /\ u.use = p.use /\ SameBut(pool, u, {Slot(t, "req")})
  <2>1. PoolOK(u) /\ u.use = q.use /\ SameBut(q, u, {})
    BY <1>2, <1>7, <1>8, SetEventualOK
  <2> QED
    BY <1>8, <2>1 DEF SameBut
<1>10. CASE /\ pool' = u
            /\ na' = na \cup {Operation(UserOp(t), NoBuffer, r)}
            /\ Goto(t, "owner")
            /\ UNCHANGED short
  <2>1. PICK w : w = Went(t, "owner")
    OBVIOUS
  <2>2. w.pc = "owner" /\ w.call = call(t) /\ w = [pc |-> w.pc, call |-> w.call]
    BY <2>1 DEF Went
  <2>3. Fitting(w) /\ ult' = [ult EXCEPT ![t] = w]
    <3>1. call(t) \in Calls
      BY <1>3, <1>4, CallOf DEF Inv, Fitting
    <3>2. Fitting(w)
      BY <1>3, <2>2, <3>1 DEF Fitting, Points, Handing, Listening
    <3> QED
      BY <1>10, <2>1, <3>2, GotoIs DEF Inv
  <2>4. /\ \A role \in LocalRoles : ~ LocalAt(w, role)
        /\ w.pc \notin Listening /\ RequestAt(w)
    BY <2>2 DEF LocalAt, LocalRoles, Blocked, Handing, Listening, RequestAt
  <2>5. PlaceInv'
    BY <1>1, <1>3, <1>4, <1>5, <1>6, <1>9, <1>10, <2>3, <2>4, RequestStep DEF Inv
  <2>6. NaTyped'
    <3>1. Operation(UserOp(t), NoBuffer, r) \in NaOperations
      BY <1>7 DEF Operation, NaOperations, UserOp
    <3> QED
      BY <1>10, <3>1 DEF Inv, NaTyped
  <2> QED
    BY <2>5, <2>6 DEF Inv
<1>11. CASE /\ pool' \in {ReturnReq(u, Slot(t, "req")), ReturnReq(q, Slot(t, "req"))}
            /\ Done(t)
            /\ UNCHANGED na
  <2>1. /\ PoolOK(pool') /\ SameBut(pool, pool', {Slot(t, "req")})
        /\ Slot(t, "req") \notin DOMAIN pool'.use
    <3>1. CASE pool' = ReturnReq(u, Slot(t, "req"))
      BY <1>1, <1>6, <1>9, <3>1, RequestBack
    <3>2. CASE pool' = ReturnReq(q, Slot(t, "req"))
      BY <1>1, <1>6, <1>8, <3>2, RequestBack
    <3> QED
      BY <1>11, <3>1, <3>2
  <2>2. ult' = [ult EXCEPT ![t] = Idle]
    BY <1>11 DEF Done
  <2> QED
    BY <1>3, <1>4, <1>5, <1>11, <2>1, <2>2, IdleFits, RequestStep DEF Inv, NaTyped
<1>12. QED
  BY <1>3, <1>10, <1>11

-----------------------------------------------------------------------------
(***************************************************************************)
(* NA, and the end of the instance.                                        *)
(***************************************************************************)
LEMMA SameUse ==
  ASSUME PlaceInv, PoolOK(pool'), pool'.use = pool.use, UNCHANGED <<ult, inst, short>>
  PROVE  PlaceInv'
<1>1. UltInv' /\ ListenInv'
  BY DEF PlaceInv, UltInv, ListenInv, inst
<1>2. SlotInv'
  BY DEF PlaceInv, SlotInv, call
<1>3. ProbInv' /\ QueueInv'
  BY DEF PlaceInv, ProbInv, QueueInv, Queued, inst, Prob, ProbKind, ProbMsg, ProbId, ProbReq
<1>4. QED
  BY <1>1, <1>2, <1>3 DEF PlaceInv

LEMMA CompleteKeeps ==
  ASSUME Inv, Complete
  PROVE  Inv'
<1>1. PICK o \in na, v \in {"ok", "error"} : mona_callback(o, v)
  BY DEF Complete
<1>2. o.req \in Requests /\ v \in Values
  BY DEF Inv, NaTyped, NaOperations, Values
<1>3. PoolOK(pool') /\ pool'.use = pool.use
  BY <1>1, <1>2, SetEventualOK DEF mona_callback, Inv, PlaceInv
<1>4. PlaceInv'
  BY <1>3, SameUse DEF Inv, Complete
<1>5. NaTyped'
  BY <1>1 DEF mona_callback, Inv, NaTyped
<1>6. QED
  BY <1>4, <1>5 DEF Inv

LEMMA CancelProbeKeeps ==
  ASSUME Inv, CancelProbe
  PROVE  Inv'
<1>1. /\ up = "up" /\ \A t \in Threads : ult[t].pc = "idle"
      /\ UNCHANGED <<pool, ult, prob_active, queue_active, short>>
      /\ \/ prob_active /\ Cancel(pool.use[ProbId]) /\ up' = "closing"
         \/ up' = "stopped" /\ UNCHANGED na
  BY DEF CancelProbe, At
<1>2. NaTyped'
  <2>1. CASE Cancel(pool.use[ProbId])
    BY <2>1, CancelTyped DEF Inv
  <2>2. CASE UNCHANGED na
    BY <2>2 DEF Inv, NaTyped
  <2> QED
    BY <1>1, <2>1, <2>2
<1>3. UltInv' /\ SlotInv' /\ QueueInv' /\ PoolOK(pool)'
  BY <1>1 DEF Inv, PlaceInv, UltInv, SlotInv, QueueInv, Queued, call
<1>4. ListenInv'
  BY <1>1 DEF Inv, PlaceInv, ListenInv
<1>5. ProbInv'
  BY <1>1 DEF Inv, PlaceInv, ProbInv, Prob, ProbKind, ProbMsg, ProbId, ProbReq
<1>6. QED
  BY <1>2, <1>3, <1>4, <1>5 DEF Inv, PlaceInv

LEMMA ReapProbeKeeps ==
  ASSUME Inv, ReapProbe
  PROVE  Inv'
<1>1. PICK p : p = ReturnOpId(Wait(pool, ProbReq), ProbId)
  OBVIOUS
<1>2. /\ up = "closing" /\ pool' = Return(p, ProbMsg, "unexpected") /\ up' = "stopped"
      /\ UNCHANGED <<na, ult, prob_active, queue_active, short>>
  BY <1>1 DEF ReapProbe, ReturnMsg, bounds
<1>3. PoolOK(pool) /\ \A s \in Prob : s \in DOMAIN pool.use /\ pool.use[s] \in Kind(ProbKind(s))
  BY <1>2 DEF Inv, PlaceInv, ProbInv
<1>4. /\ PoolOK(p) /\ SameBut(pool, p, {ProbId, ProbReq})
      /\ ProbId \notin DOMAIN p.use
      /\ ProbReq \in DOMAIN p.use => p.use[ProbReq] \in Kind("req")
      /\ ProbMsg \in DOMAIN p.use /\ p.use[ProbMsg] \in Kind("unexpected")
  BY <1>1, <1>3, ProbReaped
<1>5. /\ PoolOK(pool') /\ SameBut(p, pool', {ProbMsg}) /\ ProbMsg \notin DOMAIN pool'.use
  BY <1>2, <1>4, ReturnOK, ProbKinds
<1>6. SameBut(pool, pool', Prob)
  <2>1. ASSUME NEW s, s \notin Prob
        PROVE  /\ s \in DOMAIN pool'.use <=> s \in DOMAIN pool.use
               /\ s \in DOMAIN pool.use => pool'.use[s] = pool.use[s]
    <3>1. s # ProbMsg /\ s # ProbId /\ s # ProbReq
      BY <2>1, ProbKinds
    <3> QED
      BY <1>4, <1>5, <3>1 DEF SameBut
  <2>2. pool.lost \subseteq pool'.lost
    BY <1>4, <1>5 DEF SameBut
  <2> QED
    BY <2>1, <2>2 DEF SameBut
<1>7. UltInv' /\ ListenInv'
  BY <1>2 DEF Inv, PlaceInv, UltInv, ListenInv
<1>8. SlotInv'
  <2>1. \A t \in Threads : \A role \in Roles : Slot(t, role) \notin Prob
    BY Slots
  <2> QED
    BY <1>2, <1>6, <2>1 DEF Inv, PlaceInv, SlotInv, SameBut, call
<1>9. QueueInv'
  BY <1>6, QueueKept, ProbKinds DEF Inv
<1>10. ProbInv'
  <2>1. \A s \in Prob : s \in DOMAIN pool'.use => pool'.use[s] \in Kind(ProbKind(s))
    <3>1. ProbId \notin DOMAIN pool'.use
      BY <1>4, <1>5, ProbKinds DEF SameBut
    <3>2. ProbReq \in DOMAIN pool'.use => pool'.use[ProbReq] \in Kind("req")
      BY <1>4, <1>5, ProbKinds DEF SameBut
    <3> QED
      BY <1>5, <3>1, <3>2, ProbKinds
  <2> QED
    BY <1>2, <2>1 DEF ProbInv, Prob, ProbKind, ProbMsg, ProbId, ProbReq
<1>11. QED
  BY <1>2, <1>5, <1>7, <1>8, <1>9, <1>10 DEF Inv, PlaceInv, NaTyped

LEMMA FreeKeeps ==
  ASSUME Inv, Free
  PROVE  Inv'
<1>1. PICK a, b, c, d : /\ a = Clear(pool, "op") /\ b = Clear(a, "req")
                        /\ c = Clear(b, "unexpected") /\ d = Clear(c, "expected")
  OBVIOUS
<1>2. /\ up = "stopped" /\ pool' = Forget(d, DOMAIN pool.use) /\ up' = "down"
      /\ UNCHANGED <<na, ult, prob_active, queue_active, short>>
  BY <1>1 DEF Free, ClearMsgs, ClearReqs, ClearOpIds, bounds
<1>3. PoolOK(a) /\ SameBut(pool, a, {})
  BY <1>1, ClearOK DEF Inv, PlaceInv, Kinds
<1>4. PoolOK(b) /\ SameBut(a, b, {})
  BY <1>1, <1>3, ClearOK DEF Kinds
<1>5. PoolOK(c) /\ SameBut(b, c, {})
  BY <1>1, <1>4, ClearOK DEF Kinds
<1>6. PoolOK(d) /\ SameBut(c, d, {})
  BY <1>1, <1>5, ClearOK DEF Kinds
<1>7. /\ PoolOK(pool') /\ SameBut(d, pool', DOMAIN pool.use)
      /\ \A s \in DOMAIN pool.use : s \notin DOMAIN pool'.use
  BY <1>2, <1>6, ForgetOK
<1>8. \A s : s \notin DOMAIN pool'.use
  <2>1. \A s \in DOMAIN d.use : s \in DOMAIN pool.use
    BY <1>3, <1>4, <1>5, <1>6 DEF SameBut
  <2> QED
    BY <1>7, <2>1 DEF SameBut
<1>9. UltInv' /\ ListenInv'
  BY <1>2 DEF Inv, PlaceInv, UltInv, ListenInv
<1>10. SlotInv'
  <2>1. ASSUME NEW t \in Threads, NEW role \in Roles PROVE ~ Has(ult'[t], role)
    <3>1. ult'[t] = Idle
      BY <1>2 DEF Inv, PlaceInv, ListenInv, UltInv, Fitting
    <3> QED
      BY <3>1, IdleFits
  <2> QED
    BY <1>8, <2>1 DEF SlotInv, Slot
<1>11. ProbInv' /\ QueueInv'
  <2>1. QueueInv'
    BY <1>8 DEF QueueInv, Queued
  <2>2. ProbInv'
    BY <1>2, <1>8 DEF ProbInv
  <2> QED
    BY <2>1, <2>2
<1>12. QED
  BY <1>2, <1>7, <1>9, <1>10, <1>11 DEF Inv, PlaceInv, NaTyped

-----------------------------------------------------------------------------
(***************************************************************************)
(* The invariant holds at first and after every step.                      *)
(***************************************************************************)
LEMMA FirstPool ==
  ASSUME Init
  PROVE  PoolOK(pool) /\ \A s : s \notin DOMAIN pool.use
<1>1. PICK list : list = [i \in 1..InitialOps |-> <<"op", i>>]
  OBVIOUS
<1>2. InitialOps \in Nat
  BY OperationsAssumption
<1>3. /\ list \in Seq(Kind("op")) /\ list \in Seq(Objects) /\ Len(list) = InitialOps
      /\ \A i \in 1..InitialOps : list[i] = <<"op", i>>
  <2>1. \A i \in 1..InitialOps : <<"op", i>> \in Kind("op") /\ <<"op", i>> \in Objects
    BY <1>2 DEF Kind, Objects, Kinds
  <2> QED
    BY <1>1, <1>2, <2>1
<1>4. /\ pool.free = [k \in Kinds |-> IF k = "op" THEN list ELSE << >>]
      /\ pool.made = [k \in Kinds |-> IF k = "op" THEN InitialOps ELSE 0]
      /\ pool.use = << >> /\ pool.ev = << >> /\ pool.lost = {} /\ pool.freed = {}
      /\ pool = [free |-> pool.free, made |-> pool.made, use |-> pool.use,
                 ev |-> pool.ev, lost |-> pool.lost, freed |-> pool.freed]
  BY <1>1 DEF Init, EmptyPool, Kinds
<1>5. DOMAIN pool.use = {} /\ DOMAIN pool.ev = {}
  BY <1>4
<1>6. PoolTyped(pool)
  <2>1. /\ pool.free \in [Kinds -> Seq(Objects)] /\ pool.made \in [Kinds -> Nat]
        /\ \A k \in Kinds : pool.free[k] \in Seq(Kind(k))
    BY <1>2, <1>3, <1>4
  <2>2. IsPool(pool)
    BY <1>4, <2>1 DEF IsPool
  <2>3. pool.use \in [DOMAIN pool.use -> Objects] /\ pool.ev \in [DOMAIN pool.ev -> Values]
    BY <1>4, <1>5
  <2> QED
    BY <1>5, <2>1, <2>2, <2>3 DEF PoolTyped
<1>7. /\ \A o : OnList(pool, o) <=> \E i \in 1..InitialOps : o = <<"op", i>>
      /\ \A o : ~ InUse(pool, o)
  <2>1. \A o : o \in ToSet(list) <=> \E i \in 1..InitialOps : o = <<"op", i>>
    <3>1. \A o : o \in ToSet(list) <=> \E i \in 1..Len(list) : o = list[i]
      BY <1>3, ElementsOf
    <3> QED
      BY <1>3, <3>1, ZenonT(30)
  <2>2. ToSet(<< >>) = {}
    BY DEF ToSet
  <2>3. \A o : OnList(pool, o) <=> o \in ToSet(list)
    BY <1>4, <2>2 DEF OnList, Kinds
  <2> QED
    BY <1>5, <2>1, <2>3 DEF InUse
<1>8. OnePlace(pool)
  <2>1. \A k \in Kinds : NoRepeat(pool.free[k])
    <3>1. NoRepeat(list) /\ NoRepeat(<< >>)
      BY <1>3 DEF NoRepeat
    <3> QED
      BY <1>4, <3>1
  <2>2. \A k \in Kinds : \A n \in Nat \ {0} :
          n <= pool.made[k] <=> OnList(pool, <<k, n>>)
    BY <1>2, <1>4, <1>7
  <2> QED
    BY <1>4, <1>5, <1>7, <2>1, <2>2 DEF OnePlace
<1>9. QED
  BY <1>5, <1>6, <1>8 DEF PoolOK

LEMMA InitInv ==
  ASSUME Init
  PROVE  Inv
<1>1. PoolOK(pool) /\ \A s : s \notin DOMAIN pool.use
  BY FirstPool
<1>2. /\ ult = [t \in Threads |-> Idle] /\ \A t \in Threads : ult[t] = Idle
      /\ prob_active = FALSE /\ queue_active = FALSE /\ up = "up" /\ short = FALSE /\ na = {}
  BY DEF Init
<1>3. UltInv
  BY <1>2, IdleFits DEF UltInv
<1>4. SlotInv
  <2>1. \A role \in Roles : ~ Has(Idle, role)
    BY IdleFits
  <2> QED
    BY <1>1, <1>2, <2>1 DEF SlotInv
<1>5. ProbInv /\ QueueInv
  BY <1>1, <1>2 DEF ProbInv, QueueInv, Queued
<1>6. ListenInv
  BY <1>2, IdleFits DEF ListenInv, Listening
<1>7. NaTyped
  BY <1>2 DEF NaTyped
<1>8. QED
  BY <1>1, <1>3, <1>4, <1>5, <1>6, <1>7 DEF Inv, PlaceInv

-----------------------------------------------------------------------------
(***************************************************************************)
(* The steps that leave the lists intact; Recycle is the only one that     *)
(* does not, and no step follows it.                                       *)
(***************************************************************************)
Goes == Complete \/ CancelProbe \/ ReapProbe \/ Free \/ \E t \in Threads : Step(t)

LEMMA GoesOn ==
  ASSUME [Next]_vars, ListsIntact'
  PROVE  ListsIntact /\ [Goes]_vars
<1>1. CASE UNCHANGED vars
  BY <1>1 DEF vars, inst, ListsIntact
<1>2. CASE ListsIntact /\ Goes
  BY <1>2
<1>3. CASE \E t \in Threads : Recycle(t)
  <2>1. up' = "broken"
    BY <1>3 DEF Recycle
  <2> QED
    BY <2>1 DEF ListsIntact
<1>4. QED
  BY <1>1, <1>2, <1>3 DEF Next, Goes

LEMMA NextInv ==
  ASSUME Inv, [Goes]_vars
  PROVE  Inv'
<1>1. CASE UNCHANGED vars
  <2>1. PoolOK(pool') /\ pool'.use = pool.use /\ UNCHANGED <<ult, inst, short, na>>
    BY <1>1 DEF vars, bounds, Inv, PlaceInv
  <2> QED
    BY <2>1, SameUse DEF Inv, NaTyped
<1>2. CASE Complete \/ CancelProbe \/ ReapProbe \/ Free
  BY <1>2, CompleteKeeps, CancelProbeKeeps, ReapProbeKeeps, FreeKeeps
<1>3. CASE \E t \in Threads : Step(t)
  <2>1. PICK t \in Threads : Step(t)
    BY <1>3
  <2>2. CASE Enter(t) \/ Own(t) \/ Oper(t) \/ OperOver(t) \/ Ioper(t)
    BY <2>2, EnterKeeps, OwnKeeps, OperKeeps, OperOverKeeps, IoperKeeps
  <2>3. CASE SendSmall(t) \/ SendLarge(t) \/ SendHandle(t) \/ Sent(t) \/ HandleSent(t)
    BY <2>3, SendSmallKeeps, SendLargeKeeps, SendHandleKeeps, SentKeeps, HandleSentKeeps
  <2>4. CASE Acknowledged(t) \/ Recv(t) \/ Received(t) \/ Fetched(t)
    BY <2>4, AcknowledgedKeeps, RecvKeeps, ReceivedKeeps
  <2>5. CASE TakeQueued(t) \/ Claim(t) \/ Listen(t) \/ StopListening(t) \/ Reap(t)
    BY <2>5, TakeQueuedKeeps, ClaimKeeps, ListenKeeps, StopListeningKeeps, ReapKeeps
  <2>6. CASE CopySmall(t) \/ GetLarge(t) \/ Acknowledge(t)
    BY <2>6, CopySmallKeeps, GetLargeKeeps, AcknowledgeKeeps
  <2> QED
    BY <2>1, <2>2, <2>3, <2>4, <2>5, <2>6 DEF Step
<1>4. QED
  BY <1>1, <1>2, <1>3 DEF Goes

LEMMA InvTypes ==
  ASSUME Inv
  PROVE  TypeOK
<1>1. PoolTyped(pool) /\ pool.made \in [Kinds -> Nat] /\ pool.lost \cup pool.freed \subseteq Objects
  BY PoolObjects DEF Inv, PlaceInv, PoolOK
<1>2. /\ \A k \in Kinds : pool.free[k] \in Seq({k} \X (Nat \ {0}))
      /\ \A s \in DOMAIN pool.use : pool.use[s] \in Objects
      /\ \A r \in DOMAIN pool.ev :
           r \in Requests /\ pool.ev[r] \in {"unset", "ok", "error"}
  BY <1>1 DEF PoolTyped, Kind, Values
<1>3. \A o \in na : o.req \in Requests /\ o.cancelled \in BOOLEAN
  BY DEF Inv, NaTyped, NaOperations
<1>4. \A t \in Threads : ult[t] = Idle \/ call(t) \in Calls
  BY DEF Inv, PlaceInv, UltInv, Fitting, call
<1>5. QED
  BY <1>1, <1>2, <1>3, <1>4 DEF TypeOK, Inv, PlaceInv, ListenInv

LEMMA InPlaces ==
  ASSUME NEW o, NEW x
  PROVE  x \in Places(o) <=>
           \/ \E k \in Kinds : \E i \in 1..Len(pool.free[k]) : pool.free[k][i] = o /\ x = <<k, i>>
           \/ x \in DOMAIN pool.use /\ pool.use[x] = o
           \/ o \in pool.lost /\ x = <<"lost", 0>>
           \/ o \in pool.freed /\ x = <<"freed", 0>>
BY DEF Places

LEMMA InvConserved ==
  ASSUME Inv
  PROVE  Conserved
<1>1. SUFFICES ASSUME NEW k \in Kinds, NEW o \in Made(k) PROVE \E x : Places(o) = {x}
  BY <1>1, FS_Singleton DEF Conserved
<1>2. PICK n \in Nat \ {0} : o = <<k, n>> /\ n <= pool.made[k]
  BY PoolObjects DEF Made, Inv, PlaceInv
<1>3. OnePlace(pool) /\ PoolOK(pool)
  BY DEF Inv, PlaceInv, PoolOK
<1>4. /\ OnList(pool, o) \/ InUse(pool, o) \/ o \in pool.lost \/ o \in pool.freed
      /\ InUse(pool, o) => ~ OnList(pool, o) /\ o \notin pool.lost /\ o \notin pool.freed
      /\ OnList(pool, o) => o \notin pool.lost /\ o \notin pool.freed
      /\ o \in pool.lost => o \notin pool.freed
  BY <1>2, <1>3 DEF OnePlace
<1>5. \A l \in Kinds : o \in ToSet(pool.free[l]) <=>
        \E i \in 1..Len(pool.free[l]) : o = pool.free[l][i]
  BY <1>3, PoolObjects, ElementsOf
<1>6. CASE OnList(pool, o)
  <2>0. PICK l \in Kinds : o \in ToSet(pool.free[l])
    BY <1>6 DEF OnList
  <2>1. PICK i \in 1..Len(pool.free[l]) : o = pool.free[l][i]
    BY <1>5, <2>0
  <2>2. \A m \in Kinds : o \in ToSet(pool.free[m]) => m = k
    BY <1>2, <1>3, PoolObjects, KindsOfObjects
  <2>3. \A m \in Kinds : \A j \in 1..Len(pool.free[m]) : pool.free[m][j] = o => m = l /\ j = i
    BY <1>3, <1>5, <2>1, <2>2 DEF OnePlace, NoRepeat
  <2>4. ~ InUse(pool, o) /\ o \notin pool.lost /\ o \notin pool.freed
    BY <1>4, <1>6
  <2>5. \A x : x \in Places(o) <=> x = <<l, i>>
    BY <2>1, <2>3, <2>4, InPlaces DEF InUse
  <2>6. Places(o) = {<<l, i>>}
    BY <2>5
  <2> QED
    BY <2>6
<1>7. CASE ~ OnList(pool, o)
  <2>1. \A m \in Kinds : \A j \in 1..Len(pool.free[m]) : pool.free[m][j] # o
    BY <1>5, <1>7 DEF OnList
  <2>2. CASE InUse(pool, o)
    <3>1. PICK s \in DOMAIN pool.use : pool.use[s] = o
      BY <2>2 DEF InUse
    <3>2. \A x : x \in Places(o) <=> x = s
      BY <1>3, <1>4, <2>1, <2>2, <3>1, InPlaces DEF OnePlace
    <3>3. Places(o) = {s}
      BY <3>2
    <3> QED
      BY <3>3
  <2>3. CASE ~ InUse(pool, o)
    <3>1. \A x \in DOMAIN pool.use : pool.use[x] # o
      BY <2>3 DEF InUse
    <3>2. CASE o \in pool.lost
      <4>1. \A x : x \in Places(o) <=> x = <<"lost", 0>>
        BY <1>4, <2>1, <3>1, <3>2, InPlaces
      <4>2. Places(o) = {<<"lost", 0>>}
        BY <4>1
      <4> QED
        BY <4>2
    <3>3. CASE o \in pool.freed
      <4>1. \A x : x \in Places(o) <=> x = <<"freed", 0>>
        BY <1>4, <2>1, <3>1, <3>3, InPlaces
      <4>2. Places(o) = {<<"freed", 0>>}
        BY <4>1
      <4> QED
        BY <4>2
    <3> QED
      BY <1>4, <1>7, <2>3, <3>2, <3>3
  <2> QED
    BY <2>2, <2>3
<1>8. QED
  BY <1>6, <1>7

(***************************************************************************)
(* Types, and each list of objects of its own kind: every get_msg and      *)
(* return_msg of mona.c, mona-expected.c and mona-unexpected.c names the   *)
(* list its buffer is of, on every path to `finish' and to `error', for    *)
(* any number of ULTs, calls and failures, up to the exit of a receive     *)
(* that gives back a buffer it has queued (mona-unexpected.c:523).         *)
(***************************************************************************)
THEOREM OperationsTyped == Spec => []TypeOK
<1>1. Init => Inv
  BY InitInv
<1>2. (ListsIntact => Inv) /\ [Next]_vars => (ListsIntact => Inv)'
  BY GoesOn, NextInv
<1>3. (ListsIntact => Inv) => TypeOK
  BY InvTypes DEF TypeOK, ListsIntact
<1>4. QED
  BY <1>1, <1>2, <1>3, PTL DEF Spec

(***************************************************************************)
(* Every operation id, request and message buffer is on one list once, or  *)
(* in one pointer, or forgotten, or freed, and never two of these: nothing *)
(* is given back twice (return_op_id, return_req, return_msg of            *)
(* mona-types.h), nothing is given to two calls, and nothing is freed that *)
(* is in use.  One path does all three, and until it is taken all others   *)
(* are covered: a receive that queued a message for another and then fails *)
(* gives back the queued buffer (mona-unexpected.c:519, 523).              *)
(***************************************************************************)
THEOREM ObjectsConserved == Spec => []Conserved
<1>1. Init => Inv
  BY InitInv
<1>2. (ListsIntact => Inv) /\ [Next]_vars => (ListsIntact => Inv)'
  BY GoesOn, NextInv
<1>3. (ListsIntact => Inv) => Conserved
  BY InvConserved DEF Conserved
<1>4. QED
  BY <1>1, <1>2, <1>3, PTL DEF Spec

-----------------------------------------------------------------------------
(***************************************************************************)
(* Who waits for an operation NA has: a ULT for the blocking one of its    *)
(* own, for an acknowledgement, or for one on its own operation id; those  *)
(* who share the receive; nobody, and then what it uses is forgotten.      *)
(***************************************************************************)
AllSlots(t) == OwnSlots(t) \cup {Slot(t, "req")}

Waits(t, o) ==
  /\ Slot(t, "op") \in DOMAIN pool.use
  /\ o.req = Stack(t) /\ o.op = pool.use[Slot(t, "op")]
  /\ \/ o.buf = NoBuffer
     \/ \E s \in OwnSlots(t) : s \in DOMAIN pool.use /\ o.buf = pool.use[s]

Awaits(t, o) ==
  /\ ult[t].pc \in Handing
  /\ o.req = pool.use[Slot(t, "ackreq")] /\ o.op = pool.use[Slot(t, "ackop")]
  /\ o.buf = pool.use[Slot(t, "ack")]

Brought(t, o) ==
  /\ ult[t].pc = "owner"
  /\ o.req = pool.use[Slot(t, "req")] /\ o.op = UserOp(t) /\ o.buf = NoBuffer

Shared(o) ==
  /\ \A s \in Prob : s \in DOMAIN pool.use
  /\ o.req = pool.use[ProbReq] /\ o.op = pool.use[ProbId] /\ o.buf = pool.use[ProbMsg]

Gone(o) ==
  /\ o.req \in pool.lost
  /\ o.buf \in pool.lost \cup {NoBuffer}
  /\ o.cancelled \/ o.op \in pool.lost

Owned(o) ==
  \/ \E t \in Threads : Waits(t, o) \/ Awaits(t, o) \/ Brought(t, o)
  \/ Shared(o)
  \/ Gone(o)

Pends(o) == o.req \in DOMAIN pool.ev /\ pool.ev[o.req] = "unset"

NaInv ==
  /\ \A o \in na : Pends(o) /\ Owned(o)
  /\ \A o, p \in na : o.req = p.req => o = p

-----------------------------------------------------------------------------
(***************************************************************************)
(* What a step of t may touch, S being the slots of the instance and of    *)
(* the queue that it uses: its stack, what it or a slot of S holds, and    *)
(* what nobody does.                                                       *)
(***************************************************************************)
Ours(t, S) == AllSlots(t) \cup S

MayTouch(t, S, r) ==
  \/ r = Stack(t)
  \/ \E s \in Ours(t, S) : s \in DOMAIN pool.use /\ pool.use[s] = r
  \/ r \in Objects /\ ~ InUse(pool, r) /\ r \notin pool.lost

Calm(ev, t, S) ==
  \A r : ~ MayTouch(t, S, r) =>
    /\ r \in DOMAIN ev <=> r \in DOMAIN pool.ev
    /\ r \in DOMAIN pool.ev => ev[r] = pool.ev[r]

ListsTyped(p) ==
  p \in [free : [Kinds -> Seq(Objects)], made : [Kinds -> Nat],
         use : {p.use}, ev : {p.ev}, lost : {p.lost}, freed : {p.freed}]

(***************************************************************************)
(* The pool p that a step of t has come to: it has touched nothing else.   *)
(***************************************************************************)
Quiet(p, t, S) ==
  /\ ListsTyped(p)
  /\ SameBut(pool, p, Ours(t, S))
  /\ Calm(p.ev, t, S)
  /\ \A s \in Ours(t, S) :
       s \in DOMAIN p.use => p.use[s] \in Objects /\ MayTouch(t, S, p.use[s])
  /\ \A k \in Kinds : \A i \in 1..Len(p.free[k]) : MayTouch(t, S, p.free[k][i])
  /\ \A k \in Kinds : \A n \in Nat : n > p.made[k] => MayTouch(t, S, <<k, n>>)

LEMMA QuietFirst ==
  ASSUME PoolOK(pool), NEW t, NEW S
  PROVE  Quiet(pool, t, S)
<1>1. ListsTyped(pool)
  BY DEF PoolOK, PoolTyped, IsPool, ListsTyped
<1>2. SameBut(pool, pool, Ours(t, S)) /\ Calm(pool.ev, t, S)
  BY DEF SameBut, Calm
<1>3. \A s \in Ours(t, S) :
        s \in DOMAIN pool.use => pool.use[s] \in Objects /\ MayTouch(t, S, pool.use[s])
  BY PoolObjects DEF MayTouch
<1>4. ASSUME NEW k \in Kinds, NEW i \in 1..Len(pool.free[k])
      PROVE  MayTouch(t, S, pool.free[k][i])
  <2>1. PICK o : o = pool.free[k][i]
    OBVIOUS
  <2>2. pool.free[k] \in Seq(Objects)
    BY <1>1 DEF ListsTyped
  <2>3. o \in ToSet(pool.free[k])
    BY <2>1, <2>2, ElementsOf
  <2>4. OnList(pool, o) /\ o \in Objects
    BY <2>3, PoolObjects DEF OnList
  <2>5. ~ InUse(pool, o) /\ o \notin pool.lost
    BY <2>4 DEF PoolOK, OnePlace
  <2> QED
    BY <2>1, <2>4, <2>5 DEF MayTouch
<1>5. ASSUME NEW k \in Kinds, NEW n \in Nat, n > pool.made[k]
      PROVE  MayTouch(t, S, <<k, n>>)
  <2>1. pool.made[k] \in Nat
    BY <1>1 DEF ListsTyped
  <2>2. n \in Nat \ {0} /\ ~ (n <= pool.made[k])
    BY <1>5, <2>1
  <2>3. ~ InUse(pool, <<k, n>>) /\ <<k, n>> \notin pool.lost
    BY <2>2 DEF PoolOK, OnePlace
  <2>4. <<k, n>> \in Objects
    BY <2>2 DEF Objects
  <2> QED
    BY <2>3, <2>4 DEF MayTouch
<1>6. QED
  BY <1>1, <1>2, <1>3, <1>4, <1>5 DEF Quiet

(***************************************************************************)
(* The functions of Caches, one after the other.                           *)
(***************************************************************************)
LEMMA QuietGet ==
  ASSUME NEW t, NEW S, NEW p, Quiet(p, t, S), NEW slot \in Ours(t, S), NEW kind \in Kinds,
         NEW q, q = Get(p, slot, kind)
  PROVE  /\ Quiet(q, t, S)
         /\ slot \in DOMAIN q.use
         /\ \A s \in DOMAIN p.use : s \in DOMAIN q.use /\ (s # slot => q.use[s] = p.use[s])
         /\ q.ev = p.ev
<1>1. ListsTyped(p) /\ p.free[kind] \in Seq(Objects) /\ p.made[kind] \in Nat
  BY DEF Quiet, ListsTyped
<1>2. PICK o, f, m :
        /\ MayTouch(t, S, o) /\ o \in Objects
        /\ f \in [Kinds -> Seq(Objects)] /\ m \in [Kinds -> Nat]
        /\ \A k \in Kinds : \A i \in 1..Len(f[k]) : MayTouch(t, S, f[k][i])
        /\ \A k \in Kinds : \A n \in Nat : n > m[k] => MayTouch(t, S, <<k, n>>)
        /\ q = [p EXCEPT !.free = f, !.made = m, !.use = With(p.use, slot, o)]
  <2>1. CASE p.free[kind] # << >>
    <3>1. PICK l, f : l = Tail(p.free[kind]) /\ f = [p.free EXCEPT ![kind] = l]
      OBVIOUS
    <3>2. /\ l \in Seq(Objects) /\ Len(l) = Len(p.free[kind]) - 1
          /\ Len(p.free[kind]) \in Nat \ {0} /\ Head(p.free[kind]) = p.free[kind][1]
          /\ \A j \in 1..(Len(p.free[kind]) - 1) : l[j] = p.free[kind][j + 1]
      BY <1>1, <2>1, <3>1, HeadTailProperties, EmptySeq, LenProperties
    <3>3. \A i \in 1..Len(l) : MayTouch(t, S, l[i])
      BY <3>2 DEF Quiet
    <3>4. MayTouch(t, S, Head(p.free[kind])) /\ Head(p.free[kind]) \in Objects
      BY <1>1, <2>1, <3>2, HeadTailProperties, EmptySeq DEF Quiet
    <3>5. /\ f \in [Kinds -> Seq(Objects)] /\ f[kind] = l
          /\ \A k \in Kinds \ {kind} : f[k] = p.free[k]
      BY <1>1, <3>1, <3>2 DEF ListsTyped
    <3>6. \A k \in Kinds : \A i \in 1..Len(f[k]) : MayTouch(t, S, f[k][i])
      BY <3>3, <3>5 DEF Quiet
    <3>7. q = [p EXCEPT !.free = f, !.made = p.made, !.use = With(p.use, slot, Head(p.free[kind]))]
      BY <1>1, <2>1, <3>1 DEF Get, ListsTyped
    <3>8. /\ p.made \in [Kinds -> Nat]
          /\ \A k \in Kinds : \A n \in Nat : n > p.made[k] => MayTouch(t, S, <<k, n>>)
      BY <1>1 DEF Quiet, ListsTyped
    <3> QED
      BY <3>4, <3>5, <3>6, <3>7, <3>8
  <2>2. CASE p.free[kind] = << >>
    <3>1. PICK n, m : n = p.made[kind] + 1 /\ m = [p.made EXCEPT ![kind] = n]
      OBVIOUS
    <3>2. n \in Nat /\ n > p.made[kind]
      BY <1>1, <3>1
    <3>3. MayTouch(t, S, <<kind, n>>) /\ <<kind, n>> \in Objects
      <4>1. n \in Nat \ {0}
        BY <1>1, <3>2
      <4> QED
        BY <3>2, <4>1 DEF Quiet, Objects
    <3>4. /\ m \in [Kinds -> Nat] /\ m[kind] = n /\ \A k \in Kinds \ {kind} : m[k] = p.made[k]
      BY <1>1, <3>1, <3>2 DEF ListsTyped
    <3>5. ASSUME NEW k \in Kinds, NEW i \in Nat, i > m[k] PROVE i > p.made[k]
      BY <1>1, <3>1, <3>4, <3>5
    <3>6. \A k \in Kinds : \A i \in Nat : i > m[k] => MayTouch(t, S, <<k, i>>)
      BY <3>5 DEF Quiet
    <3>7. q = [p EXCEPT !.free = p.free, !.made = m, !.use = With(p.use, slot, <<kind, n>>)]
      BY <1>1, <2>2, <3>1 DEF Get, ListsTyped
    <3>8. /\ p.free \in [Kinds -> Seq(Objects)]
          /\ \A k \in Kinds : \A i \in 1..Len(p.free[k]) : MayTouch(t, S, p.free[k][i])
      BY <1>1 DEF Quiet, ListsTyped
    <3> QED
      BY <3>3, <3>4, <3>6, <3>7, <3>8
  <2> QED
    BY <2>1, <2>2
<1>3. PICK u : u = With(p.use, slot, o)
  OBVIOUS
<1>4. /\ \A s : s \in DOMAIN u <=> s \in DOMAIN p.use \/ s = slot
      /\ u[slot] = o
      /\ \A s \in DOMAIN p.use : s # slot => u[s] = p.use[s]
  BY <1>3, WithProperties
<1>5. /\ ListsTyped(q) /\ q.free = f /\ q.made = m /\ q.use = u
      /\ q.ev = p.ev /\ q.lost = p.lost
  BY <1>1, <1>2, <1>3 DEF ListsTyped
<1>6. SameBut(pool, q, Ours(t, S))
  BY <1>4, <1>5 DEF Quiet, SameBut
<1>7. \A s \in Ours(t, S) : s \in DOMAIN u => u[s] \in Objects /\ MayTouch(t, S, u[s])
  BY <1>2, <1>4 DEF Quiet
<1>8. Calm(q.ev, t, S)
  BY <1>5 DEF Quiet
<1>9. Quiet(q, t, S)
  BY <1>2, <1>5, <1>6, <1>7, <1>8 DEF Quiet
<1>10. QED
  BY <1>4, <1>5, <1>9

LEMMA QuietReturn ==
  ASSUME NEW t, NEW S, NEW p, Quiet(p, t, S), NEW slot \in Ours(t, S), slot \in DOMAIN p.use,
         NEW list \in Kinds, NEW q, q = Return(p, slot, list)
  PROVE  /\ Quiet(q, t, S)
         /\ \A s \in DOMAIN p.use : s # slot => s \in DOMAIN q.use /\ q.use[s] = p.use[s]
         /\ q.ev = p.ev /\ q.lost = p.lost
<1>1. ListsTyped(p) /\ p.free[list] \in Seq(Objects)
  BY DEF Quiet, ListsTyped
<1>2. PICK o, l, f, u : /\ o = p.use[slot] /\ l = <<o>> \o p.free[list]
                        /\ f = [p.free EXCEPT ![list] = l] /\ u = Without(p.use, {slot})
  OBVIOUS
<1>3. MayTouch(t, S, o) /\ o \in Objects
  BY <1>2 DEF Quiet
<1>4. l \in Seq(Objects) /\ \A i \in 1..Len(l) : MayTouch(t, S, l[i])
  <2>1. <<o>> \in Seq(Objects) /\ Len(<<o>>) = 1 /\ <<o>>[1] = o
    BY <1>3
  <2>2. /\ l \in Seq(Objects) /\ Len(l) = Len(<<o>>) + Len(p.free[list])
        /\ \A i \in 1..(Len(<<o>>) + Len(p.free[list])) :
             l[i] = IF i <= Len(<<o>>) THEN <<o>>[i] ELSE p.free[list][i - Len(<<o>>)]
    BY <1>1, <1>2, <2>1, ConcatProperties
  <2>3. Len(p.free[list]) \in Nat
    BY <1>1, LenProperties
  <2>4. ASSUME NEW i \in 1..Len(l) PROVE MayTouch(t, S, l[i])
    <3>1. CASE i = 1
      BY <1>3, <2>1, <2>2, <2>3, <3>1
    <3>2. CASE i # 1
      <4>1. i - 1 \in 1..Len(p.free[list]) /\ l[i] = p.free[list][i - 1]
        BY <2>1, <2>2, <2>3, <3>2
      <4> QED
        BY <4>1 DEF Quiet
    <3> QED
      BY <3>1, <3>2
  <2> QED
    BY <2>2, <2>4
<1>5. /\ f \in [Kinds -> Seq(Objects)] /\ f[list] = l
      /\ \A k \in Kinds \ {list} : f[k] = p.free[k]
  BY <1>1, <1>2, <1>4 DEF ListsTyped
<1>6. \A k \in Kinds : \A i \in 1..Len(f[k]) : MayTouch(t, S, f[k][i])
  BY <1>4, <1>5 DEF Quiet
<1>7. q = [p EXCEPT !.free = f, !.use = u]
  BY <1>1, <1>2 DEF Return, ListsTyped
<1>8. /\ ListsTyped(q) /\ q.free = f /\ q.made = p.made /\ q.use = u
      /\ q.ev = p.ev /\ q.lost = p.lost
  BY <1>1, <1>5, <1>7 DEF ListsTyped
<1>9. /\ \A s : s \in DOMAIN u <=> s \in DOMAIN p.use /\ s # slot
      /\ \A s \in DOMAIN p.use : s # slot => u[s] = p.use[s]
  BY <1>2, WithoutProperties
<1>10. SameBut(pool, q, Ours(t, S))
  BY <1>8, <1>9 DEF Quiet, SameBut
<1>11. Quiet(q, t, S)
  BY <1>6, <1>8, <1>9, <1>10 DEF Quiet
<1>12. QED
  BY <1>8, <1>9, <1>11

(***************************************************************************)
(* Those that leave the lists alone.                                       *)
(***************************************************************************)
Apart(p, u, t, S) ==
  \A s : s \notin Ours(t, S) =>
    /\ s \in DOMAIN u <=> s \in DOMAIN p.use
    /\ s \in DOMAIN p.use => u[s] = p.use[s]

Within(u, t, S) ==
  \A s \in Ours(t, S) : s \in DOMAIN u => u[s] \in Objects /\ MayTouch(t, S, u[s])

Changes(p, q, u, e, d) ==
  \E f : q = [p EXCEPT !.use = u, !.ev = e, !.lost = d, !.freed = f]

LEMMA QuietUse ==
  ASSUME NEW t, NEW S, NEW p, Quiet(p, t, S), NEW q, NEW u, NEW e, NEW d,
         Changes(p, q, u, e, d),
         Apart(p, u, t, S), Within(u, t, S), p.lost \subseteq d, Calm(e, t, S)
  PROVE  Quiet(q, t, S) /\ q.use = u /\ q.ev = e /\ q.lost = d
<1>1. ListsTyped(p)
  BY DEF Quiet
<1>2. /\ ListsTyped(q) /\ q.free = p.free /\ q.made = p.made /\ q.use = u
      /\ q.ev = e /\ q.lost = d
  BY <1>1 DEF ListsTyped, Changes
<1>3. SameBut(pool, q, Ours(t, S))
  BY <1>2 DEF Quiet, SameBut, Apart
<1>4. QED
  BY <1>2, <1>3 DEF Quiet, Within

LEMMA CalmTouch ==
  ASSUME NEW t, NEW S, NEW ev, Calm(ev, t, S), NEW r, MayTouch(t, S, r), NEW v
  PROVE  Calm(With(ev, r, v), t, S) /\ Calm(Without(ev, {r}), t, S)
BY WithProperties, WithoutProperties DEF Calm

LEMMA QuietSame ==
  ASSUME NEW t, NEW S, NEW p, Quiet(p, t, S)
  PROVE  /\ ListsTyped(p) /\ Calm(p.ev, t, S)
         /\ Apart(p, p.use, t, S) /\ Within(p.use, t, S)
BY DEF Quiet, Apart, Within

LEMMA QuietSet ==
  ASSUME NEW t, NEW S, NEW p, Quiet(p, t, S), NEW r, MayTouch(t, S, r), NEW v,
         NEW q, q = SetEventual(p, r, v)
  PROVE  Quiet(q, t, S) /\ q.use = p.use /\ q.ev = With(p.ev, r, v) /\ q.lost = p.lost
<1>1. ListsTyped(p) /\ Calm(p.ev, t, S) /\ Apart(p, p.use, t, S) /\ Within(p.use, t, S)
  BY QuietSame
<1>2. PICK e : e = With(p.ev, r, v)
  OBVIOUS
<1>3. Calm(e, t, S)
  BY <1>1, <1>2, CalmTouch
<1>4. Changes(p, q, p.use, e, p.lost)
  <2>1. q = [p EXCEPT !.use = p.use, !.ev = e, !.lost = p.lost, !.freed = p.freed]
    BY <1>1, <1>2 DEF SetEventual, ListsTyped
  <2> QED
    BY <2>1 DEF Changes
<1>5. Quiet(q, t, S) /\ q.use = p.use /\ q.ev = e /\ q.lost = p.lost
  BY <1>1, <1>3, <1>4, QuietUse
<1>6. QED
  BY <1>2, <1>5

LEMMA QuietDrop ==
  ASSUME NEW t, NEW S, NEW p, Quiet(p, t, S), NEW r, MayTouch(t, S, r),
         NEW q, q = DropEventual(p, r)
  PROVE  Quiet(q, t, S) /\ q.use = p.use /\ q.ev = Without(p.ev, {r}) /\ q.lost = p.lost
<1>1. ListsTyped(p) /\ Calm(p.ev, t, S) /\ Apart(p, p.use, t, S) /\ Within(p.use, t, S)
  BY QuietSame
<1>2. PICK e : e = Without(p.ev, {r})
  OBVIOUS
<1>3. Calm(e, t, S)
  BY <1>1, <1>2, CalmTouch
<1>4. Changes(p, q, p.use, e, p.lost)
  <2>1. q = [p EXCEPT !.use = p.use, !.ev = e, !.lost = p.lost, !.freed = p.freed]
    BY <1>1, <1>2 DEF DropEventual, ListsTyped
  <2> QED
    BY <2>1 DEF Changes
<1>5. Quiet(q, t, S) /\ q.use = p.use /\ q.ev = e /\ q.lost = p.lost
  BY <1>1, <1>3, <1>4, QuietUse
<1>6. QED
  BY <1>2, <1>5

LEMMA QuietMove ==
  ASSUME NEW t, NEW S, NEW p, Quiet(p, t, S), NEW from \in Ours(t, S), from \in DOMAIN p.use,
         NEW to \in Ours(t, S), NEW q, q = Move(p, from, to)
  PROVE  Quiet(q, t, S)
<1>1. ListsTyped(p) /\ Calm(p.ev, t, S) /\ Within(p.use, t, S)
  BY DEF Quiet, Within
<1>2. PICK w, u : w = Without(p.use, {from}) /\ u = With(w, to, p.use[from])
  OBVIOUS
<1>3. /\ \A s : s \in DOMAIN w <=> s \in DOMAIN p.use /\ s # from
      /\ \A s \in DOMAIN p.use : s # from => w[s] = p.use[s]
  BY <1>2, WithoutProperties
<1>4. /\ \A s : s \in DOMAIN u <=> s \in DOMAIN w \/ s = to
      /\ u[to] = p.use[from] /\ \A s \in DOMAIN w : s # to => u[s] = w[s]
  BY <1>2, WithProperties
<1>5. Changes(p, q, u, p.ev, p.lost)
  <2>1. q = [p EXCEPT !.use = u, !.ev = p.ev, !.lost = p.lost, !.freed = p.freed]
    BY <1>1, <1>2 DEF Move, ListsTyped
  <2> QED
    BY <2>1 DEF Changes
<1>6. Apart(p, u, t, S)
  BY <1>3, <1>4 DEF Apart
<1>7. Within(u, t, S)
  BY <1>1, <1>3, <1>4 DEF Within
<1>8. QED
  BY <1>1, <1>5, <1>6, <1>7, QuietUse

LEMMA QuietForget ==
  ASSUME NEW t, NEW S, NEW p, Quiet(p, t, S), NEW slots, slots \subseteq Ours(t, S),
         NEW q, q = Forget(p, slots)
  PROVE  /\ Quiet(q, t, S)
         /\ \A s \in slots : s \in DOMAIN p.use => p.use[s] \in q.lost
         /\ \A s : s \in DOMAIN q.use <=> s \in DOMAIN p.use /\ s \notin slots
         /\ \A s \in DOMAIN p.use : s \notin slots => q.use[s] = p.use[s]
         /\ q.ev = p.ev
<1>1. ListsTyped(p) /\ Calm(p.ev, t, S) /\ Within(p.use, t, S)
  BY DEF Quiet, Within
<1>2. PICK g, u, d : /\ g = slots \cap DOMAIN p.use /\ u = Without(p.use, g)
                     /\ d = p.lost \cup {p.use[s] : s \in g}
  OBVIOUS
<1>3. /\ \A s : s \in DOMAIN u <=> s \in DOMAIN p.use /\ s \notin g
      /\ \A s \in DOMAIN p.use : s \notin g => u[s] = p.use[s]
  BY <1>2, WithoutProperties
<1>4. Changes(p, q, u, p.ev, d)
  <2>1. q = [p EXCEPT !.use = u, !.ev = p.ev, !.lost = d, !.freed = p.freed]
    BY <1>1, <1>2 DEF Forget, ListsTyped
  <2> QED
    BY <2>1 DEF Changes
<1>5. Apart(p, u, t, S)
  BY <1>2, <1>3 DEF Apart
<1>6. Within(u, t, S)
  BY <1>1, <1>3 DEF Within
<1>7. p.lost \subseteq d /\ \A s \in slots : s \in DOMAIN p.use => p.use[s] \in d
  BY <1>2
<1>8. Quiet(q, t, S) /\ q.use = u /\ q.ev = p.ev /\ q.lost = d
  BY <1>1, <1>4, <1>5, <1>6, <1>7, QuietUse
<1>9. QED
  BY <1>2, <1>3, <1>7, <1>8

LEMMA QuietGetReq ==
  ASSUME NEW t, NEW S, NEW p, Quiet(p, t, S), NEW slot \in Ours(t, S),
         NEW q, q = GetReq(p, slot)
  PROVE  /\ Quiet(q, t, S)
         /\ slot \in DOMAIN q.use
         /\ \A s \in DOMAIN p.use : s \in DOMAIN q.use /\ (s # slot => q.use[s] = p.use[s])
<1>1. PICK r : r = Get(p, slot, "req")
  OBVIOUS
<1>2. "req" \in Kinds
  BY DEF Kinds
<1>3. /\ Quiet(r, t, S) /\ slot \in DOMAIN r.use
      /\ \A s \in DOMAIN p.use : s \in DOMAIN r.use /\ (s # slot => r.use[s] = p.use[s])
  BY <1>1, <1>2, QuietGet
<1>4. PICK o : o = r.use[slot]
  OBVIOUS
<1>5. (q = r \/ q = SetEventual(r, o, "unset")) /\ MayTouch(t, S, o)
  BY <1>1, <1>3, <1>4 DEF GetReq, Quiet
<1>6. CASE q = r
  BY <1>3, <1>6
<1>7. CASE q = SetEventual(r, o, "unset")
  <2>1. Quiet(q, t, S) /\ q.use = r.use
    BY <1>3, <1>5, <1>7, QuietSet
  <2> QED
    BY <1>3, <2>1
<1>8. QED
  BY <1>5, <1>6, <1>7

LEMMA QuietWait ==
  ASSUME NEW t, NEW S, NEW p, Quiet(p, t, S), NEW slot \in Ours(t, S), slot \in DOMAIN p.use,
         NEW q, q = Wait(p, slot)
  PROVE  /\ Quiet(q, t, S)
         /\ \A s \in DOMAIN p.use : s # slot => s \in DOMAIN q.use /\ q.use[s] = p.use[s]
<1>1. PICK o, r : o = p.use[slot] /\ r = DropEventual(p, o)
  OBVIOUS
<1>2. MayTouch(t, S, o)
  BY <1>1 DEF Quiet
<1>3. Quiet(r, t, S) /\ r.use = p.use
  <2>1. Quiet(r, t, S) /\ r.use = p.use /\ r.ev = Without(p.ev, {o}) /\ r.lost = p.lost
    <3>1. r = DropEventual(p, o)
      BY <1>1
    <3> QED
      BY <1>2, <3>1, QuietDrop
  <2> QED
    BY <2>1
<1>4. CASE q = r
  BY <1>3, <1>4
<1>5. CASE q = [r EXCEPT !.use = Without(@, {slot}), !.freed = @ \cup {p.use[slot]}]
  <2>1. PICK u, f : u = Without(r.use, {slot}) /\ f = r.freed \cup {p.use[slot]}
    OBVIOUS
  <2>2. ListsTyped(r) /\ Calm(r.ev, t, S) /\ Within(r.use, t, S)
    BY <1>3 DEF Quiet, Within
  <2>3. Changes(r, q, u, r.ev, r.lost)
    <3>1. q = [r EXCEPT !.use = u, !.ev = r.ev, !.lost = r.lost, !.freed = f]
      BY <1>5, <2>1, <2>2 DEF ListsTyped
    <3> QED
      BY <3>1 DEF Changes
  <2>4. /\ \A s : s \in DOMAIN u <=> s \in DOMAIN r.use /\ s # slot
        /\ \A s \in DOMAIN r.use : s # slot => u[s] = r.use[s]
    BY <2>1, WithoutProperties
  <2>5. Apart(r, u, t, S)
    BY <2>4 DEF Apart
  <2>6. Within(u, t, S)
    BY <2>2, <2>4 DEF Within
  <2>7. Quiet(q, t, S) /\ q.use = u
    BY <1>3, <2>2, <2>3, <2>5, <2>6, QuietUse
  <2> QED
    BY <1>3, <2>4, <2>7
<1>6. q = r \/ q = [r EXCEPT !.use = Without(@, {slot}), !.freed = @ \cup {p.use[slot]}]
  BY <1>1 DEF Wait, WaitInternal
<1>7. QED
  BY <1>4, <1>5, <1>6

(***************************************************************************)
(* The end of a call.                                                      *)
(***************************************************************************)
LEMMA OurSlots ==
  ASSUME NEW t, NEW S
  PROVE  /\ Locals(t) \subseteq Ours(t, S)
         /\ \A role \in Roles : Slot(t, role) \in Ours(t, S)
         /\ S \subseteq Ours(t, S)
BY DEF Locals, Ours, AllSlots, OwnSlots, Roles, LocalRoles

LEMMA QuietGiveBack ==
  ASSUME NEW t, NEW S, NEW p, Quiet(p, t, S), NEW role \in {"msg", "mem"},
         call(t).path \in Kinds \/ Slot(t, role) \notin DOMAIN p.use,
         NEW q, q = GiveBack(p, t, role)
  PROVE  /\ Quiet(q, t, S) /\ q.ev = p.ev
         /\ \A s \in DOMAIN p.use :
              s # Slot(t, role) => s \in DOMAIN q.use /\ q.use[s] = p.use[s]
         /\ Slot(t, role) \notin DOMAIN p.use => q = p
<1>1. Slot(t, role) \in Ours(t, S)
  BY OurSlots DEF Roles, LocalRoles
<1>2. CASE Slot(t, role) \in DOMAIN p.use
  <2>1. q = Return(p, Slot(t, role), call(t).path)
    BY <1>2 DEF GiveBack, ReturnMsg
  <2> QED
    BY <1>1, <1>2, <2>1, QuietReturn
<1>3. CASE Slot(t, role) \notin DOMAIN p.use
  BY <1>3 DEF GiveBack
<1>4. QED
  BY <1>2, <1>3

LEMMA QuietLeave ==
  ASSUME NEW t, NEW S, NEW p, Quiet(p, t, S),
         call(t).path \in Kinds \/ \A role \in {"msg", "mem"} : Slot(t, role) \notin DOMAIN p.use,
         NEW q, q = Leave(p, t)
  PROVE  /\ Quiet(q, t, S) /\ q.ev = p.ev
         /\ \A role \in {"ack", "ackreq", "ackop"} :
              Slot(t, role) \in DOMAIN p.use => p.use[Slot(t, role)] \in q.lost
<1>1. PICK a, b : a = GiveBack(p, t, "mem") /\ b = GiveBack(a, t, "msg")
  OBVIOUS
<1>2. /\ Quiet(a, t, S) /\ a.ev = p.ev
      /\ \A s \in DOMAIN p.use :
           s # Slot(t, "mem") => s \in DOMAIN a.use /\ a.use[s] = p.use[s]
      /\ Slot(t, "mem") \notin DOMAIN p.use => a = p
  <2>1. call(t).path \in Kinds \/ Slot(t, "mem") \notin DOMAIN p.use
    OBVIOUS
  <2>2. PICK role \in {"msg", "mem"} : role = "mem"
    OBVIOUS
  <2> QED
    BY <1>1, <2>1, <2>2, QuietGiveBack
<1>3. call(t).path \in Kinds \/ Slot(t, "msg") \notin DOMAIN a.use
  BY <1>2
<1>4. /\ Quiet(b, t, S) /\ b.ev = a.ev
      /\ \A s \in DOMAIN a.use :
           s # Slot(t, "msg") => s \in DOMAIN b.use /\ b.use[s] = a.use[s]
  BY <1>1, <1>2, <1>3, QuietGiveBack
<1>5. q = Forget(b, Locals(t)) /\ Locals(t) \subseteq Ours(t, S)
  BY <1>1, OurSlots DEF Leave
<1>6. /\ Quiet(q, t, S) /\ q.ev = b.ev
      /\ \A s \in Locals(t) : s \in DOMAIN b.use => b.use[s] \in q.lost
  BY <1>4, <1>5, QuietForget
<1>7. ASSUME NEW role \in {"ack", "ackreq", "ackop"}, Slot(t, role) \in DOMAIN p.use
      PROVE  p.use[Slot(t, role)] \in q.lost
  <2>1. /\ Slot(t, role) # Slot(t, "mem") /\ Slot(t, role) # Slot(t, "msg")
        /\ Slot(t, role) \in Locals(t)
    BY DEF Slot, Locals
  <2> QED
    BY <1>2, <1>4, <1>6, <1>7, <2>1
<1>8. QED
  BY <1>2, <1>4, <1>6, <1>7

LEMMA QuietFinish ==
  ASSUME PlaceInv, NEW t \in Threads, ult[t].pc \notin {"idle", "owner"}, NEW S,
         NEW p, Quiet(p, t, S),
         call(t).path \in Kinds \/ \A role \in {"msg", "mem"} : Slot(t, role) \notin DOMAIN p.use,
         NEW status, Finish(t, p, status)
  PROVE  /\ Quiet(pool', t, S)
         /\ \A role \in {"ack", "ackreq", "ackop"} :
              Slot(t, role) \in DOMAIN p.use => p.use[Slot(t, role)] \in pool'.lost
         /\ \A u \in Threads \ {t} : ult'[u] = ult[u]
         /\ pool'.ev = p.ev \/ (/\ call(t).by # "caller"
                               /\ pool'.ev = With(p.ev, Object(t, "req"), status))
<1>1. PICK q : q = Leave(p, t)
  OBVIOUS
<1>2. /\ Quiet(q, t, S) /\ q.ev = p.ev
      /\ \A role \in {"ack", "ackreq", "ackop"} :
           Slot(t, role) \in DOMAIN p.use => p.use[Slot(t, role)] \in q.lost
  BY <1>1, QuietLeave
<1>3. /\ Quiet(pool', t, S) /\ pool'.lost = q.lost
      /\ pool'.ev = q.ev \/ (/\ call(t).by # "caller"
                            /\ pool'.ev = With(q.ev, Object(t, "req"), status))
  <2>1. CASE pool' = q
    BY <1>2, <2>1
  <2>2. CASE pool' = SetEventual(q, Object(t, "req"), status) /\ call(t).by # "caller"
    <3>1. Slot(t, "req") \in DOMAIN pool.use
      BY <2>2 DEF PlaceInv, SlotInv, Has, RequestAt, Roles, call
    <3>2. MayTouch(t, S, Object(t, "req"))
      BY <3>1 DEF MayTouch, Ours, AllSlots, Object
    <3> QED
      BY <1>2, <2>2, <3>2, QuietSet
  <2> QED
    BY <1>1, <2>1, <2>2 DEF Finish
<1>4. \A u \in Threads \ {t} : ult'[u] = ult[u]
  BY DEF Finish, Done, Goto, PlaceInv, UltInv
<1>5. QED
  BY <1>2, <1>3, <1>4

-----------------------------------------------------------------------------
(***************************************************************************)
(* What a step of t leaves alone: the operations that others wait for.     *)
(***************************************************************************)
Mine(t, o) == Waits(t, o) \/ Awaits(t, o) \/ Brought(t, o)

Outer(S) == \A s \in S : s \in Prob \/ s[1] = "pending"

Touched(t, S, o) == Mine(t, o) \/ (Shared(o) /\ S \cap Prob # {})

LEMMA NotOurs ==
  ASSUME NEW t \in Threads, NEW S, Outer(S)
  PROVE  /\ \A u \in Threads \ {t} : \A role \in Roles : Slot(u, role) \notin Ours(t, S)
         /\ \A u \in Threads \ {t} : \A s \in AllSlots(u) : s \notin Ours(t, S)
         /\ S \cap Prob = {} => \A s \in Prob : s \notin Ours(t, S)
<1>1. Rest(S)
  BY PendingRests DEF Outer
<1>2. \A u \in Threads \ {t} : \A role \in Roles : Slot(u, role) \notin Ours(t, S)
  BY <1>1, Slots DEF Rest, Ours, AllSlots, OwnSlots
<1>3. \A u \in Threads \ {t} : \A s \in AllSlots(u) : s \notin Ours(t, S)
  BY <1>2 DEF AllSlots, OwnSlots, Roles
<1>4. \A s \in Prob : s \notin AllSlots(t)
  BY Slots DEF AllSlots, OwnSlots, Roles
<1>5. QED
  BY <1>2, <1>3, <1>4 DEF Ours

LEMMA HeldElsewhere ==
  ASSUME PoolOK(pool), NEW t, NEW S, NEW s \in DOMAIN pool.use, s \notin Ours(t, S)
  PROVE  ~ MayTouch(t, S, pool.use[s])
<1>1. pool.use[s] \in Objects /\ InUse(pool, pool.use[s])
  BY PoolObjects
<1>2. pool.use[s] # Stack(t)
  BY <1>1 DEF Objects, Kinds, Stack
<1>3. \A u \in DOMAIN pool.use : pool.use[u] = pool.use[s] => u = s
  BY DEF PoolOK, OnePlace
<1>4. QED
  BY <1>1, <1>2, <1>3 DEF MayTouch

(***************************************************************************)
(* The slots that the owners of an operation hold.                         *)
(***************************************************************************)
LEMMA OwnersHold ==
  ASSUME PlaceInv, NEW u \in Threads, NEW o
  PROVE  /\ Waits(u, o) => ult[u].pc \in Blocked
         /\ Awaits(u, o) => \A role \in {"ack", "ackop", "ackreq"} :
                              Slot(u, role) \in DOMAIN pool.use
         /\ Brought(u, o) => Slot(u, "req") \in DOMAIN pool.use
BY DEF PlaceInv, SlotInv, Waits, Awaits, Brought, Has, LocalAt, RequestAt, Roles, LocalRoles

LEMMA Untouched ==
  ASSUME PlaceInv, NaInv, NEW t \in Threads, NEW S, Outer(S), NEW o \in na, ~ Touched(t, S, o)
  PROVE  ~ MayTouch(t, S, o.req)
<1>0. PoolOK(pool) /\ Owned(o)
  BY DEF PlaceInv, NaInv
<1>1. ASSUME NEW u \in Threads, Mine(u, o)
      PROVE  ~ MayTouch(t, S, o.req)
  <2>1. u # t
    BY <1>1 DEF Touched
  <2>2. CASE Waits(u, o)
    <3>1. o.req = Stack(u) /\ Stack(u) # Stack(t) /\ Stack(u) \notin Objects
      BY <2>1, <2>2 DEF Waits, Stack, Objects, Kinds
    <3>2. \A s \in DOMAIN pool.use : pool.use[s] \in Objects
      BY <1>0, PoolObjects
    <3> QED
      BY <3>1, <3>2 DEF MayTouch
  <2>3. CASE Awaits(u, o)
    <3>1. Slot(u, "ackreq") \in DOMAIN pool.use /\ o.req = pool.use[Slot(u, "ackreq")]
      BY <2>3, OwnersHold DEF Awaits
    <3>2. Slot(u, "ackreq") \notin Ours(t, S)
      BY <2>1, NotOurs DEF Roles, LocalRoles
    <3> QED
      BY <1>0, <3>1, <3>2, HeldElsewhere
  <2>4. CASE Brought(u, o)
    <3>1. Slot(u, "req") \in DOMAIN pool.use /\ o.req = pool.use[Slot(u, "req")]
      BY <2>4, OwnersHold DEF Brought
    <3>2. Slot(u, "req") \notin Ours(t, S)
      BY <2>1, NotOurs DEF Roles, LocalRoles
    <3> QED
      BY <1>0, <3>1, <3>2, HeldElsewhere
  <2> QED
    BY <1>1, <2>2, <2>3, <2>4 DEF Mine
<1>2. CASE Shared(o)
  <2>1. S \cap Prob = {} /\ ProbReq \in Prob
    BY <1>2 DEF Touched, Prob
  <2>2. ProbReq \in DOMAIN pool.use /\ o.req = pool.use[ProbReq]
    BY <1>2, <2>1 DEF Shared
  <2>3. ProbReq \notin Ours(t, S)
    BY <2>1, NotOurs
  <2> QED
    BY <1>0, <2>2, <2>3, HeldElsewhere
<1>3. CASE Gone(o)
  <2>1. o.req \in pool.lost /\ o.req \in Objects /\ o.req # Stack(t)
    BY <1>0, <1>3, PoolObjects DEF Gone, Objects, Kinds, Stack
  <2>2. ~ InUse(pool, o.req)
    BY <1>0, <2>1 DEF PoolOK, OnePlace
  <2> QED
    BY <2>1, <2>2 DEF MayTouch, InUse
<1>4. QED
  BY <1>0, <1>1, <1>2, <1>3 DEF Owned, Mine

LEMMA OthersKept ==
  ASSUME PlaceInv, NaInv, NEW t \in Threads, NEW S, Outer(S), Quiet(pool', t, S),
         \A u \in Threads \ {t} : ult'[u] = ult[u],
         NEW o \in na, ~ Touched(t, S, o)
  PROVE  Pends(o)' /\ Owned(o)'
<1>1. ~ MayTouch(t, S, o.req)
  BY Untouched
<1>2. Pends(o)'
  BY <1>1 DEF NaInv, Pends, Quiet, Calm
<1>3. SameBut(pool, pool', Ours(t, S)) /\ Owned(o)
  BY DEF Quiet, NaInv
<1>4. ASSUME NEW u \in Threads, Mine(u, o)
      PROVE  Mine(u, o)'
  <2>1. u # t /\ ult'[u] = ult[u]
    BY <1>4 DEF Touched
  <2>2. /\ \A s \in AllSlots(u) : s \in DOMAIN pool'.use <=> s \in DOMAIN pool.use
        /\ \A s \in AllSlots(u) : s \in DOMAIN pool.use => pool'.use[s] = pool.use[s]
    BY <1>3, <2>1, NotOurs DEF SameBut
  <2>3. \A role \in Roles : Slot(u, role) \in AllSlots(u)
    BY DEF AllSlots, OwnSlots, Roles
  <2>4. CASE Waits(u, o)
    <3>1. Slot(u, "op") \in AllSlots(u) /\ OwnSlots(u) \subseteq AllSlots(u)
      BY <2>3 DEF Roles, LocalRoles, AllSlots
    <3>2. Waits(u, o)'
      BY <2>2, <2>4, <3>1 DEF Waits
    <3> QED
      BY <3>2 DEF Mine
  <2>5. CASE Awaits(u, o)
    <3>1. \A role \in {"ack", "ackop", "ackreq"} :
            pool'.use[Slot(u, role)] = pool.use[Slot(u, role)]
      BY <2>2, <2>3, <2>5, OwnersHold DEF Roles, LocalRoles
    <3>2. Awaits(u, o)'
      BY <2>1, <2>5, <3>1 DEF Awaits
    <3> QED
      BY <3>2 DEF Mine
  <2>6. CASE Brought(u, o)
    <3>1. pool'.use[Slot(u, "req")] = pool.use[Slot(u, "req")]
      BY <2>2, <2>3, <2>6, OwnersHold DEF Roles
    <3>2. Brought(u, o)'
      BY <2>1, <2>6, <3>1 DEF Brought
    <3> QED
      BY <3>2 DEF Mine
  <2> QED
    BY <1>4, <2>4, <2>5, <2>6 DEF Mine
<1>5. CASE Shared(o)
  <2>1. S \cap Prob = {}
    BY <1>5 DEF Touched
  <2>2. \A s \in Prob : s \notin Ours(t, S)
    BY <2>1, NotOurs
  <2>3. \A s \in Prob : s \in DOMAIN pool'.use /\ pool'.use[s] = pool.use[s]
    BY <1>3, <1>5, <2>2 DEF SameBut, Shared
  <2>4. Shared(o)'
    BY <1>5, <2>3 DEF Shared, Prob, ProbMsg, ProbId, ProbReq
  <2> QED
    BY <1>2, <2>4 DEF Owned
<1>6. CASE Gone(o)
  <2>1. Gone(o)'
    BY <1>3, <1>6 DEF Gone, SameBut
  <2> QED
    BY <1>2, <2>1 DEF Owned
<1>7. QED
  BY <1>2, <1>3, <1>4, <1>5, <1>6 DEF Owned, Mine

(***************************************************************************)
(* A step of t has touched nothing but its own, and the shared receive     *)
(* only when it posts or reaps it.                                         *)
(***************************************************************************)
Calmly(t) ==
  /\ \A u \in Threads \ {t} : ult'[u] = ult[u]
  /\ \E S : /\ Outer(S) /\ Quiet(pool', t, S)
            /\ S \cap Prob = {} \/ ~ prob_active \/ ~ prob_active'

(***************************************************************************)
(* A step of t that hands NA nothing, and one that hands it new.           *)
(***************************************************************************)
LEMMA NaSame ==
  ASSUME PlaceInv, NaInv, NEW t \in Threads, NEW S, Outer(S), Quiet(pool', t, S),
         S \cap Prob = {} \/ ~ prob_active \/ ~ prob_active',
         \A u \in Threads \ {t} : ult'[u] = ult[u], na' = na,
         \A o \in na : Touched(t, S, o) => Pends(o)' /\ Owned(o)'
  PROVE  NaInv' /\ Calmly(t)
<1>1. \A o \in na : Pends(o)' /\ Owned(o)'
  BY OthersKept
<1>2. QED
  BY <1>1 DEF NaInv, Calmly

LEMMA NaGrows ==
  ASSUME PlaceInv, NaInv, NEW t \in Threads, NEW S, Outer(S), Quiet(pool', t, S),
         S \cap Prob = {} \/ ~ prob_active \/ ~ prob_active',
         \A u \in Threads \ {t} : ult'[u] = ult[u], NEW new, na' = na \cup {new},
         MayTouch(t, S, new.req), Pends(new)' /\ Owned(new)',
         \A o \in na : Touched(t, S, o) => Pends(o)' /\ Owned(o)' /\ o.req # new.req
  PROVE  NaInv' /\ Calmly(t)
<1>1. \A o \in na : Pends(o)' /\ Owned(o)'
  BY OthersKept
<1>2. \A o \in na : o.req # new.req
  BY Untouched
<1>3. QED
  BY <1>1, <1>2 DEF NaInv, Calmly

(***************************************************************************)
(* Where t waits for nothing, or for what is over.                         *)
(***************************************************************************)
LEMMA NoneMine ==
  ASSUME PlaceInv, NaInv, NEW t \in Threads, NEW o \in na,
         ult[t].pc \in Blocked => IsSet(Stack(t)),
         ult[t].pc \in Handing => IsSet(Object(t, "ackreq")),
         ult[t].pc = "owner" => IsSet(Object(t, "req"))
  PROVE  ~ Mine(t, o)
<1>1. Pends(o)
  BY DEF NaInv
<1>2. ~ IsSet(o.req)
  BY <1>1 DEF Pends, IsSet, Value
<1>3. ~ Waits(t, o)
  BY <1>2, OwnersHold DEF Waits
<1>4. ~ Awaits(t, o) /\ ~ Brought(t, o)
  BY <1>2 DEF Awaits, Brought, Object
<1>5. QED
  BY <1>3, <1>4 DEF Mine

LEMMA WentOthers ==
  ASSUME PlaceInv, NEW t \in Threads, NEW l, Goto(t, l)
  PROVE  ult'[t].pc = l /\ \A u \in Threads \ {t} : ult'[u] = ult[u]
BY GotoIs DEF PlaceInv, UltInv, Went

LEMMA NotTouched ==
  ASSUME PlaceInv, NaInv, NEW t \in Threads, NEW o \in na,
         ult[t].pc \in Blocked => IsSet(Stack(t)),
         ult[t].pc \in Handing => IsSet(Object(t, "ackreq")),
         ult[t].pc = "owner" => IsSet(Object(t, "req"))
  PROVE  ~ Touched(t, {}, o) /\ ~ Mine(t, o)
BY NoneMine DEF Touched

LEMMA NothingOuter == Outer({}) /\ {} \cap Prob = {}
BY DEF Outer

(***************************************************************************)
(* A call that ends.                                                       *)
(***************************************************************************)
PathOK(t, p) ==
  call(t).path \in Kinds \/ \A role \in {"msg", "mem"} : Slot(t, role) \notin DOMAIN p.use

LEMMA PathsOK ==
  ASSUME PlaceInv, NEW t \in Threads, ult[t].pc # "idle",
         call(t).op \in {"send", "recv", "probe"}
  PROVE  call(t).path \in Kinds /\ \A p : PathOK(t, p)
BY CallOf DEF PathOK, Kinds

LEMMA FinishNa ==
  ASSUME PlaceInv, NaInv, NEW t \in Threads, ult[t].pc \notin {"idle", "owner"},
         NEW S, Outer(S), S \cap Prob = {} \/ ~ prob_active \/ ~ prob_active',
         NEW p, Quiet(p, t, S), PathOK(t, p), NEW status, Finish(t, p, status),
         na' = na, \A o \in na : ~ Touched(t, S, o)
  PROVE  NaInv' /\ Calmly(t)
<1>1. Quiet(pool', t, S) /\ \A u \in Threads \ {t} : ult'[u] = ult[u]
  BY QuietFinish DEF PathOK
<1>2. QED
  BY <1>1, NaSame

(***************************************************************************)
(* A call that starts a blocking operation on what it holds.               *)
(***************************************************************************)
HeldBuffer(t, p, buf) ==
  \/ buf = NoBuffer
  \/ \E role \in LocalRoles \ {"op"} :
       Slot(t, role) \in DOMAIN p.use /\ buf = p.use[Slot(t, role)]

LEMMA BlockNa ==
  ASSUME PlaceInv, NaInv, NEW t \in Threads, NEW p, Quiet(p, t, {}),
         NEW buf, HeldBuffer(t, p, buf), NEW l, StartBlocking(t, p, buf, l),
         \A o \in na : Mine(t, o) => Pends(o)' /\ Owned(o)' /\ o.req # Stack(t)
  PROVE  NaInv' /\ Calmly(t)
<1>1. PICK q, id : q = Get(p, Slot(t, "op"), "op") /\ id = q.use[Slot(t, "op")]
  OBVIOUS
<1>2. Slot(t, "op") \in Ours(t, {}) /\ "op" \in Kinds
  BY OurSlots DEF Roles, LocalRoles, Kinds
<1>3. /\ Quiet(q, t, {}) /\ Slot(t, "op") \in DOMAIN q.use
      /\ \A s \in DOMAIN p.use :
           s \in DOMAIN q.use /\ (s # Slot(t, "op") => q.use[s] = p.use[s])
  BY <1>1, <1>2, QuietGet
<1>4. \A u \in Threads \ {t} : ult'[u] = ult[u]
  BY WentOthers DEF StartBlocking
<1>5. MayTouch(t, {}, Stack(t)) /\ \A o : Touched(t, {}, o) <=> Mine(t, o)
  BY DEF MayTouch, Touched
<1>6. CASE pool' = SetEventual(q, Stack(t), "error") /\ na' = na
  <2>1. Quiet(pool', t, {})
    BY <1>3, <1>5, <1>6, QuietSet
  <2> QED
    BY <1>4, <1>5, <1>6, <2>1, NaSame, NothingOuter
<1>7. CASE /\ pool' = SetEventual(q, Stack(t), "unset")
           /\ na' = na \cup {Operation(id, buf, Stack(t))}
  <2>1. Quiet(pool', t, {}) /\ pool'.use = q.use /\ pool'.ev = With(q.ev, Stack(t), "unset")
    BY <1>3, <1>5, <1>7, QuietSet
  <2>2. PICK new : new = Operation(id, buf, Stack(t))
    OBVIOUS
  <2>3. new.op = id /\ new.buf = buf /\ new.req = Stack(t)
    BY <2>2 DEF Operation
  <2>4. Pends(new)'
    BY <2>1, <2>3, WithProperties DEF Pends
  <2>5. new.buf = NoBuffer \/ \E s \in OwnSlots(t) : s \in DOMAIN pool'.use /\ new.buf = pool'.use[s]
    <3>1. CASE buf = NoBuffer
      BY <2>3, <3>1
    <3>2. CASE buf # NoBuffer
      <4>1. PICK role \in LocalRoles \ {"op"} :
              Slot(t, role) \in DOMAIN p.use /\ buf = p.use[Slot(t, role)]
        BY <3>2 DEF HeldBuffer
      <4>2. Slot(t, role) # Slot(t, "op") /\ Slot(t, role) \in OwnSlots(t)
        BY <4>1 DEF Slot, OwnSlots
      <4> QED
        BY <1>3, <2>1, <2>3, <4>1, <4>2
    <3> QED
      BY <3>1, <3>2
  <2>6. Waits(t, new)'
    BY <1>1, <1>3, <2>1, <2>3, <2>5 DEF Waits, Stack, Slot, NoBuffer, OwnSlots
  <2>7. Owned(new)'
    BY <2>6 DEF Owned
  <2> QED
    BY <1>4, <1>5, <1>7, <2>1, <2>2, <2>3, <2>4, <2>7, NaGrows, NothingOuter
<1>8. QED
  BY <1>1, <1>6, <1>7 DEF StartBlocking, GetOpId

(***************************************************************************)
(* A call that goes on after one.                                          *)
(***************************************************************************)
LEMMA QuietAfter ==
  ASSUME PlaceInv, NEW t \in Threads, ult[t].pc \in Blocked,
         NEW q, q = AfterBlocking(t)
  PROVE  /\ Quiet(q, t, {})
         /\ \A s \in DOMAIN pool.use :
              s # Slot(t, "op") => s \in DOMAIN q.use /\ q.use[s] = pool.use[s]
         /\ q.ev = Without(pool.ev, {Stack(t)})
<1>1. PICK r : r = DropEventual(pool, Stack(t))
  OBVIOUS
<1>2. Quiet(pool, t, {}) /\ MayTouch(t, {}, Stack(t))
  BY QuietFirst DEF PlaceInv, MayTouch
<1>3. Quiet(r, t, {}) /\ r.use = pool.use /\ r.ev = Without(pool.ev, {Stack(t)})
  BY <1>1, <1>2, QuietDrop
<1>4. Slot(t, "op") \in Ours(t, {}) /\ Slot(t, "op") \in DOMAIN r.use /\ "op" \in Kinds
  <2>1. "op" \in Roles /\ Has(ult[t], "op")
    BY DEF Roles, LocalRoles, Has, LocalAt
  <2> QED
    BY <1>3, <2>1, OurSlots DEF PlaceInv, SlotInv, Kinds
<1>5. q = Return(r, Slot(t, "op"), "op")
  BY <1>1 DEF AfterBlocking, ReturnOpId, WaitInternal
<1>6. QED
  BY <1>3, <1>4, <1>5, QuietReturn

LEMMA OverNa ==
  ASSUME PlaceInv, NaInv, NEW t \in Threads, ult[t].pc \in Blocked \ Handing, IsSet(Stack(t)),
         PathOK(t, AfterBlocking(t)) \/ ult[t].pc # "oper", na' = na,
         \/ \E status : Finish(t, AfterBlocking(t), status)
         \/ \E l : pool' = AfterBlocking(t) /\ Goto(t, l)
  PROVE  NaInv' /\ Calmly(t)
<1>1. ult[t].pc \notin {"idle", "owner"}
  BY DEF Blocked
<1>2. \A o \in na : ~ Touched(t, {}, o)
  BY <1>1, NotTouched
<1>3. PICK q : q = AfterBlocking(t)
  OBVIOUS
<1>4. Quiet(q, t, {})
  BY <1>3, QuietAfter
<1>5. PathOK(t, q)
  <2>1. CASE ult[t].pc # "oper"
    <3>1. call(t).op \in {"send", "recv", "probe"}
      BY <2>1 DEF PlaceInv, UltInv, Fitting, Blocked, Handing, call
    <3> QED
      BY <1>1, <3>1, PathsOK
  <2> QED
    BY <1>3, <2>1
<1>6. CASE \E status : Finish(t, AfterBlocking(t), status)
  BY <1>1, <1>2, <1>3, <1>4, <1>5, <1>6, FinishNa, NothingOuter
<1>7. CASE \E l : pool' = AfterBlocking(t) /\ Goto(t, l)
  <2>1. \A u \in Threads \ {t} : ult'[u] = ult[u]
    BY <1>7, WentOthers
  <2> QED
    BY <1>2, <1>3, <1>4, <1>7, <2>1, NaSame, NothingOuter
<1>8. QED
  BY <1>6, <1>7

-----------------------------------------------------------------------------
(***************************************************************************)
(* The steps of a call, one after the other.                               *)
(***************************************************************************)
LEMMA Apart0 ==
  ASSUME PlaceInv, NaInv, NEW t \in Threads, ult[t].pc \notin Blocked \cup Handing \cup {"owner"}
  PROVE  /\ \A o \in na : ~ Touched(t, {}, o) /\ ~ Mine(t, o)
         /\ Quiet(pool, t, {})
<1>1. Quiet(pool, t, {})
  BY QuietFirst DEF PlaceInv
<1>2. QED
  BY <1>1, NotTouched

LEMMA StartNa ==
  ASSUME PlaceInv, NaInv, NEW t \in Threads, ult[t].pc \notin Blocked \cup Handing \cup {"owner"},
         NEW p, Quiet(p, t, {}), NEW buf, HeldBuffer(t, p, buf), NEW l, StartBlocking(t, p, buf, l)
  PROVE  NaInv' /\ Calmly(t)
BY Apart0, BlockNa

LEMMA FailNa ==
  ASSUME PlaceInv, NaInv, NEW t \in Threads,
         ult[t].pc \notin Blocked \cup Handing \cup {"idle", "owner"},
         call(t).op \in {"send", "recv", "probe"}, na' = na,
         NEW p, Quiet(p, t, {}), NEW status, Finish(t, p, status)
  PROVE  NaInv' /\ Calmly(t)
<1>1. PathOK(t, p)
  BY PathsOK
<1>2. \A o \in na : ~ Touched(t, {}, o)
  BY Apart0
<1>3. QED
  BY <1>1, <1>2, FinishNa, NothingOuter

LEMMA OperNa ==
  ASSUME PlaceInv, NaInv, NEW t \in Threads, Oper(t)
  PROVE  NaInv' /\ Calmly(t)
<1>1. ult[t].pc = "begin" /\ StartBlocking(t, pool, NoBuffer, "oper")
  BY DEF Oper, At
<1>2. ult[t].pc \notin Blocked \cup Handing \cup {"owner"}
  BY <1>1 DEF Blocked, Handing
<1>3. Quiet(pool, t, {}) /\ HeldBuffer(t, pool, NoBuffer)
  BY <1>2, Apart0 DEF HeldBuffer
<1>4. QED
  BY <1>1, <1>2, <1>3, StartNa

LEMMA OperOverNa ==
  ASSUME PlaceInv, NaInv, NEW t \in Threads, OperOver(t)
  PROVE  NaInv' /\ Calmly(t)
<1>1. /\ ult[t].pc = "oper" /\ IsSet(Stack(t)) /\ na' = na
      /\ Finish(t, AfterBlocking(t), Value(Stack(t)))
  BY DEF OperOver, At, BlockingOver
<1>2. ult[t].pc \in Blocked \ Handing
  BY <1>1 DEF Blocked, Handing
<1>3. PathOK(t, AfterBlocking(t))
  <2>1. Reached(pool, t, {"op"}, {})
    BY <1>1, ReachedAt DEF LocalAt, Blocked, Handing, LocalRoles
  <2>2. Reached(AfterBlocking(t), t, {"op"} \ {"op"}, {})
    BY <2>1, Unblocks
  <2> QED
    BY <2>2 DEF Reached, PathOK, LocalRoles
<1>4. QED
  BY <1>1, <1>2, <1>3, OverNa

LEMMA SendSmallNa ==
  ASSUME PlaceInv, NaInv, NEW t \in Threads, SendSmall(t)
  PROVE  NaInv' /\ Calmly(t)
<1>1. PICK p : p = GetMsg(pool, Slot(t, "msg"), call(t).path)
  OBVIOUS
<1>2. /\ ult[t].pc = "begin" /\ call(t).op = "send"
      /\ \/ StartBlocking(t, p, p.use[Slot(t, "msg")], "sending")
         \/ Finish(t, p, "error") /\ na' = na
  BY <1>1 DEF SendSmall, At
<1>3. ult[t].pc \notin Blocked \cup Handing \cup {"idle", "owner"}
  BY <1>2 DEF Blocked, Handing
<1>4. call(t).path \in Kinds /\ Slot(t, "msg") \in Ours(t, {})
  BY <1>2, PathsOK, OurSlots DEF Roles, LocalRoles
<1>5. Quiet(p, t, {}) /\ Slot(t, "msg") \in DOMAIN p.use
  BY <1>1, <1>3, <1>4, Apart0, QuietGet DEF GetMsg
<1>6. HeldBuffer(t, p, p.use[Slot(t, "msg")])
  BY <1>5 DEF HeldBuffer, LocalRoles
<1>7. QED
  BY <1>2, <1>3, <1>5, <1>6, StartNa, FailNa

LEMMA SentNa ==
  ASSUME PlaceInv, NaInv, NEW t \in Threads, Sent(t)
  PROVE  NaInv' /\ Calmly(t)
<1>1. /\ ult[t].pc = "sending" /\ IsSet(Stack(t)) /\ na' = na
      /\ Finish(t, AfterBlocking(t), Value(Stack(t)))
  BY DEF Sent, At, BlockingOver
<1>2. ult[t].pc \in Blocked \ Handing /\ ult[t].pc # "oper"
  BY <1>1 DEF Blocked, Handing
<1>3. QED
  BY <1>1, <1>2, OverNa

LEMMA ReceivedNa ==
  ASSUME PlaceInv, NaInv, NEW t \in Threads, Received(t) \/ Fetched(t)
  PROVE  NaInv' /\ Calmly(t)
<1>1. /\ ult[t].pc \in {"receiving", "getting"} /\ IsSet(Stack(t)) /\ na' = na
      /\ \/ Finish(t, AfterBlocking(t), "error")
         \/ \E l : pool' = AfterBlocking(t) /\ Goto(t, l)
  BY DEF Received, Fetched, At, BlockingOver
<1>2. ult[t].pc \in Blocked \ Handing /\ ult[t].pc # "oper"
  BY <1>1 DEF Blocked, Handing
<1>3. QED
  BY <1>1, <1>2, OverNa

LEMMA RecvNa ==
  ASSUME PlaceInv, NaInv, NEW t \in Threads, Recv(t)
  PROVE  NaInv' /\ Calmly(t)
<1>1. PICK p : p = Get(pool, Slot(t, "msg"), "expected")
  OBVIOUS
<1>2. /\ ult[t].pc = "begin"
      /\ StartBlocking(t, p, p.use[Slot(t, "msg")], "receiving")
  BY <1>1 DEF Recv, At, GetMsg
<1>3. ult[t].pc \notin Blocked \cup Handing \cup {"owner"}
  BY <1>2 DEF Blocked, Handing
<1>4. "expected" \in Kinds /\ Slot(t, "msg") \in Ours(t, {})
  BY OurSlots DEF Roles, LocalRoles, Kinds
<1>5. Quiet(p, t, {}) /\ Slot(t, "msg") \in DOMAIN p.use
  BY <1>1, <1>3, <1>4, Apart0, QuietGet
<1>6. HeldBuffer(t, p, p.use[Slot(t, "msg")])
  BY <1>5 DEF HeldBuffer, LocalRoles
<1>7. QED
  BY <1>2, <1>3, <1>5, <1>6, StartNa

LEMMA CopySmallNa ==
  ASSUME PlaceInv, NaInv, NEW t \in Threads, CopySmall(t)
  PROVE  NaInv' /\ Calmly(t)
<1>1. ult[t].pc = "got" /\ Finish(t, pool, "ok") /\ na' = na
  BY DEF CopySmall, At
<1>2. /\ ult[t].pc \notin Blocked \cup Handing \cup {"idle", "owner"}
      /\ call(t).op \in {"send", "recv", "probe"}
  BY <1>1 DEF Blocked, Handing, PlaceInv, UltInv, Fitting, call
<1>3. QED
  BY <1>1, <1>2, Apart0, FailNa

LEMMA GetLargeNa ==
  ASSUME PlaceInv, NaInv, NEW t \in Threads, GetLarge(t)
  PROVE  NaInv' /\ Calmly(t)
<1>1. /\ ult[t].pc = "got"
      /\ \/ StartBlocking(t, pool, NoBuffer, "getting")
         \/ Goto(t, "acknowledge") /\ pool' = pool /\ na' = na
         \/ Finish(t, pool, "error") /\ na' = na
  BY DEF GetLarge, At
<1>2. /\ ult[t].pc \notin Blocked \cup Handing \cup {"idle", "owner"}
      /\ call(t).op \in {"send", "recv", "probe"}
  BY <1>1 DEF Blocked, Handing, PlaceInv, UltInv, Fitting, call
<1>3. Quiet(pool, t, {}) /\ HeldBuffer(t, pool, NoBuffer) /\ \A o \in na : ~ Touched(t, {}, o)
  BY <1>2, Apart0 DEF HeldBuffer
<1>4. CASE StartBlocking(t, pool, NoBuffer, "getting")
  BY <1>2, <1>3, <1>4, StartNa
<1>5. CASE Goto(t, "acknowledge") /\ pool' = pool /\ na' = na
  BY <1>3, <1>5, WentOthers, NaSame, NothingOuter
<1>6. CASE Finish(t, pool, "error") /\ na' = na
  BY <1>2, <1>3, <1>6, FailNa
<1>7. QED
  BY <1>1, <1>4, <1>5, <1>6

LEMMA AcknowledgeNa ==
  ASSUME PlaceInv, NaInv, NEW t \in Threads, Acknowledge(t)
  PROVE  NaInv' /\ Calmly(t)
<1>1. /\ ult[t].pc = "acknowledge"
      /\ \/ StartBlocking(t, pool, Object(t, "msg"), "sending")
         \/ Finish(t, pool, "error") /\ na' = na
  BY DEF Acknowledge, At
<1>2. /\ ult[t].pc \notin Blocked \cup Handing \cup {"idle", "owner"}
      /\ call(t).op \in {"send", "recv", "probe"}
  BY <1>1 DEF Blocked, Handing, PlaceInv, UltInv, Fitting, call
<1>3. Quiet(pool, t, {})
  BY <1>2, Apart0
<1>4. HeldBuffer(t, pool, Object(t, "msg"))
  <2>1. Slot(t, "msg") \in DOMAIN pool.use
    BY <1>1 DEF PlaceInv, SlotInv, Has, LocalAt, Roles, LocalRoles
  <2> QED
    BY <2>1 DEF HeldBuffer, Object, LocalRoles
<1>5. CASE StartBlocking(t, pool, Object(t, "msg"), "sending")
  BY <1>2, <1>3, <1>4, <1>5, StartNa
<1>6. CASE Finish(t, pool, "error") /\ na' = na
  BY <1>2, <1>3, <1>6, FailNa
<1>7. QED
  BY <1>1, <1>5, <1>6

LEMMA ClaimNa ==
  ASSUME PlaceInv, NaInv, NEW t \in Threads, Claim(t)
  PROVE  NaInv' /\ Calmly(t)
<1>1. ult[t].pc = "begin" /\ Goto(t, "listen") /\ pool' = pool /\ na' = na
  BY DEF Claim, WantsMessage, At
<1>2. ult[t].pc \notin Blocked \cup Handing \cup {"owner"}
  BY <1>1 DEF Blocked, Handing
<1>3. Quiet(pool, t, {}) /\ \A o \in na : ~ Touched(t, {}, o)
  BY <1>2, Apart0
<1>4. QED
  BY <1>1, <1>3, WentOthers, NaSame, NothingOuter

LEMMA StopListeningNa ==
  ASSUME PlaceInv, NaInv, NEW t \in Threads, StopListening(t)
  PROVE  NaInv' /\ Calmly(t)
<1>1. ult[t].pc = "listening" /\ call(t).op = "probe" /\ Finish(t, pool, "ok") /\ na' = na
  BY DEF StopListening, At
<1>2. ult[t].pc \notin Blocked \cup Handing \cup {"idle", "owner"}
  BY <1>1 DEF Blocked, Handing
<1>3. QED
  BY <1>1, <1>2, Apart0, FailNa

(***************************************************************************)
(* The handle of a large message: the receive for the acknowledgement is   *)
(* with NA all the while.                                                  *)
(***************************************************************************)
LEMMA StartedPool ==
  ASSUME NEW t, NEW p, Quiet(p, t, {}), NEW buf, NEW l, StartBlocking(t, p, buf, l)
  PROVE  /\ \E v : pool'.ev = With(p.ev, Stack(t), v)
         /\ \A s \in DOMAIN p.use :
              s # Slot(t, "op") => s \in DOMAIN pool'.use /\ pool'.use[s] = p.use[s]
<1>1. PICK q : q = Get(p, Slot(t, "op"), "op")
  OBVIOUS
<1>2. Slot(t, "op") \in Ours(t, {}) /\ "op" \in Kinds
  BY OurSlots DEF Roles, LocalRoles, Kinds
<1>3. /\ Quiet(q, t, {}) /\ q.ev = p.ev
      /\ \A s \in DOMAIN p.use :
           s \in DOMAIN q.use /\ (s # Slot(t, "op") => q.use[s] = p.use[s])
  BY <1>1, <1>2, QuietGet
<1>4. PICK v : pool' = SetEventual(q, Stack(t), v)
  BY <1>1 DEF StartBlocking, GetOpId
<1>5. MayTouch(t, {}, Stack(t))
  BY DEF MayTouch
<1>6. pool'.use = q.use /\ pool'.ev = With(q.ev, Stack(t), v)
  BY <1>3, <1>4, <1>5, QuietSet
<1>7. QED
  BY <1>3, <1>6

LEMMA AckSlots ==
  ASSUME PlaceInv, NEW t \in Threads, ult[t].pc \in Handing
  PROVE  /\ \A role \in {"ack", "ackop", "ackreq", "mem"} :
              /\ Slot(t, role) \in DOMAIN pool.use
              /\ pool.use[Slot(t, role)] \in Objects
              /\ pool.use[Slot(t, role)] # Stack(t)
              /\ Slot(t, role) # Slot(t, "op")
         /\ call(t).path \in Kinds
         /\ ult[t].pc \notin {"idle", "owner"}
<1>1. \A role \in {"ack", "ackop", "ackreq", "mem"} :
        Slot(t, role) \in DOMAIN pool.use /\ Slot(t, role) # Slot(t, "op")
  BY DEF PlaceInv, SlotInv, Has, LocalAt, Roles, LocalRoles, Slot
<1>2. \A s \in DOMAIN pool.use : pool.use[s] \in Objects /\ pool.use[s] # Stack(t)
  BY PoolObjects DEF PlaceInv, Objects, Kinds, Stack
<1>3. ult[t].pc \notin {"idle", "owner"}
  BY DEF Handing
<1>4. call(t).op = "send"
  BY DEF PlaceInv, UltInv, Fitting, call
<1>5. call(t).path \in Kinds
  BY <1>3, <1>4, PathsOK
<1>6. QED
  BY <1>1, <1>2, <1>3, <1>5

LEMMA SendHandleNa ==
  ASSUME PlaceInv, NaInv, NEW t \in Threads, SendHandle(t)
  PROVE  NaInv' /\ Calmly(t)
<1>1. ult[t].pc = "handle" /\ StartBlocking(t, pool, Object(t, "mem"), "handlesent")
  BY DEF SendHandle, At
<1>2. ult[t].pc \in Handing /\ ult[t].pc \notin Blocked \cup {"owner"}
  BY <1>1 DEF Handing, Blocked
<1>3. Quiet(pool, t, {}) /\ HeldBuffer(t, pool, Object(t, "mem"))
  BY <1>2, QuietFirst, AckSlots DEF PlaceInv, HeldBuffer, Object, LocalRoles
<1>4. /\ \E v : pool'.ev = With(pool.ev, Stack(t), v)
      /\ \A s \in DOMAIN pool.use :
           s # Slot(t, "op") => s \in DOMAIN pool'.use /\ pool'.use[s] = pool.use[s]
  BY <1>1, <1>3, StartedPool
<1>5. ult'[t].pc \in Handing
  BY <1>1, WentOthers DEF StartBlocking, Handing
<1>6. ASSUME NEW o \in na, Mine(t, o)
      PROVE  Pends(o)' /\ Owned(o)' /\ o.req # Stack(t)
  <2>1. Awaits(t, o)
    BY <1>2, <1>6, OwnersHold DEF Mine, Brought
  <2>2. o.req # Stack(t)
    BY <1>2, <2>1, AckSlots DEF Awaits
  <2>3. Pends(o)'
    BY <1>4, <2>2, WithProperties DEF NaInv, Pends
  <2>4. \A role \in {"ack", "ackop", "ackreq"} : pool'.use[Slot(t, role)] = pool.use[Slot(t, role)]
    BY <1>2, <1>4, AckSlots
  <2>5. Awaits(t, o)'
    BY <1>5, <2>1, <2>4 DEF Awaits
  <2> QED
    BY <2>2, <2>3, <2>5 DEF Owned
<1>7. QED
  BY <1>1, <1>3, <1>6, BlockNa

(***************************************************************************)
(* NA is asked to cancel.                                                  *)
(***************************************************************************)
LEMMA CancelNa ==
  ASSUME NaTyped, NaInv, NEW id, Cancel(id),
         \A o \in na :
           /\ Pends(o)'
           /\ \/ Owned(o)'
              \/ /\ o.op = id /\ o.req \in pool'.lost
                 /\ o.buf \in pool'.lost \cup {NoBuffer}
  PROVE  NaInv'
<1>1. ASSUME NEW n \in na'
      PROVE  \E o \in na :
               /\ n = IF o.op = id THEN [o EXCEPT !.cancelled = TRUE] ELSE o
               /\ n.req = o.req /\ n.op = o.op /\ n.buf = o.buf
               /\ n.cancelled = o.cancelled \/ n.cancelled = TRUE
               /\ o.op = id => n.cancelled = TRUE
  <2>1. PICK o \in na : n = IF o.op = id THEN [o EXCEPT !.cancelled = TRUE] ELSE o
    BY <1>1 DEF Cancel
  <2>2. o \in NaOperations
    BY DEF NaTyped
  <2>3. /\ n.req = o.req /\ n.op = o.op /\ n.buf = o.buf
        /\ n.cancelled = o.cancelled \/ n.cancelled = TRUE
        /\ o.op = id => n.cancelled = TRUE
    BY <2>1, <2>2 DEF NaOperations
  <2> QED
    BY <2>1, <2>3
<1>2. ASSUME NEW n \in na' PROVE Pends(n)' /\ Owned(n)'
  <2>1. PICK o \in na :
          /\ n.req = o.req /\ n.op = o.op /\ n.buf = o.buf
          /\ n.cancelled = o.cancelled \/ n.cancelled = TRUE
          /\ o.op = id => n.cancelled = TRUE
    BY <1>1
  <2>2. Pends(n)'
    BY <2>1 DEF Pends
  <2>3. CASE Owned(o)'
    <3>1. \A u \in Threads : (Waits(u, o)' => Waits(u, n)') /\ (Awaits(u, o)' => Awaits(u, n)')
                             /\ (Brought(u, o)' => Brought(u, n)')
      BY <2>1 DEF Waits, Awaits, Brought
    <3>2. Shared(o)' => Shared(n)'
      BY <2>1 DEF Shared
    <3>3. Gone(o)' => Gone(n)'
      BY <2>1 DEF Gone
    <3> QED
      BY <2>2, <2>3, <3>1, <3>2, <3>3 DEF Owned
  <2>4. CASE o.op = id /\ o.req \in pool'.lost /\ o.buf \in pool'.lost \cup {NoBuffer}
    BY <2>1, <2>2, <2>4 DEF Gone, Owned
  <2> QED
    BY <2>2, <2>3, <2>4
<1>3. ASSUME NEW n \in na', NEW m \in na', n.req = m.req PROVE n = m
  <2>1. PICK o \in na : /\ n = IF o.op = id THEN [o EXCEPT !.cancelled = TRUE] ELSE o
                        /\ n.req = o.req
    BY <1>1
  <2>2. PICK p \in na : /\ m = IF p.op = id THEN [p EXCEPT !.cancelled = TRUE] ELSE p
                        /\ m.req = p.req
    BY <1>1
  <2>3. o = p
    BY <1>3, <2>1, <2>2 DEF NaInv
  <2> QED
    BY <2>1, <2>2, <2>3
<1>4. QED
  BY <1>2, <1>3 DEF NaInv

LEMMA HandleSentNa ==
  ASSUME PlaceInv, NaTyped, NaInv, NEW t \in Threads, HandleSent(t)
  PROVE  NaInv' /\ Calmly(t)
<1>1. PICK a : a = AfterBlocking(t)
  OBVIOUS
<1>2. /\ ult[t].pc = "handlesent" /\ IsSet(Stack(t))
      /\ \/ pool' = a /\ Goto(t, "ackwait") /\ na' = na
         \/ /\ Cancel(Object(t, "ackop"))
            /\ Finish(t, Return(a, Slot(t, "ackop"), "op"), "error")
  BY <1>1 DEF HandleSent, At, BlockingOver, ReturnOpId
<1>3. ult[t].pc \in Handing /\ ult[t].pc \in Blocked /\ ult[t].pc \notin {"idle", "owner"}
  BY <1>2 DEF Handing, Blocked
<1>4. /\ Quiet(a, t, {}) /\ a.ev = Without(pool.ev, {Stack(t)})
      /\ \A s \in DOMAIN pool.use :
           s # Slot(t, "op") => s \in DOMAIN a.use /\ a.use[s] = pool.use[s]
  BY <1>1, <1>3, QuietAfter
<1>5. \A role \in {"ack", "ackop", "ackreq"} :
        /\ Slot(t, role) \in DOMAIN a.use
        /\ a.use[Slot(t, role)] = pool.use[Slot(t, role)]
  BY <1>3, <1>4, AckSlots
<1>6. ASSUME NEW o \in na, Mine(t, o)
      PROVE  Awaits(t, o) /\ o.req \in DOMAIN a.ev /\ a.ev[o.req] = "unset"
  <2>1. Pends(o)
    BY DEF NaInv
  <2>2. ~ Waits(t, o) /\ ~ Brought(t, o)
    BY <1>2, <1>3, <2>1 DEF Waits, Brought, Pends, IsSet, Value
  <2>3. Awaits(t, o)
    BY <1>6, <2>2 DEF Mine
  <2>4. o.req # Stack(t)
    BY <1>3, <2>3, AckSlots DEF Awaits
  <2> QED
    BY <1>4, <2>1, <2>3, <2>4, WithoutProperties DEF Pends
<1>7. CASE pool' = a /\ Goto(t, "ackwait") /\ na' = na
  <2>1. ult'[t].pc \in Handing /\ \A u \in Threads \ {t} : ult'[u] = ult[u]
    BY <1>7, WentOthers DEF Handing
  <2>2. ASSUME NEW o \in na, Touched(t, {}, o) PROVE Pends(o)' /\ Owned(o)'
    <3>1. Awaits(t, o) /\ Pends(o)'
      BY <1>6, <1>7, <2>2 DEF Touched, Pends
    <3>2. Awaits(t, o)'
      BY <1>5, <1>7, <2>1, <3>1 DEF Awaits
    <3> QED
      BY <3>1, <3>2 DEF Owned
  <2> QED
    BY <1>4, <1>7, <2>1, <2>2, NaSame, NothingOuter
<1>8. CASE /\ Cancel(Object(t, "ackop"))
           /\ Finish(t, Return(a, Slot(t, "ackop"), "op"), "error")
  <2>1. PICK b : b = Return(a, Slot(t, "ackop"), "op")
    OBVIOUS
  <2>2. Slot(t, "ackop") \in Ours(t, {}) /\ "op" \in Kinds
    BY OurSlots DEF Roles, LocalRoles, Kinds
  <2>3. /\ Quiet(b, t, {}) /\ b.ev = a.ev
        /\ \A s \in DOMAIN a.use : s # Slot(t, "ackop") => s \in DOMAIN b.use /\ b.use[s] = a.use[s]
    BY <1>4, <1>5, <2>1, <2>2, QuietReturn
  <2>4. \A role \in {"ack", "ackreq"} :
          Slot(t, role) \in DOMAIN b.use /\ b.use[Slot(t, role)] = pool.use[Slot(t, role)]
    <3>1. \A role \in {"ack", "ackreq"} : Slot(t, role) # Slot(t, "ackop")
      BY DEF Slot
    <3> QED
      BY <1>5, <2>3, <3>1
  <2>5. call(t).path \in Kinds
    BY <1>3, AckSlots
  <2>6. /\ Quiet(pool', t, {})
        /\ \A role \in {"ack", "ackreq", "ackop"} :
             Slot(t, role) \in DOMAIN b.use => b.use[Slot(t, role)] \in pool'.lost
        /\ \A u \in Threads \ {t} : ult'[u] = ult[u]
        /\ pool'.ev = b.ev \/ (/\ call(t).by # "caller"
                               /\ pool'.ev = With(b.ev, Object(t, "req"), "error"))
    BY <1>3, <1>8, <2>1, <2>3, <2>5, QuietFinish
  <2>7. ASSUME NEW o \in na, Touched(t, {}, o)
        PROVE  /\ Pends(o)'
               /\ o.op = Object(t, "ackop") /\ o.req \in pool'.lost /\ o.buf \in pool'.lost
    <3>1. Awaits(t, o) /\ o.req \in DOMAIN b.ev /\ b.ev[o.req] = "unset"
      BY <1>6, <2>3, <2>7 DEF Touched
    <3>2. call(t).by # "caller" => o.req # Object(t, "req")
      <4>1. ASSUME call(t).by # "caller" PROVE Slot(t, "req") \in DOMAIN pool.use
        BY <1>3, <4>1 DEF PlaceInv, SlotInv, Has, RequestAt, Roles, call
      <4>2. Slot(t, "ackreq") \in DOMAIN pool.use /\ Slot(t, "ackreq") # Slot(t, "req")
        BY <1>3, AckSlots DEF Slot
      <4> QED
        BY <3>1, <4>1, <4>2 DEF Awaits, Object, PlaceInv, PoolOK, OnePlace
    <3>3. Pends(o)'
      BY <2>6, <3>1, <3>2, WithProperties DEF Pends
    <3> QED
      BY <2>4, <2>6, <3>1, <3>3 DEF Awaits, Object
  <2>8. \A o \in na : ~ Touched(t, {}, o) => Pends(o)' /\ Owned(o)'
    BY <2>6, OthersKept, NothingOuter
  <2>9. Calmly(t)
    BY <2>6, NothingOuter DEF Calmly
  <2> QED
    BY <1>8, <2>7, <2>8, <2>9, CancelNa
<1>9. QED
  BY <1>2, <1>7, <1>8

LEMMA AcknowledgedNa ==
  ASSUME PlaceInv, NaInv, NEW t \in Threads, Acknowledged(t)
  PROVE  NaInv' /\ Calmly(t)
<1>1. PICK w, p, v : w = Wait(pool, Slot(t, "ackreq")) /\ p = Return(w, Slot(t, "ackop"), "op")
                     /\ v = Value(Object(t, "ackreq"))
  OBVIOUS
<1>2. ult[t].pc = "ackwait" /\ IsSet(Object(t, "ackreq")) /\ na' = na /\ Finish(t, p, v)
  BY <1>1 DEF Acknowledged, At, ReturnOpId
<1>3. ult[t].pc \in Handing /\ ult[t].pc \notin Blocked \cup {"idle", "owner"}
  BY <1>2 DEF Handing, Blocked
<1>4. /\ Quiet(pool, t, {}) /\ "op" \in Kinds
      /\ Slot(t, "ackreq") \in Ours(t, {}) /\ Slot(t, "ackop") \in Ours(t, {})
      /\ Slot(t, "ackop") # Slot(t, "ackreq")
      /\ Slot(t, "ackreq") \in DOMAIN pool.use /\ Slot(t, "ackop") \in DOMAIN pool.use
  BY <1>3, QuietFirst, OurSlots, AckSlots DEF PlaceInv, Kinds, Roles, LocalRoles, Slot
<1>5. Quiet(w, t, {}) /\ Slot(t, "ackop") \in DOMAIN w.use
  BY <1>1, <1>4, QuietWait
<1>6. Quiet(p, t, {})
  BY <1>1, <1>4, <1>5, QuietReturn
<1>7. PathOK(t, p)
  BY <1>3, AckSlots DEF PathOK
<1>8. \A o \in na : ~ Touched(t, {}, o)
  BY <1>2, <1>3, NotTouched
<1>9. QED
  BY <1>2, <1>3, <1>6, <1>7, <1>8, FinishNa, NothingOuter

LEMMA SendLargeNa ==
  ASSUME PlaceInv, NaInv, NEW t \in Threads, SendLarge(t)
  PROVE  NaInv' /\ Calmly(t)
<1>1. PICK path, p, q, a, b, r, id, req, buf :
        /\ path = call(t).path
        /\ p = IF call(t).mem THEN pool ELSE Get(pool, Slot(t, "msg"), path)
        /\ q = Get(p, Slot(t, "mem"), path)
        /\ a = Get(q, Slot(t, "ack"), path)
        /\ b = Get(a, Slot(t, "ackop"), "op")
        /\ r = GetReq(b, Slot(t, "ackreq"))
        /\ id = r.use[Slot(t, "ackop")] /\ req = r.use[Slot(t, "ackreq")]
        /\ buf = r.use[Slot(t, "ack")]
  OBVIOUS
<1>2. /\ ult[t].pc = "begin" /\ call(t).op = "send"
      /\ \/ Finish(t, p, "error") /\ na' = na
         \/ Finish(t, q, "error") /\ na' = na
         \/ /\ Finish(t, Return(Return(r, Slot(t, "ackreq"), "req"), Slot(t, "ackop"), "op"),
                      "error")
            /\ na' = na
         \/ /\ pool' = SetEventual(r, req, "unset")
            /\ na' = na \cup {Operation(id, buf, req)}
            /\ Goto(t, "handle")
  BY <1>1 DEF SendLarge, At, GetMsg, GetOpId, ReturnReq, ReturnOpId
<1>3. /\ ult[t].pc \notin Blocked \cup Handing \cup {"idle", "owner"}
      /\ call(t).op \in {"send", "recv", "probe"}
  BY <1>2 DEF Blocked, Handing
<1>4. /\ path \in Kinds /\ "op" \in Kinds /\ "req" \in Kinds
      /\ \A role \in Roles : Slot(t, role) \in Ours(t, {})
      /\ \A role \in Roles : role \in {"msg", "mem", "ack", "ackop", "ackreq"} <=> role \notin {"op", "req"}
      /\ {"msg", "mem", "ack", "ackop", "ackreq"} \subseteq Roles
  BY <1>1, <1>3, PathsOK, OurSlots DEF Kinds, Roles, LocalRoles
<1>5. /\ Quiet(pool, t, {}) /\ \A o \in na : ~ Touched(t, {}, o)
  BY <1>3, Apart0
<1>6. Quiet(p, t, {})
  <2>1. CASE call(t).mem
    BY <1>1, <1>5, <2>1
  <2>2. CASE ~ call(t).mem
    <3>1. p = Get(pool, Slot(t, "msg"), path) /\ Slot(t, "msg") \in Ours(t, {})
      BY <1>1, <1>4, <2>2
    <3> QED
      BY <1>4, <1>5, <3>1, QuietGet
  <2> QED
    BY <2>1, <2>2
<1>7. Quiet(q, t, {})
  <2>1. Slot(t, "mem") \in Ours(t, {})
    BY <1>4
  <2> QED
    BY <1>1, <1>4, <1>6, <2>1, QuietGet
<1>8. Quiet(a, t, {}) /\ Slot(t, "ack") \in DOMAIN a.use
  <2>1. Slot(t, "ack") \in Ours(t, {}) /\ path \in Kinds /\ a = Get(q, Slot(t, "ack"), path)
    BY <1>1, <1>4
  <2> QED
    BY <1>7, <2>1, QuietGet
<1>9. Quiet(b, t, {}) /\ Slot(t, "ack") \in DOMAIN b.use /\ Slot(t, "ackop") \in DOMAIN b.use
  <2>1. Slot(t, "ackop") \in Ours(t, {}) /\ "op" \in Kinds /\ b = Get(a, Slot(t, "ackop"), "op")
    BY <1>1, <1>4
  <2>2. /\ Quiet(b, t, {}) /\ Slot(t, "ackop") \in DOMAIN b.use
        /\ \A s \in DOMAIN a.use : s \in DOMAIN b.use
    BY <1>8, <2>1, QuietGet
  <2> QED
    BY <1>8, <2>2
<1>10. /\ Quiet(r, t, {}) /\ Slot(t, "ackreq") \in DOMAIN r.use
       /\ Slot(t, "ack") \in DOMAIN r.use /\ Slot(t, "ackop") \in DOMAIN r.use
  <2>1. Slot(t, "ackreq") \in Ours(t, {})
    BY <1>4
  <2>2. /\ Quiet(r, t, {}) /\ Slot(t, "ackreq") \in DOMAIN r.use
        /\ \A s \in DOMAIN b.use : s \in DOMAIN r.use
    BY <1>1, <1>9, <2>1, QuietGetReq
  <2> QED
    BY <1>9, <2>2
<1>11. CASE (Finish(t, p, "error") \/ Finish(t, q, "error")) /\ na' = na
  BY <1>3, <1>6, <1>7, <1>11, FailNa
<1>12. CASE /\ Finish(t, Return(Return(r, Slot(t, "ackreq"), "req"), Slot(t, "ackop"), "op"),
                      "error")
            /\ na' = na
  <2>1. PICK c, d : c = Return(r, Slot(t, "ackreq"), "req") /\ d = Return(c, Slot(t, "ackop"), "op")
    OBVIOUS
  <2>2. /\ Slot(t, "ackreq") \in Ours(t, {}) /\ Slot(t, "ackop") \in Ours(t, {})
        /\ Slot(t, "ackop") # Slot(t, "ackreq")
    BY <1>4 DEF Slot
  <2>3. Quiet(c, t, {}) /\ Slot(t, "ackop") \in DOMAIN c.use
    BY <1>4, <1>10, <2>1, <2>2, QuietReturn
  <2>4. Quiet(d, t, {})
    BY <1>4, <2>1, <2>2, <2>3, QuietReturn
  <2> QED
    BY <1>3, <1>12, <2>1, <2>4, FailNa
<1>13. CASE /\ pool' = SetEventual(r, req, "unset")
            /\ na' = na \cup {Operation(id, buf, req)}
            /\ Goto(t, "handle")
  <2>1. Slot(t, "ackreq") \in Ours(t, {}) /\ MayTouch(t, {}, req)
    BY <1>1, <1>4, <1>10 DEF Quiet
  <2>2. Quiet(pool', t, {}) /\ pool'.use = r.use /\ pool'.ev = With(r.ev, req, "unset")
    BY <1>10, <1>13, <2>1, QuietSet
  <2>3. PICK new : new = Operation(id, buf, req)
    OBVIOUS
  <2>4. new.op = id /\ new.buf = buf /\ new.req = req
    BY <2>3 DEF Operation
  <2>5. Pends(new)'
    BY <2>2, <2>4, WithProperties DEF Pends
  <2>6. ult'[t].pc \in Handing /\ \A u \in Threads \ {t} : ult'[u] = ult[u]
    BY <1>13, WentOthers DEF Handing
  <2>7. Awaits(t, new)'
    BY <1>1, <2>2, <2>4, <2>6 DEF Awaits, Slot
  <2>8. Owned(new)'
    BY <2>7 DEF Owned
  <2> QED
    BY <1>5, <1>13, <2>1, <2>2, <2>3, <2>4, <2>5, <2>6, <2>8, NaGrows, NothingOuter
<1>14. QED
  BY <1>2, <1>11, <1>12, <1>13

-----------------------------------------------------------------------------
(***************************************************************************)
(* The receive that the calls share.                                       *)
(***************************************************************************)
LEMMA TakeQueuedNa ==
  ASSUME PlaceInv, NaInv, NEW t \in Threads, TakeQueued(t)
  PROVE  NaInv' /\ Calmly(t)
<1>1. PICK s \in Queued :
        /\ ult[t].pc = "begin" /\ call(t).op \in {"recv", "probe"} /\ na' = na
        /\ \/ pool' = Move(pool, s, Slot(t, "msg")) /\ Goto(t, "got")
           \/ Finish(t, pool, "ok")
  BY DEF TakeQueued, WantsMessage, At
<1>2. ult[t].pc \notin Blocked \cup Handing \cup {"idle", "owner"}
  BY <1>1 DEF Blocked, Handing
<1>3. CASE Finish(t, pool, "ok")
  BY <1>1, <1>2, <1>3, Apart0, FailNa
<1>4. CASE pool' = Move(pool, s, Slot(t, "msg")) /\ Goto(t, "got")
  <2>1. PICK S : S = {s}
    OBVIOUS
  <2>2. s \in DOMAIN pool.use /\ s[1] = "pending" /\ s \in Ours(t, S) /\ Outer(S)
    BY <2>1, OurSlots DEF Queued, Outer
  <2>3. S \cap Prob = {}
    BY <2>1, <2>2, ProbKinds
  <2>4. \A o \in na : ~ Touched(t, S, o)
    BY <1>2, <2>3, Apart0 DEF Touched
  <2>5. Slot(t, "msg") \in Ours(t, S) /\ Quiet(pool, t, S)
    BY OurSlots, QuietFirst DEF PlaceInv, Roles, LocalRoles
  <2>6. Quiet(pool', t, S)
    BY <1>4, <2>2, <2>5, QuietMove
  <2> QED
    BY <1>1, <1>4, <2>2, <2>3, <2>4, <2>6, WentOthers, NaSame
<1>5. QED
  BY <1>1, <1>3, <1>4

LEMMA ListenNa ==
  ASSUME PlaceInv, NaInv, NEW t \in Threads, Listen(t)
  PROVE  NaInv' /\ Calmly(t)
<1>1. PICK a, b, p, id, req, buf :
        /\ a = Get(pool, ProbMsg, "unexpected") /\ b = Get(a, ProbId, "op")
        /\ p = GetReq(b, ProbReq)
        /\ id = p.use[ProbId] /\ req = p.use[ProbReq] /\ buf = p.use[ProbMsg]
  OBVIOUS
<1>2. /\ ult[t].pc = "listen"
      /\ \/ Goto(t, "listening") /\ pool' = pool /\ na' = na
         \/ /\ ~ prob_active
            /\ pool' = SetEventual(p, req, "unset")
            /\ na' = na \cup {Operation(id, buf, req)}
            /\ Goto(t, "listening")
         \/ /\ ~ prob_active
            /\ Finish(t, Return(Return(Return(p, ProbReq, "req"), ProbMsg, "unexpected"),
                                ProbId, "op"), "error")
            /\ na' = na
  BY <1>1 DEF Listen, At, GetMsg, GetOpId, ReturnReq, ReturnMsg, ReturnOpId
<1>3. /\ ult[t].pc \notin Blocked \cup Handing \cup {"idle", "owner"}
      /\ call(t).op \in {"send", "recv", "probe"}
  BY <1>2 DEF Blocked, Handing, Listening, PlaceInv, UltInv, Fitting, call
<1>4. CASE Goto(t, "listening") /\ pool' = pool /\ na' = na
  <2>1. Quiet(pool, t, {}) /\ \A o \in na : ~ Touched(t, {}, o)
    BY <1>3, Apart0
  <2> QED
    BY <1>4, <2>1, WentOthers, NaSame, NothingOuter
<1>5. CASE ~ prob_active
  <2>1. /\ Outer(Prob) /\ Quiet(pool, t, Prob)
        /\ ProbMsg \in Ours(t, Prob) /\ ProbId \in Ours(t, Prob) /\ ProbReq \in Ours(t, Prob)
        /\ PathOK(t, p) /\ \A r : PathOK(t, r)
    BY <1>3, QuietFirst, OurSlots, ProbKinds, PathsOK DEF PlaceInv, Outer
  <2>2. \A o \in na : ~ Touched(t, Prob, o)
    <3>1. \A s \in Prob : s \notin DOMAIN pool.use
      BY <1>3, <1>5, SomebodyUp DEF PlaceInv, ProbInv
    <3>2. \A o \in na : ~ Shared(o)
      BY <3>1, ProbKinds DEF Shared
    <3> QED
      BY <1>3, <3>2, Apart0 DEF Touched
  <2>3. Quiet(a, t, Prob) /\ ProbMsg \in DOMAIN a.use
    BY <1>1, <2>1, ProbKinds, QuietGet
  <2>4. Quiet(b, t, Prob) /\ ProbMsg \in DOMAIN b.use /\ ProbId \in DOMAIN b.use
    <3>1. /\ Quiet(b, t, Prob) /\ ProbId \in DOMAIN b.use
          /\ \A s \in DOMAIN a.use : s \in DOMAIN b.use
      BY <1>1, <2>1, <2>3, ProbKinds, QuietGet
    <3> QED
      BY <2>3, <3>1
  <2>5. /\ Quiet(p, t, Prob) /\ ProbMsg \in DOMAIN p.use /\ ProbId \in DOMAIN p.use
        /\ ProbReq \in DOMAIN p.use
    <3>1. /\ Quiet(p, t, Prob) /\ ProbReq \in DOMAIN p.use
          /\ \A s \in DOMAIN b.use : s \in DOMAIN p.use
      BY <1>1, <2>1, <2>4, QuietGetReq
    <3> QED
      BY <2>4, <3>1
  <2>6. CASE /\ pool' = SetEventual(p, req, "unset")
             /\ na' = na \cup {Operation(id, buf, req)}
             /\ Goto(t, "listening")
    <3>1. MayTouch(t, Prob, req)
      BY <1>1, <2>1, <2>5 DEF Quiet
    <3>2. Quiet(pool', t, Prob) /\ pool'.use = p.use /\ pool'.ev = With(p.ev, req, "unset")
      BY <2>5, <2>6, <3>1, QuietSet
    <3>3. PICK new : new = Operation(id, buf, req)
      OBVIOUS
    <3>4. new.op = id /\ new.buf = buf /\ new.req = req
      BY <3>3 DEF Operation
    <3>5. Pends(new)'
      BY <3>2, <3>4, WithProperties DEF Pends
    <3>6. \A s \in Prob : s \in DOMAIN pool'.use
      BY <2>5, <3>2, ProbKinds
    <3>7. Shared(new)'
      BY <1>1, <3>2, <3>4, <3>6 DEF Shared, Prob, ProbMsg, ProbId, ProbReq
    <3>8. Owned(new)'
      BY <3>7 DEF Owned
    <3>9. \A u \in Threads \ {t} : ult'[u] = ult[u]
      BY <2>6, WentOthers
    <3> QED
      BY <1>5, <2>1, <2>2, <2>6, <3>1, <3>2, <3>3, <3>4, <3>5, <3>8, <3>9, NaGrows
  <2>7. CASE /\ Finish(t, Return(Return(Return(p, ProbReq, "req"), ProbMsg, "unexpected"),
                                 ProbId, "op"), "error")
             /\ na' = na
    <3>1. PICK c, d, e : /\ c = Return(p, ProbReq, "req") /\ d = Return(c, ProbMsg, "unexpected")
                         /\ e = Return(d, ProbId, "op")
      OBVIOUS
    <3>2. Quiet(c, t, Prob) /\ ProbMsg \in DOMAIN c.use /\ ProbId \in DOMAIN c.use
      BY <2>1, <2>5, <3>1, ProbKinds, QuietReturn
    <3>3. Quiet(d, t, Prob) /\ ProbId \in DOMAIN d.use
      BY <2>1, <3>1, <3>2, ProbKinds, QuietReturn
    <3>4. Quiet(e, t, Prob)
      BY <2>1, <3>1, <3>3, ProbKinds, QuietReturn
    <3>5. Finish(t, e, "error") /\ PathOK(t, e) /\ ult[t].pc \notin {"idle", "owner"}
      BY <1>3, <2>1, <2>7, <3>1
    <3> QED
      BY <1>5, <2>1, <2>2, <2>7, <3>4, <3>5, FinishNa
  <2> QED
    BY <1>2, <1>4, <2>6, <2>7
<1>6. QED
  BY <1>2, <1>4, <1>5

LEMMA ReapNa ==
  ASSUME PlaceInv, NaInv, NEW t \in Threads, Reap(t)
  PROVE  NaInv' /\ Calmly(t)
<1>1. PICK w, p, r, z : /\ w = Wait(pool, ProbReq) /\ p = Return(w, ProbId, "op")
                        /\ r = Return(p, ProbMsg, "unexpected")
                        /\ z = <<"pending", p.use[ProbMsg]>>
  OBVIOUS
<1>2. /\ ult[t].pc = "listening" /\ IsSet(pool.use[ProbReq]) /\ na' = na /\ ~ prob_active'
      /\ \/ Finish(t, Forget(r, {ProbReq}), "error")
         \/ pool' = Move(p, ProbMsg, Slot(t, "msg")) /\ Goto(t, "got")
         \/ Finish(t, Move(p, ProbMsg, z), "ok")
         \/ pool' = Move(p, ProbMsg, z) /\ Goto(t, "listen")
  BY <1>1 DEF Reap, At, ReturnMsg, ReturnOpId
<1>3. /\ ult[t].pc \notin Blocked \cup Handing \cup {"idle", "owner"}
      /\ call(t).op \in {"send", "recv", "probe"}
  BY <1>2 DEF Blocked, Handing, Listening, PlaceInv, UltInv, Fitting, call
<1>4. \A s \in Prob : s \in DOMAIN pool.use
  BY <1>2, <1>3, SomebodyUp DEF PlaceInv, ProbInv, ListenInv
<1>5. PICK S : S = Prob \cup {z}
  OBVIOUS
<1>6. /\ Outer(S) /\ Quiet(pool, t, S)
      /\ ProbMsg \in Ours(t, S) /\ ProbId \in Ours(t, S) /\ ProbReq \in Ours(t, S)
      /\ z \in Ours(t, S) /\ Slot(t, "msg") \in Ours(t, S)
      /\ \A q : PathOK(t, q)
  <2>1. z[1] = "pending"
    BY <1>1
  <2> QED
    BY <1>3, <1>5, <2>1, QuietFirst, OurSlots, ProbKinds, PathsOK
    DEF PlaceInv, Outer, Roles, LocalRoles
<1>7. \A o \in na : ~ Touched(t, S, o)
  <2>1. \A o \in na : ~ Shared(o)
    BY <1>2 DEF NaInv, Shared, Pends, IsSet, Value
  <2> QED
    BY <1>3, <2>1, Apart0 DEF Touched
<1>8. Quiet(w, t, S) /\ ProbId \in DOMAIN w.use /\ ProbMsg \in DOMAIN w.use
  BY <1>1, <1>4, <1>6, ProbKinds, QuietWait
<1>9. Quiet(p, t, S) /\ ProbMsg \in DOMAIN p.use
  BY <1>1, <1>6, <1>8, ProbKinds, QuietReturn
<1>10. Quiet(r, t, S)
  BY <1>1, <1>6, <1>9, ProbKinds, QuietReturn
<1>11. PICK f, m, n : /\ f = Forget(r, {ProbReq}) /\ m = Move(p, ProbMsg, z)
                      /\ n = Move(p, ProbMsg, Slot(t, "msg"))
  OBVIOUS
<1>12. Quiet(f, t, S)
  <2>1. {ProbReq} \subseteq Ours(t, S)
    BY <1>6
  <2> QED
    BY <1>10, <1>11, <2>1, QuietForget
<1>13. Quiet(m, t, S) /\ Quiet(n, t, S)
  BY <1>6, <1>9, <1>11, QuietMove
<1>14. CASE Finish(t, Forget(r, {ProbReq}), "error") \/ Finish(t, Move(p, ProbMsg, z), "ok")
  <2>1. Finish(t, f, "error") \/ Finish(t, m, "ok")
    BY <1>11, <1>14
  <2>2. PathOK(t, f) /\ PathOK(t, m) /\ ult[t].pc \notin {"idle", "owner"}
    BY <1>3, <1>6
  <2> QED
    BY <1>2, <1>6, <1>7, <1>12, <1>13, <2>1, <2>2, FinishNa
<1>15. CASE \/ pool' = Move(p, ProbMsg, Slot(t, "msg")) /\ Goto(t, "got")
            \/ pool' = Move(p, ProbMsg, z) /\ Goto(t, "listen")
  <2>1. Quiet(pool', t, S) /\ \A u \in Threads \ {t} : ult'[u] = ult[u]
    BY <1>11, <1>13, <1>15, WentOthers
  <2> QED
    BY <1>2, <1>6, <1>7, <2>1, NaSame
<1>16. QED
  BY <1>2, <1>14, <1>15

-----------------------------------------------------------------------------
(***************************************************************************)
(* Requests of the callers.                                                *)
(***************************************************************************)
LEMMA QuietRequest ==
  ASSUME PlaceInv, NEW t \in Threads, NEW c, NEW p, p = Request(pool, t, c)
  PROVE  Quiet(p, t, {}) /\ Slot(t, "req") \in DOMAIN p.use
<1>1. PICK a, o : a = GetReq(pool, Slot(t, "req")) /\ o = a.use[Slot(t, "req")]
  OBVIOUS
<1>2. Quiet(pool, t, {}) /\ Slot(t, "req") \in Ours(t, {})
  BY QuietFirst, OurSlots DEF PlaceInv, Roles
<1>3. Quiet(a, t, {}) /\ Slot(t, "req") \in DOMAIN a.use
  <2>1. a = GetReq(pool, Slot(t, "req"))
    BY <1>1
  <2> QED
    BY <1>2, <2>1, QuietGetReq
<1>4. MayTouch(t, {}, o)
  BY <1>1, <1>2, <1>3 DEF Quiet
<1>5. CASE p = SetEventual(a, o, "unset")
  <2>1. Quiet(p, t, {}) /\ p.use = a.use
    BY <1>3, <1>4, <1>5, QuietSet
  <2> QED
    BY <1>3, <2>1
<1>6. p = a \/ p = SetEventual(a, o, "unset")
  BY <1>1 DEF Request
<1>7. QED
  BY <1>3, <1>5, <1>6

LEMMA EnterNa ==
  ASSUME PlaceInv, NaInv, NEW t \in Threads, Enter(t)
  PROVE  NaInv' /\ Calmly(t)
<1>1. PICK c : /\ ult[t].pc = "idle" /\ na' = na
               /\ \/ /\ pool' = pool \/ pool' = Request(pool, t, c)
                     /\ Begin(t, c)
                  \/ pool' = Return(Request(pool, t, c), Slot(t, "req"), "req") /\ ult' = ult
                  \/ pool' = pool /\ ult' = ult
  BY DEF Enter, At, ReturnReq
<1>2. ult[t].pc \notin Blocked \cup Handing \cup {"owner"}
  BY <1>1 DEF Blocked, Handing
<1>3. Quiet(pool, t, {}) /\ \A o \in na : ~ Touched(t, {}, o)
  BY <1>2, Apart0
<1>4. PICK p, q : p = Request(pool, t, c) /\ q = Return(p, Slot(t, "req"), "req")
  OBVIOUS
<1>5. Quiet(p, t, {}) /\ Slot(t, "req") \in DOMAIN p.use
  BY <1>4, QuietRequest
<1>6. Quiet(q, t, {})
  <2>1. Slot(t, "req") \in Ours(t, {}) /\ "req" \in Kinds
    BY OurSlots DEF Roles, Kinds
  <2> QED
    BY <1>4, <1>5, <2>1, QuietReturn
<1>7. \A u \in Threads \ {t} : ult'[u] = ult[u]
  BY <1>1 DEF Begin, PlaceInv, UltInv
<1>8. Quiet(pool', t, {})
  BY <1>1, <1>3, <1>4, <1>5, <1>6
<1>9. QED
  BY <1>1, <1>3, <1>7, <1>8, NaSame, NothingOuter

LEMMA OwnNa ==
  ASSUME PlaceInv, NaInv, NEW t \in Threads, Own(t)
  PROVE  NaInv' /\ Calmly(t)
<1>1. PICK s, w, T : s = Slot(t, "req") /\ w = Wait(pool, s) /\ T = {s}
  OBVIOUS
<1>2. /\ ult[t].pc = "owner" /\ IsSet(Object(t, "req")) /\ na' = na
      /\ pool' = Forget(w, T) /\ Done(t)
  BY <1>1 DEF Own, At
<1>3. \A o \in na : ~ Touched(t, {}, o)
  BY <1>2, NotTouched DEF Blocked, Handing
<1>4. s \in DOMAIN pool.use /\ s \in Ours(t, {}) /\ T \subseteq Ours(t, {})
  BY <1>1, <1>2, OurSlots DEF PlaceInv, SlotInv, Has, RequestAt, Roles
<1>5. Quiet(pool, t, {})
  BY QuietFirst DEF PlaceInv
<1>6. Quiet(w, t, {})
  BY <1>1, <1>4, <1>5, QuietWait
<1>7. Quiet(pool', t, {})
  BY <1>2, <1>4, <1>6, QuietForget
<1>8. \A u \in Threads \ {t} : ult'[u] = ult[u]
  BY <1>2 DEF Done, PlaceInv, UltInv
<1>9. QED
  BY <1>2, <1>3, <1>7, <1>8, NaSame, NothingOuter

LEMMA IoperNa ==
  ASSUME PlaceInv, NaInv, NEW t \in Threads, Ioper(t)
  PROVE  NaInv' /\ Calmly(t)
<1>1. PICK s, p, r, q : /\ s = Slot(t, "req") /\ p = GetReq(pool, s) /\ r = p.use[s]
                        /\ q = IF call(t).path = "rma" THEN DropEventual(p, r) ELSE p
  OBVIOUS
<1>2. PICK e : e = SetEventual(q, r, "unset")
  OBVIOUS
<1>3. /\ ult[t].pc = "begin"
      /\ \/ /\ pool' = e /\ na' = na \cup {Operation(UserOp(t), NoBuffer, r)}
            /\ Goto(t, "owner")
         \/ (pool' = Return(e, s, "req") \/ pool' = Return(q, s, "req")) /\ Done(t) /\ na' = na
  BY <1>1, <1>2 DEF Ioper, At, ReturnReq
<1>4. ult[t].pc \notin Blocked \cup Handing \cup {"owner"}
  BY <1>3 DEF Blocked, Handing
<1>5. Quiet(pool, t, {}) /\ \A o \in na : ~ Touched(t, {}, o)
  BY <1>4, Apart0
<1>6. s \in Ours(t, {}) /\ "req" \in Kinds
  BY <1>1, OurSlots DEF Roles, Kinds
<1>7. Quiet(p, t, {}) /\ s \in DOMAIN p.use
  <2>1. p = GetReq(pool, s)
    BY <1>1
  <2> QED
    BY <1>5, <1>6, <2>1, QuietGetReq
<1>8. MayTouch(t, {}, r)
  BY <1>1, <1>6, <1>7 DEF Quiet
<1>9. Quiet(q, t, {}) /\ q.use = p.use
  <2>1. CASE q = DropEventual(p, r)
    <3>1. Quiet(q, t, {}) /\ q.use = p.use /\ q.ev = Without(p.ev, {r}) /\ q.lost = p.lost
      BY <1>7, <1>8, <2>1, QuietDrop
    <3> QED
      BY <3>1
  <2>2. q = p \/ q = DropEventual(p, r)
    BY <1>1
  <2> QED
    BY <1>7, <2>1, <2>2
<1>10. Quiet(e, t, {}) /\ e.use = p.use /\ e.ev = With(q.ev, r, "unset")
  BY <1>2, <1>8, <1>9, QuietSet
<1>11. CASE /\ pool' = Return(e, s, "req") \/ pool' = Return(q, s, "req")
            /\ Done(t) /\ na' = na
  <2>1. s \in DOMAIN e.use /\ s \in DOMAIN q.use
    BY <1>7, <1>9, <1>10
  <2>2. Quiet(pool', t, {})
    BY <1>6, <1>9, <1>10, <1>11, <2>1, QuietReturn
  <2>3. \A u \in Threads \ {t} : ult'[u] = ult[u]
    BY <1>11 DEF Done, PlaceInv, UltInv
  <2> QED
    BY <1>5, <1>11, <2>2, <2>3, NaSame, NothingOuter
<1>12. CASE /\ pool' = e /\ na' = na \cup {Operation(UserOp(t), NoBuffer, r)}
            /\ Goto(t, "owner")
  <2>1. PICK new : new = Operation(UserOp(t), NoBuffer, r)
    OBVIOUS
  <2>2. new.op = UserOp(t) /\ new.buf = NoBuffer /\ new.req = r
    BY <2>1 DEF Operation
  <2>3. Pends(new)'
    BY <1>10, <1>12, <2>2, WithProperties DEF Pends
  <2>4. ult'[t].pc = "owner" /\ \A u \in Threads \ {t} : ult'[u] = ult[u]
    BY <1>12, WentOthers
  <2>5. Brought(t, new)'
    BY <1>1, <1>10, <1>12, <2>2, <2>4 DEF Brought, Slot, UserOp, NoBuffer
  <2>6. Owned(new)'
    BY <2>5 DEF Owned
  <2>7. Quiet(pool', t, {}) /\ MayTouch(t, {}, new.req)
    BY <1>8, <1>10, <1>12, <2>2
  <2>8. na' = na \cup {new}
    BY <1>12, <2>1
  <2> QED
    BY <1>5, <2>3, <2>4, <2>6, <2>7, <2>8, NaGrows, NothingOuter
<1>13. QED
  BY <1>3, <1>11, <1>12

-----------------------------------------------------------------------------
(***************************************************************************)
(* NA, and mona_finalize.                                                  *)
(***************************************************************************)
LEMMA CompleteNa ==
  ASSUME PlaceInv, NaInv, Complete
  PROVE  NaInv'
<1>0. PICK o \in na :
        na' = na \ {o} /\ ult' = ult /\ \E v : pool' = SetEventual(pool, o.req, v)
  BY DEF Complete, mona_callback
<1>1. PICK v : na' = na \ {o} /\ pool' = SetEventual(pool, o.req, v) /\ ult' = ult
  BY <1>0
<1>2. /\ pool'.use = pool.use /\ pool'.lost = pool.lost
      /\ pool'.ev = With(pool.ev, o.req, v)
  <2>1. IsPool(pool)
    BY DEF PlaceInv, PoolOK, PoolTyped
  <2> QED
    BY <1>1, <2>1 DEF SetEventual, IsPool
<1>3. ASSUME NEW n \in na' PROVE Pends(n)' /\ Owned(n)'
  <2>1. n \in na /\ n.req # o.req /\ Pends(n) /\ Owned(n)
    BY <1>1, <1>3 DEF NaInv
  <2>2. Pends(n)'
    BY <1>2, <2>1, WithProperties DEF Pends
  <2>3. Owned(n)'
    BY <1>1, <1>2, <2>1 DEF Owned, Waits, Awaits, Brought, Shared, Gone, Slot, Stack, UserOp,
       NoBuffer, OwnSlots, Prob, ProbMsg, ProbId, ProbReq
  <2> QED
    BY <2>2, <2>3
<1>4. QED
  BY <1>1, <1>3 DEF NaInv

LEMMA CancelProbeNa ==
  ASSUME NaTyped, NaInv, CancelProbe
  PROVE  NaInv'
<1>1. /\ pool' = pool /\ ult' = ult
      /\ na' = na \/ Cancel(pool.use[ProbId])
  BY DEF CancelProbe
<1>2. \A o \in na : Pends(o)' /\ Owned(o)'
  BY <1>1 DEF NaInv, Pends, Owned, Waits, Awaits, Brought, Shared, Gone, Slot, Stack, UserOp,
     NoBuffer, OwnSlots, Prob, ProbMsg, ProbId, ProbReq
<1>3. CASE na' = na
  BY <1>2, <1>3 DEF NaInv
<1>4. CASE Cancel(pool.use[ProbId])
  BY <1>2, <1>4, CancelNa
<1>5. QED
  BY <1>1, <1>3, <1>4

LEMMA NobodyWaits ==
  ASSUME PlaceInv, NaInv, up # "up", NEW o \in na
  PROVE  Pends(o) /\ (Shared(o) \/ Gone(o))
<1>1. \A t \in Threads : ult[t].pc = "idle"
  BY DEF PlaceInv, ListenInv
<1>2. \A t \in Threads : ~ Waits(t, o)
  BY <1>1, OwnersHold DEF Blocked
<1>3. \A t \in Threads : ~ Awaits(t, o) /\ ~ Brought(t, o)
  BY <1>1 DEF Awaits, Brought, Handing
<1>4. QED
  BY <1>2, <1>3 DEF NaInv, Owned

LEMMA ReapProbeNa ==
  ASSUME PlaceInv, NaInv, ReapProbe
  PROVE  NaInv'
<1>1. PICK t, w, p : /\ t = "none" /\ w = Wait(pool, ProbReq) /\ p = Return(w, ProbId, "op")
  OBVIOUS
<1>2. /\ up = "closing" /\ IsSet(pool.use[ProbReq]) /\ na' = na
      /\ pool' = Return(p, ProbMsg, "unexpected")
  BY <1>1 DEF ReapProbe, ReturnMsg, ReturnOpId
<1>3. /\ Quiet(pool, t, Prob)
      /\ ProbMsg \in Ours(t, Prob) /\ ProbId \in Ours(t, Prob) /\ ProbReq \in Ours(t, Prob)
      /\ ProbMsg \in DOMAIN pool.use /\ ProbId \in DOMAIN pool.use /\ ProbReq \in DOMAIN pool.use
  BY <1>2, QuietFirst, OurSlots, ProbKinds DEF PlaceInv, ProbInv
<1>4. Quiet(w, t, Prob) /\ ProbId \in DOMAIN w.use /\ ProbMsg \in DOMAIN w.use
  BY <1>1, <1>3, ProbKinds, QuietWait
<1>5. Quiet(p, t, Prob) /\ ProbMsg \in DOMAIN p.use
  BY <1>1, <1>3, <1>4, ProbKinds, QuietReturn
<1>6. Quiet(pool', t, Prob)
  BY <1>2, <1>3, <1>5, ProbKinds, QuietReturn
<1>7. ASSUME NEW o \in na PROVE Pends(o)' /\ Owned(o)'
  <2>1. Pends(o) /\ (Shared(o) \/ Gone(o))
    BY <1>2, NobodyWaits
  <2>2. Gone(o)
    BY <1>2, <2>1 DEF Shared, Pends, IsSet, Value
  <2>3. ~ MayTouch(t, Prob, o.req)
    <3>1. o.req \in pool.lost /\ o.req # Stack(t)
      <4>1. o.req \in pool.lost /\ pool.lost \subseteq Objects
        BY <2>2, PoolObjects DEF PlaceInv, Gone
      <4> QED
        BY <4>1 DEF Objects, Kinds, Stack
    <3>2. ~ InUse(pool, o.req)
      BY <3>1 DEF PlaceInv, PoolOK, OnePlace
    <3> QED
      BY <3>1, <3>2 DEF MayTouch, InUse
  <2>4. Pends(o)'
    BY <1>6, <2>1, <2>3 DEF Quiet, Calm, Pends
  <2>5. Gone(o)'
    BY <1>6, <2>2 DEF Quiet, SameBut, Gone, NoBuffer
  <2> QED
    BY <2>4, <2>5 DEF Owned
<1>8. QED
  BY <1>2, <1>7 DEF NaInv

LEMMA ClearFields ==
  ASSUME NEW p, ListsTyped(p), NEW list \in Kinds, NEW q, q = Clear(p, list)
  PROVE  ListsTyped(q) /\ q.use = p.use /\ q.ev = p.ev /\ q.lost = p.lost
<1>1. PICK f, d : f = [p.free EXCEPT ![list] = << >>] /\ d = p.freed \cup ToSet(p.free[list])
  OBVIOUS
<1>2. q = [p EXCEPT !.freed = d, !.free = f]
  BY <1>1 DEF Clear, ListsTyped
<1>3. f \in [Kinds -> Seq(Objects)]
  BY <1>1 DEF ListsTyped
<1>4. QED
  BY <1>2, <1>3 DEF ListsTyped

LEMMA FreeNa ==
  ASSUME PlaceInv, NaInv, Free
  PROVE  NaInv'
<1>1. PICK a, b, c, d : /\ a = Clear(pool, "op") /\ b = Clear(a, "req")
                        /\ c = Clear(b, "unexpected") /\ d = Clear(c, "expected")
  OBVIOUS
<1>2. up = "stopped" /\ pool' = Forget(d, DOMAIN pool.use) /\ na' = na
  BY <1>1 DEF Free, ClearMsgs, ClearReqs, ClearOpIds
<1>3. ListsTyped(pool)
  BY DEF PlaceInv, PoolOK, PoolTyped, IsPool, ListsTyped
<1>4. ListsTyped(a) /\ a.use = pool.use /\ a.ev = pool.ev /\ a.lost = pool.lost
  BY <1>1, <1>3, ClearFields DEF Kinds
<1>5. ListsTyped(b) /\ b.use = a.use /\ b.ev = a.ev /\ b.lost = a.lost
  BY <1>1, <1>4, ClearFields DEF Kinds
<1>6. ListsTyped(c) /\ c.use = b.use /\ c.ev = b.ev /\ c.lost = b.lost
  BY <1>1, <1>5, ClearFields DEF Kinds
<1>7. ListsTyped(d) /\ d.use = c.use /\ d.ev = c.ev /\ d.lost = c.lost
  BY <1>1, <1>6, ClearFields DEF Kinds
<1>8. /\ pool'.ev = pool.ev
      /\ pool.lost \subseteq pool'.lost
      /\ \A s \in DOMAIN pool.use : pool.use[s] \in pool'.lost
  <2>1. /\ pool'.ev = d.ev
        /\ pool'.lost = d.lost \cup {d.use[s] : s \in DOMAIN pool.use \cap DOMAIN d.use}
    BY <1>2, <1>7 DEF Forget, ListsTyped
  <2>2. d.use = pool.use /\ d.ev = pool.ev /\ d.lost = pool.lost
    BY <1>4, <1>5, <1>6, <1>7
  <2> QED
    BY <2>1, <2>2
<1>9. ASSUME NEW o \in na PROVE Pends(o)' /\ Owned(o)'
  <2>1. Pends(o) /\ (Shared(o) \/ Gone(o))
    BY <1>2, NobodyWaits
  <2>2. Pends(o)'
    BY <1>8, <2>1 DEF Pends
  <2>3. Gone(o)'
    BY <1>8, <2>1, ProbKinds DEF Shared, Gone, NoBuffer
  <2> QED
    BY <2>2, <2>3 DEF Owned
<1>10. QED
  BY <1>2, <1>9 DEF NaInv

-----------------------------------------------------------------------------
LEMMA StepNa ==
  ASSUME PlaceInv, NaTyped, NaInv, NEW t \in Threads, Step(t)
  PROVE  NaInv' /\ Calmly(t)
<1>1. CASE Enter(t) \/ Own(t) \/ Oper(t) \/ OperOver(t) \/ Ioper(t)
  BY <1>1, EnterNa, OwnNa, OperNa, OperOverNa, IoperNa
<1>2. CASE SendSmall(t) \/ SendLarge(t) \/ SendHandle(t) \/ Sent(t) \/ HandleSent(t)
  BY <1>2, SendSmallNa, SendLargeNa, SendHandleNa, SentNa, HandleSentNa
<1>3. CASE Acknowledged(t) \/ Recv(t) \/ Received(t) \/ Fetched(t)
  BY <1>3, AcknowledgedNa, RecvNa, ReceivedNa
<1>4. CASE TakeQueued(t) \/ Claim(t) \/ Listen(t) \/ StopListening(t) \/ Reap(t)
  BY <1>4, TakeQueuedNa, ClaimNa, ListenNa, StopListeningNa, ReapNa
<1>5. CASE CopySmall(t) \/ GetLarge(t) \/ Acknowledge(t)
  BY <1>5, CopySmallNa, GetLargeNa, AcknowledgeNa
<1>6. QED
  BY <1>1, <1>2, <1>3, <1>4, <1>5 DEF Step

LEMMA NextNa ==
  ASSUME Inv, NaInv, [Goes]_vars
  PROVE  NaInv'
<1>0. PlaceInv /\ NaTyped
  BY DEF Inv
<1>1. CASE UNCHANGED vars
  <2>1. pool' = pool /\ ult' = ult /\ na' = na
    BY <1>1 DEF vars
  <2>2. \A o \in na : Pends(o)' /\ Owned(o)'
    BY <2>1 DEF NaInv, Pends, Owned, Waits, Awaits, Brought, Shared, Gone, Slot, Stack, UserOp,
       NoBuffer, OwnSlots, Prob, ProbMsg, ProbId, ProbReq
  <2> QED
    BY <2>1, <2>2 DEF NaInv
<1>2. CASE Complete \/ CancelProbe \/ ReapProbe \/ Free
  BY <1>0, <1>2, CompleteNa, CancelProbeNa, ReapProbeNa, FreeNa
<1>3. CASE \E t \in Threads : Step(t)
  BY <1>0, <1>3, StepNa
<1>4. QED
  BY <1>1, <1>2, <1>3 DEF Goes

LEMMA InvOwns ==
  ASSUME Inv, NaInv
  PROVE  NAOwns
<1>1. PoolOK(pool) /\ PlaceInv
  BY DEF Inv, PlaceInv
<1>2. \A x : x \in Reusable <=> OnList(pool, x) \/ x \in pool.freed
  BY DEF Reusable, OnList
<1>3. \A x \in Reusable : x \in Objects
  BY <1>1, <1>2, PoolObjects
<1>4. /\ \A s \in DOMAIN pool.use : pool.use[s] \notin Reusable
      /\ \A x \in pool.lost : x \notin Reusable
  BY <1>1, <1>2, PoolObjects DEF PoolOK, OnePlace
<1>5. NoBuffer \notin Reusable /\ \A t : Stack(t) \notin Reusable /\ UserOp(t) \notin Reusable
  BY <1>3 DEF Objects, Kinds, NoBuffer, Stack, UserOp
<1>6. SUFFICES ASSUME NEW o \in na
               PROVE  /\ o.buf \notin Reusable /\ o.req \notin Reusable
                      /\ o.op \in Reusable => o.cancelled
  BY DEF NAOwns
<1>7. CASE \E t \in Threads : Waits(t, o)
  BY <1>4, <1>5, <1>7 DEF Waits
<1>8. CASE \E t \in Threads : Awaits(t, o)
  <2>1. PICK t \in Threads : Awaits(t, o)
    BY <1>8
  <2>2. \A role \in {"ack", "ackop", "ackreq"} : pool.use[Slot(t, role)] \notin Reusable
    BY <1>1, <1>4, <2>1, OwnersHold
  <2> QED
    BY <2>1, <2>2 DEF Awaits
<1>9. CASE \E t \in Threads : Brought(t, o)
  <2>1. PICK t \in Threads : Brought(t, o)
    BY <1>9
  <2>2. pool.use[Slot(t, "req")] \notin Reusable
    BY <1>1, <1>4, <2>1, OwnersHold
  <2> QED
    BY <1>5, <2>1, <2>2 DEF Brought
<1>10. CASE Shared(o)
  BY <1>4, <1>10, ProbKinds DEF Shared
<1>11. CASE Gone(o)
  BY <1>4, <1>5, <1>11 DEF Gone
<1>12. QED
  BY <1>7, <1>8, <1>9, <1>10, <1>11 DEF NaInv, Owned

(***************************************************************************)
(* What NA works on is nobody else's: as long as NA has an operation, the  *)
(* buffer it may write to and the request whose eventual mona_callback     *)
(* will set are on no list and not freed, even when the call has failed    *)
(* and gone (the `error' exits of mona_send_mem and mona_usend_mem), and   *)
(* an operation id that is on the list again has been cancelled.  Said of  *)
(* the states before a receive gives back a buffer it has queued           *)
(* (mona-unexpected.c:523), which NA may then be handed a second time.     *)
(***************************************************************************)
THEOREM NAKeepsItsOwn == Spec => []NAOwns
<1>1. Init => Inv /\ NaInv
  BY InitInv DEF Init, NaInv
<1>2. (ListsIntact => Inv /\ NaInv) /\ [Next]_vars => (ListsIntact => Inv /\ NaInv)'
  BY GoesOn, NextInv, NextNa
<1>3. (ListsIntact => Inv /\ NaInv) => NAOwns
  BY InvOwns DEF NAOwns
<1>4. QED
  BY <1>1, <1>2, <1>3, PTL DEF Spec

-----------------------------------------------------------------------------
(***************************************************************************)
(* The eventuals.  Each request of the cache, and each that is held, has   *)
(* one: a new one is given it, one that is waited for with success is      *)
(* freed with it, and one whose operation failed is forgotten by whoever   *)
(* waited.  Not so once a mona_iput or mona_iget has run out of memory.    *)
(* E are the slots whose request has just lost its own.                    *)
(***************************************************************************)
WithEventual(p, r) == r[1] = "req" /\ ~ short => r \in DOMAIN p.ev

Equipped(p, E) ==
  /\ \A k \in Kinds : \A i \in 1..Len(p.free[k]) : WithEventual(p, p.free[k][i])
  /\ \A s \in DOMAIN p.use : s \notin E => WithEventual(p, p.use[s])

Grown(p, q, slot) ==
  /\ \A s : s \in DOMAIN q.use <=> s \in DOMAIN p.use \/ s = slot
  /\ \A s \in DOMAIN p.use : s # slot => q.use[s] = p.use[s]

UseTyped(p) == \A s \in DOMAIN p.use : p.use[s] \in Objects

Sound(p, E) == ListsTyped(p) /\ UseTyped(p) /\ Equipped(p, E)

EventualInv == up = "up" => Equipped(pool, {})

LEMMA SoundFirst ==
  ASSUME PlaceInv, EventualInv, up = "up"
  PROVE  Sound(pool, {})
<1>1. UseTyped(pool)
  BY PoolObjects DEF PlaceInv, UseTyped
<1>2. QED
  BY <1>1 DEF PlaceInv, PoolOK, PoolTyped, IsPool, ListsTyped, Sound, EventualInv

(***************************************************************************)
(* What Get takes from a list or makes.                                    *)
(***************************************************************************)
LEMMA SoundPop ==
  ASSUME NEW p, NEW E, Sound(p, E), NEW slot, NEW kind \in Kinds,
         NEW q, q = Get(p, slot, kind)
  PROVE  /\ ListsTyped(q) /\ UseTyped(q) /\ q.ev = p.ev /\ q.lost = p.lost
         /\ \A k \in Kinds : \A i \in 1..Len(q.free[k]) : WithEventual(p, q.free[k][i])
         /\ \A s \in DOMAIN q.use : s \notin E /\ s # slot => WithEventual(p, q.use[s])
         /\ Grown(p, q, slot)
         /\ IF p.free[kind] = << >> THEN q.use[slot][1] = kind
                                    ELSE WithEventual(p, q.use[slot])
<1>1. /\ ListsTyped(p) /\ p.free[kind] \in Seq(Objects) /\ p.made[kind] \in Nat
      /\ p.made \in [Kinds -> Nat]
  BY DEF Sound, ListsTyped
<1>2. CASE p.free[kind] # << >>
  <2>1. PICK l, f, u : /\ l = Tail(p.free[kind]) /\ f = [p.free EXCEPT ![kind] = l]
                       /\ u = With(p.use, slot, Head(p.free[kind]))
    OBVIOUS
  <2>2. /\ l \in Seq(Objects) /\ Len(l) = Len(p.free[kind]) - 1
        /\ Len(p.free[kind]) \in Nat \ {0} /\ Head(p.free[kind]) = p.free[kind][1]
        /\ \A j \in 1..(Len(p.free[kind]) - 1) : l[j] = p.free[kind][j + 1]
    BY <1>1, <1>2, <2>1, HeadTailProperties, EmptySeq, LenProperties
  <2>3. \A i \in 1..Len(l) : WithEventual(p, l[i])
    BY <2>2, SMTT(30) DEF Sound, Equipped
  <2>4. WithEventual(p, Head(p.free[kind])) /\ Head(p.free[kind]) \in Objects
    BY <1>1, <1>2, <2>2, HeadTailProperties, EmptySeq DEF Sound, Equipped
  <2>5. /\ f \in [Kinds -> Seq(Objects)] /\ f[kind] = l
        /\ \A k \in Kinds \ {kind} : f[k] = p.free[k]
    BY <1>1, <2>1, <2>2 DEF ListsTyped
  <2>6. q = [p EXCEPT !.free = f, !.use = u]
    BY <1>1, <1>2, <2>1 DEF Get, ListsTyped
  <2>7. ListsTyped(q) /\ q.ev = p.ev /\ q.lost = p.lost /\ q.free = f /\ q.use = u
    BY <1>1, <2>5, <2>6 DEF ListsTyped
  <2>8. \A k \in Kinds : \A i \in 1..Len(f[k]) : WithEventual(p, f[k][i])
    BY <2>3, <2>5 DEF Sound, Equipped
  <2>9. /\ \A s : s \in DOMAIN u <=> s \in DOMAIN p.use \/ s = slot
        /\ u[slot] = Head(p.free[kind])
        /\ \A s \in DOMAIN p.use : s # slot => u[s] = p.use[s]
    BY <2>1, WithProperties
  <2> QED
    BY <1>2, <2>4, <2>7, <2>8, <2>9 DEF Sound, Equipped, UseTyped, Grown
<1>3. CASE p.free[kind] = << >>
  <2>1. PICK n, m, u : /\ n = p.made[kind] + 1 /\ m = [p.made EXCEPT ![kind] = n]
                       /\ u = With(p.use, slot, <<kind, n>>)
    OBVIOUS
  <2>2. m \in [Kinds -> Nat] /\ <<kind, n>> \in Objects
    BY <1>1, <2>1 DEF Objects
  <2>3. q = [p EXCEPT !.made = m, !.use = u]
    BY <1>1, <1>3, <2>1 DEF Get, ListsTyped
  <2>4. ListsTyped(q) /\ q.ev = p.ev /\ q.lost = p.lost /\ q.free = p.free /\ q.use = u
    BY <1>1, <2>2, <2>3 DEF ListsTyped
  <2>5. /\ \A s : s \in DOMAIN u <=> s \in DOMAIN p.use \/ s = slot
        /\ u[slot] = <<kind, n>>
        /\ \A s \in DOMAIN p.use : s # slot => u[s] = p.use[s]
    BY <2>1, WithProperties
  <2> QED
    BY <1>3, <2>2, <2>4, <2>5 DEF Sound, Equipped, UseTyped, Grown
<1>4. QED
  BY <1>2, <1>3

LEMMA SoundGet ==
  ASSUME NEW p, NEW E, Sound(p, E), NEW slot, NEW kind \in Kinds \ {"req"},
         NEW q, q = Get(p, slot, kind)
  PROVE  Sound(q, E) /\ Grown(p, q, slot) /\ q.lost = p.lost
<1>1. /\ ListsTyped(q) /\ UseTyped(q) /\ q.ev = p.ev /\ q.lost = p.lost /\ Grown(p, q, slot)
      /\ \A k \in Kinds : \A i \in 1..Len(q.free[k]) : WithEventual(p, q.free[k][i])
      /\ \A s \in DOMAIN q.use : s \notin E /\ s # slot => WithEventual(p, q.use[s])
      /\ q.use[slot][1] = kind \/ WithEventual(p, q.use[slot])
  BY SoundPop
<1>2. WithEventual(p, q.use[slot])
  BY <1>1 DEF WithEventual
<1>3. QED
  BY <1>1, <1>2 DEF Sound, Equipped, UseTyped, WithEventual, Grown

(***************************************************************************)
(* A value for one eventual takes none away.                               *)
(***************************************************************************)
LEMMA SoundSet ==
  ASSUME NEW p, NEW E, Sound(p, E), NEW r, NEW v, NEW q, q = SetEventual(p, r, v)
  PROVE  Sound(q, E) /\ q.use = p.use /\ q.lost = p.lost
<1>1. PICK e : e = With(p.ev, r, v)
  OBVIOUS
<1>2. ListsTyped(q) /\ q.free = p.free /\ q.use = p.use /\ q.ev = e /\ q.lost = p.lost
  BY <1>1 DEF SetEventual, Sound, ListsTyped
<1>3. \A x : x \in DOMAIN p.ev => x \in DOMAIN e
  BY <1>1, WithProperties
<1>4. QED
  BY <1>2, <1>3 DEF Sound, Equipped, UseTyped, WithEventual

LEMMA SoundGetReq ==
  ASSUME NEW p, NEW E, Sound(p, E), NEW slot, NEW q, q = GetReq(p, slot)
  PROVE  Sound(q, E) /\ Grown(p, q, slot) /\ q.lost = p.lost
<1>1. PICK g, o : g = Get(p, slot, "req") /\ o = g.use[slot]
  OBVIOUS
<1>2. /\ ListsTyped(g) /\ UseTyped(g) /\ g.ev = p.ev /\ g.lost = p.lost /\ Grown(p, g, slot)
      /\ \A k \in Kinds : \A i \in 1..Len(g.free[k]) : WithEventual(p, g.free[k][i])
      /\ \A s \in DOMAIN g.use : s \notin E /\ s # slot => WithEventual(p, g.use[s])
      /\ p.free["req"] # << >> => WithEventual(p, o)
  BY <1>1, SoundPop DEF Kinds
<1>3. q = IF p.free["req"] = << >> \/ o \in DOMAIN p.ev THEN SetEventual(g, o, "unset") ELSE g
  BY <1>1 DEF GetReq
<1>4. CASE q = SetEventual(g, o, "unset")
  <2>1. PICK e : e = With(g.ev, o, "unset")
    OBVIOUS
  <2>2. ListsTyped(q) /\ q.free = g.free /\ q.use = g.use /\ q.ev = e /\ q.lost = g.lost
    BY <1>2, <1>4, <2>1 DEF SetEventual, ListsTyped
  <2>3. o \in DOMAIN e /\ \A x : x \in DOMAIN p.ev => x \in DOMAIN e
    BY <1>2, <2>1, WithProperties
  <2> QED
    BY <1>1, <1>2, <2>2, <2>3 DEF Sound, Equipped, UseTyped, WithEventual, Grown
<1>5. CASE q = g /\ WithEventual(p, o)
  BY <1>1, <1>2, <1>5 DEF Sound, Equipped, UseTyped, WithEventual, Grown
<1>6. QED
  BY <1>2, <1>3, <1>4, <1>5

LEMMA SoundReturn ==
  ASSUME NEW p, NEW E, Sound(p, E), NEW slot, slot \in DOMAIN p.use, slot \notin E,
         NEW list \in Kinds, NEW q, q = Return(p, slot, list)
  PROVE  /\ Sound(q, E) /\ q.lost = p.lost
         /\ \A s : s \in DOMAIN q.use <=> s \in DOMAIN p.use /\ s # slot
         /\ \A s \in DOMAIN p.use : s # slot => q.use[s] = p.use[s]
<1>1. ListsTyped(p) /\ p.free[list] \in Seq(Objects)
  BY DEF Sound, ListsTyped
<1>2. PICK o, l, f, u : /\ o = p.use[slot] /\ l = <<o>> \o p.free[list]
                        /\ f = [p.free EXCEPT ![list] = l] /\ u = Without(p.use, {slot})
  OBVIOUS
<1>3. WithEventual(p, o) /\ o \in Objects
  BY <1>2 DEF Sound, Equipped, UseTyped, Grown
<1>4. l \in Seq(Objects) /\ \A i \in 1..Len(l) : WithEventual(p, l[i])
  <2>1. <<o>> \in Seq(Objects) /\ Len(<<o>>) = 1 /\ <<o>>[1] = o
    BY <1>3
  <2>2. /\ l \in Seq(Objects) /\ Len(l) = Len(<<o>>) + Len(p.free[list])
        /\ \A i \in 1..(Len(<<o>>) + Len(p.free[list])) :
             l[i] = IF i <= Len(<<o>>) THEN <<o>>[i] ELSE p.free[list][i - Len(<<o>>)]
    BY <1>1, <1>2, <2>1, ConcatProperties
  <2>3. Len(p.free[list]) \in Nat
    BY <1>1, LenProperties
  <2>4. ASSUME NEW i \in 1..Len(l) PROVE WithEventual(p, l[i])
    <3>1. CASE i = 1
      BY <1>3, <2>1, <2>2, <2>3, <3>1
    <3>2. CASE i # 1
      <4>1. i - 1 \in 1..Len(p.free[list]) /\ l[i] = p.free[list][i - 1]
        BY <2>1, <2>2, <2>3, <3>2
      <4> QED
        BY <4>1 DEF Sound, Equipped
    <3> QED
      BY <3>1, <3>2
  <2> QED
    BY <2>2, <2>4
<1>5. /\ f \in [Kinds -> Seq(Objects)] /\ f[list] = l
      /\ \A k \in Kinds \ {list} : f[k] = p.free[k]
  BY <1>1, <1>2, <1>4 DEF ListsTyped
<1>6. \A k \in Kinds : \A i \in 1..Len(f[k]) : WithEventual(p, f[k][i])
  BY <1>4, <1>5 DEF Sound, Equipped
<1>7. q = [p EXCEPT !.free = f, !.use = u]
  BY <1>1, <1>2 DEF Return, ListsTyped
<1>8. ListsTyped(q) /\ q.free = f /\ q.use = u /\ q.ev = p.ev /\ q.lost = p.lost
  BY <1>1, <1>5, <1>7 DEF ListsTyped
<1>9. /\ \A s : s \in DOMAIN u <=> s \in DOMAIN p.use /\ s # slot
      /\ \A s \in DOMAIN p.use : s # slot => u[s] = p.use[s]
  BY <1>2, WithoutProperties
<1>10. QED
  BY <1>6, <1>8, <1>9 DEF Sound, Equipped, UseTyped, WithEventual

LEMMA SoundMove ==
  ASSUME NEW p, Sound(p, {}), NEW from, from \in DOMAIN p.use, NEW to, NEW q, q = Move(p, from, to)
  PROVE  /\ Sound(q, {}) /\ q.lost = p.lost
         /\ \A s : s \in DOMAIN q.use => s \in DOMAIN p.use \/ s = to
         /\ \A s \in DOMAIN p.use :
              s # from /\ s # to => s \in DOMAIN q.use /\ q.use[s] = p.use[s]
<1>1. PICK w, u : w = Without(p.use, {from}) /\ u = With(w, to, p.use[from])
  OBVIOUS
<1>2. /\ \A s : s \in DOMAIN w <=> s \in DOMAIN p.use /\ s # from
      /\ \A s \in DOMAIN p.use : s # from => w[s] = p.use[s]
  BY <1>1, WithoutProperties
<1>3. /\ \A s : s \in DOMAIN u <=> s \in DOMAIN w \/ s = to
      /\ u[to] = p.use[from] /\ \A s \in DOMAIN w : s # to => u[s] = w[s]
  BY <1>1, WithProperties
<1>4. ListsTyped(q) /\ q.free = p.free /\ q.use = u /\ q.ev = p.ev /\ q.lost = p.lost
  BY <1>1 DEF Move, Sound, ListsTyped
<1>5. QED
  BY <1>2, <1>3, <1>4 DEF Sound, Equipped, UseTyped, WithEventual

LEMMA SoundForget ==
  ASSUME NEW p, NEW E, Sound(p, E), NEW slots, E \subseteq slots, NEW q, q = Forget(p, slots)
  PROVE  /\ Sound(q, {})
         /\ q.lost = p.lost \cup {p.use[s] : s \in slots \cap DOMAIN p.use}
         /\ \A s : s \in DOMAIN q.use <=> s \in DOMAIN p.use /\ s \notin slots
         /\ \A s \in DOMAIN q.use : q.use[s] = p.use[s]
<1>1. PICK g, u, d : /\ g = slots \cap DOMAIN p.use /\ u = Without(p.use, g)
                     /\ d = p.lost \cup {p.use[s] : s \in g}
  OBVIOUS
<1>2. /\ \A s : s \in DOMAIN u <=> s \in DOMAIN p.use /\ s \notin g
      /\ \A s \in DOMAIN p.use : s \notin g => u[s] = p.use[s]
  BY <1>1, WithoutProperties
<1>3. ListsTyped(q) /\ q.free = p.free /\ q.use = u /\ q.ev = p.ev /\ q.lost = d
  BY <1>1 DEF Forget, Sound, ListsTyped
<1>4. QED
  BY <1>1, <1>2, <1>3 DEF Sound, Equipped, UseTyped, WithEventual

(***************************************************************************)
(* The stack of a ULT is not a request of the cache.                       *)
(***************************************************************************)
LEMMA SoundDrop ==
  ASSUME NEW p, NEW E, Sound(p, E), NEW t, NEW q, q = DropEventual(p, Stack(t))
  PROVE  Sound(q, E) /\ q.use = p.use /\ q.lost = p.lost
<1>1. PICK e : e = Without(p.ev, {Stack(t)})
  OBVIOUS
<1>2. ListsTyped(q) /\ q.free = p.free /\ q.use = p.use /\ q.ev = e /\ q.lost = p.lost
  BY <1>1 DEF DropEventual, Sound, ListsTyped
<1>3. \A x : x \in DOMAIN p.ev /\ x[1] = "req" => x \in DOMAIN e
  BY <1>1, WithoutProperties DEF Stack
<1>4. QED
  BY <1>2, <1>3 DEF Sound, Equipped, UseTyped, WithEventual

(***************************************************************************)
(* mona_wait: the slot keeps a request without eventual, or nothing.       *)
(***************************************************************************)
LEMMA SoundWait ==
  ASSUME PlaceInv, Sound(pool, {}), NEW slot \in DOMAIN pool.use, NEW q, q = Wait(pool, slot)
  PROVE  /\ Sound(q, {slot}) /\ q.lost = pool.lost
         /\ \A s : s # slot => (s \in DOMAIN q.use <=> s \in DOMAIN pool.use)
         /\ \A s \in DOMAIN pool.use : s # slot => q.use[s] = pool.use[s]
         /\ slot \in DOMAIN q.use <=> pool.ev[pool.use[slot]] # "ok"
         /\ slot \in DOMAIN q.use => q.use[slot] = pool.use[slot]
<1>1. PICK r, e, u : /\ r = pool.use[slot] /\ e = Without(pool.ev, {r})
                     /\ u = IF pool.ev[r] = "ok" THEN Without(pool.use, {slot}) ELSE pool.use
  OBVIOUS
<1>2. /\ \A x : x \in DOMAIN e <=> x \in DOMAIN pool.ev /\ x # r
      /\ \A s : s # slot => (s \in DOMAIN u <=> s \in DOMAIN pool.use)
      /\ \A s \in DOMAIN pool.use : s # slot => u[s] = pool.use[s]
      /\ slot \in DOMAIN u <=> pool.ev[r] # "ok"
      /\ slot \in DOMAIN u => u[slot] = pool.use[slot]
  BY <1>1, WithoutProperties
<1>3. PICK f : q = [pool EXCEPT !.use = u, !.ev = e, !.freed = f]
  <2>1. PICK d : d = DropEventual(pool, r)
    OBVIOUS
  <2>2. d = [pool EXCEPT !.ev = e] /\ d.use = pool.use /\ ListsTyped(d)
    BY <1>1, <2>1 DEF DropEventual, Sound, ListsTyped
  <2>3. q = IF pool.ev[r] = "ok"
              THEN [d EXCEPT !.use = Without(@, {slot}), !.freed = @ \cup {r}] ELSE d
    BY <1>1, <2>1 DEF Wait, WaitInternal
  <2>4. CASE pool.ev[r] = "ok"
    <3>1. PICK f : f = d.freed \cup {r}
      OBVIOUS
    <3>2. q = [pool EXCEPT !.use = u, !.ev = e, !.freed = f]
      BY <1>1, <2>2, <2>3, <2>4, <3>1 DEF Sound, ListsTyped
    <3> QED
      BY <3>2
  <2>5. CASE pool.ev[r] # "ok"
    <3>1. q = [pool EXCEPT !.use = u, !.ev = e, !.freed = pool.freed]
      BY <1>1, <2>2, <2>3, <2>5 DEF Sound, ListsTyped
    <3> QED
      BY <3>1
  <2> QED
    BY <2>4, <2>5
<1>4. /\ ListsTyped(q) /\ q.free = pool.free /\ q.use = u /\ q.ev = e /\ q.lost = pool.lost
  BY <1>3 DEF Sound, ListsTyped
<1>5. \A k \in Kinds : \A i \in 1..Len(pool.free[k]) : pool.free[k][i] # r
  <2>1. ~ OnList(pool, r)
    BY <1>1, PoolObjects DEF PlaceInv, PoolOK, OnePlace
  <2> QED
    BY <2>1 DEF OnList, ToSet
<1>6. \A s \in DOMAIN pool.use : s # slot => pool.use[s] # r
  BY <1>1 DEF PlaceInv, PoolOK, OnePlace
<1>7. \A k \in Kinds : \A i \in 1..Len(q.free[k]) : WithEventual(q, q.free[k][i])
  BY <1>2, <1>4, <1>5 DEF Sound, Equipped, UseTyped, WithEventual
<1>8. \A s \in DOMAIN q.use : s # slot => WithEventual(q, q.use[s])
  BY <1>2, <1>4, <1>6 DEF Sound, Equipped, UseTyped, WithEventual
<1>9. Sound(q, {slot})
  BY <1>1, <1>2, <1>4, <1>7, <1>8 DEF Sound, Equipped, UseTyped
<1>10. QED
  BY <1>1, <1>2, <1>4, <1>9
(***************************************************************************)
(* The end of a call, and a blocking operation.                            *)
(***************************************************************************)
Left(t) == {Slot(t, role) : role \in {"op", "ack", "ackop", "ackreq"}}

LEMMA SoundGiveBack ==
  ASSUME NEW p, NEW E, Sound(p, E), NEW t, NEW role, Slot(t, role) \notin E,
         call(t).path \in Kinds \/ Slot(t, role) \notin DOMAIN p.use,
         NEW q, q = GiveBack(p, t, role)
  PROVE  /\ Sound(q, E) /\ q.lost = p.lost
         /\ \A s : s \in DOMAIN q.use <=> s \in DOMAIN p.use /\ s # Slot(t, role)
         /\ \A s \in DOMAIN q.use : q.use[s] = p.use[s]
<1>1. CASE Slot(t, role) \in DOMAIN p.use
  <2>1. q = Return(p, Slot(t, role), call(t).path) /\ call(t).path \in Kinds
    BY <1>1 DEF GiveBack, ReturnMsg
  <2> QED
    BY <1>1, <2>1, SoundReturn
<1>2. CASE Slot(t, role) \notin DOMAIN p.use
  BY <1>2 DEF GiveBack
<1>3. QED
  BY <1>1, <1>2

LEMMA SoundLeave ==
  ASSUME NEW t \in Threads, NEW p, NEW E, Sound(p, E), E \subseteq Left(t), PathOK(t, p),
         NEW q, q = Leave(p, t)
  PROVE  /\ Sound(q, {})
         /\ q.lost = p.lost \cup {p.use[s] : s \in Left(t) \cap DOMAIN p.use}
         /\ Slot(t, "req") \in DOMAIN p.use =>
              Slot(t, "req") \in DOMAIN q.use /\ q.use[Slot(t, "req")] = p.use[Slot(t, "req")]
<1>1. PICK a, b : a = GiveBack(p, t, "mem") /\ b = GiveBack(a, t, "msg")
  OBVIOUS
<1>2. Slot(t, "mem") \notin Left(t) /\ Slot(t, "msg") \notin Left(t)
  BY DEF Left, Slot
<1>3. /\ Sound(a, E) /\ a.lost = p.lost
      /\ \A s : s \in DOMAIN a.use <=> s \in DOMAIN p.use /\ s # Slot(t, "mem")
      /\ \A s \in DOMAIN a.use : a.use[s] = p.use[s]
  BY <1>1, <1>2, SoundGiveBack DEF PathOK
<1>4. /\ Sound(b, E) /\ b.lost = a.lost
      /\ \A s : s \in DOMAIN b.use <=> s \in DOMAIN a.use /\ s # Slot(t, "msg")
      /\ \A s \in DOMAIN b.use : b.use[s] = a.use[s]
  BY <1>1, <1>2, <1>3, SoundGiveBack DEF PathOK
<1>5. q = Forget(b, Locals(t))
  BY <1>1 DEF Leave
<1>6. Locals(t) = Left(t) \cup {Slot(t, "mem"), Slot(t, "msg")}
  BY DEF Locals, Left
<1>7. /\ Sound(q, {})
      /\ q.lost = b.lost \cup {b.use[s] : s \in Locals(t) \cap DOMAIN b.use}
      /\ \A s : s \in DOMAIN q.use <=> s \in DOMAIN b.use /\ s \notin Locals(t)
      /\ \A s \in DOMAIN q.use : q.use[s] = b.use[s]
  BY <1>4, <1>5, <1>6, SoundForget
<1>8. Locals(t) \cap DOMAIN b.use = Left(t) \cap DOMAIN p.use
  BY <1>2, <1>3, <1>4, <1>6
<1>9. \A s \in Left(t) \cap DOMAIN p.use : b.use[s] = p.use[s]
  BY <1>2, <1>3, <1>4
<1>10. /\ Slot(t, "req") \notin Locals(t)
       /\ Slot(t, "req") # Slot(t, "mem") /\ Slot(t, "req") # Slot(t, "msg")
  BY DEF Locals, Slot
<1>11. QED
  BY <1>3, <1>4, <1>7, <1>8, <1>9, <1>10

LEMMA SoundFinish ==
  ASSUME NEW t \in Threads, NEW p, NEW E, Sound(p, E), E \subseteq Left(t), PathOK(t, p),
         NEW status, Finish(t, p, status)
  PROVE  /\ Sound(pool', {})
         /\ pool'.lost = p.lost \cup {p.use[s] : s \in Left(t) \cap DOMAIN p.use}
<1>1. PICK q : q = Leave(p, t)
  OBVIOUS
<1>2. /\ Sound(q, {})
      /\ q.lost = p.lost \cup {p.use[s] : s \in Left(t) \cap DOMAIN p.use}
  BY <1>1, SoundLeave
<1>3. pool' = q \/ pool' = SetEventual(q, Object(t, "req"), status)
  BY <1>1 DEF Finish
<1>4. QED
  BY <1>2, <1>3, SoundSet

LEMMA SoundBlock ==
  ASSUME NEW t, NEW p, Sound(p, {}), NEW buf, NEW l, StartBlocking(t, p, buf, l)
  PROVE  Sound(pool', {}) /\ pool'.lost = p.lost
<1>1. PICK q : q = Get(p, Slot(t, "op"), "op")
  OBVIOUS
<1>2. Sound(q, {}) /\ q.lost = p.lost
  BY <1>1, SoundGet DEF Kinds
<1>3. pool' = SetEventual(q, Stack(t), "unset") \/ pool' = SetEventual(q, Stack(t), "error")
  BY <1>1 DEF StartBlocking, GetOpId
<1>4. QED
  BY <1>2, <1>3, SoundSet

LEMMA SoundAfter ==
  ASSUME PlaceInv, Sound(pool, {}), NEW t \in Threads, ult[t].pc \in Blocked,
         NEW q, q = AfterBlocking(t)
  PROVE  /\ Sound(q, {}) /\ q.lost = pool.lost
         /\ \A s : s \in DOMAIN q.use <=> s \in DOMAIN pool.use /\ s # Slot(t, "op")
         /\ \A s \in DOMAIN q.use : q.use[s] = pool.use[s]
<1>1. PICK r : r = DropEventual(pool, Stack(t))
  OBVIOUS
<1>2. Sound(r, {}) /\ r.use = pool.use /\ r.lost = pool.lost
  BY <1>1, SoundDrop
<1>3. Slot(t, "op") \in DOMAIN r.use /\ "op" \in Kinds
  <2>1. "op" \in Roles /\ Has(ult[t], "op")
    BY DEF Roles, LocalRoles, Has, LocalAt
  <2> QED
    BY <1>2, <2>1 DEF PlaceInv, SlotInv, Kinds
<1>4. q = Return(r, Slot(t, "op"), "op")
  BY <1>1 DEF AfterBlocking, ReturnOpId, WaitInternal
<1>5. QED
  BY <1>2, <1>3, <1>4, SoundReturn

(***************************************************************************)
(* The steps of a call.  Most forget nothing.                              *)
(***************************************************************************)
NothingLeft(p, t) == \A s \in Left(t) : s \notin DOMAIN p.use

Kept == Sound(pool', {}) /\ pool'.lost = pool.lost

LEMMA LeftSlots ==
  ASSUME PlaceInv, NEW t \in Threads
  PROVE  /\ ult[t].pc \notin Blocked \cup Handing => NothingLeft(pool, t)
         /\ ult[t].pc \in Blocked \ Handing =>
              \A s \in Left(t) : s \in DOMAIN pool.use => s = Slot(t, "op")
         /\ \A s \in Prob \cup {Slot(t, "msg"), Slot(t, "mem"), Slot(t, "req")} : s \notin Left(t)
<1>1. \A role \in {"op", "ack", "ackop", "ackreq"} :
        /\ Slot(t, role) \in DOMAIN pool.use =>
             IF role = "op" THEN ult[t].pc \in Blocked ELSE ult[t].pc \in Handing
        /\ Slot(t, role) \notin Prob
  BY Slots DEF PlaceInv, SlotInv, Has, LocalAt, Roles, LocalRoles
<1>2. QED
  BY <1>1 DEF NothingLeft, Left, Slot

LEMMA FinishKept ==
  ASSUME PlaceInv, NEW t \in Threads, NEW p, Sound(p, {}), p.lost = pool.lost,
         NothingLeft(p, t), PathOK(t, p), NEW status, Finish(t, p, status)
  PROVE  Kept
<1>1. PICK E : E = {}
  OBVIOUS
<1>2. /\ Sound(pool', {})
      /\ pool'.lost = p.lost \cup {p.use[s] : s \in Left(t) \cap DOMAIN p.use}
  BY <1>1, SoundFinish
<1>3. Left(t) \cap DOMAIN p.use = {}
  BY DEF NothingLeft
<1>4. pool'.lost = p.lost
  BY <1>2, <1>3
<1>5. QED
  BY <1>2, <1>4 DEF Kept

LEMMA SayingKept ==
  ASSUME PlaceInv, NEW t \in Threads, ult[t].pc # "idle", call(t).op \in {"send", "recv", "probe"},
         NEW p, Sound(p, {}), p.lost = pool.lost,
         NothingLeft(p, t), NEW status, Finish(t, p, status)
  PROVE  Kept
BY PathsOK, FinishKept

LEMMA BlockKept ==
  ASSUME NEW t, NEW p, Sound(p, {}), p.lost = pool.lost, NEW buf, NEW l,
         StartBlocking(t, p, buf, l)
  PROVE  Kept
BY SoundBlock DEF Kept

(***************************************************************************)
(* Those that wait for one blocking operation only.                        *)
(***************************************************************************)
LEMMA OverKept ==
  ASSUME PlaceInv, Sound(pool, {}), NEW t \in Threads,
         \/ OperOver(t) \/ Sent(t) \/ Received(t) \/ Fetched(t)
         \/ HandleSent(t) /\ Value(Stack(t)) = "ok"
  PROVE  Kept
<1>1. PICK q : q = AfterBlocking(t)
  OBVIOUS
<1>2. ult[t].pc \in Blocked
  BY DEF OperOver, Sent, Received, Fetched, HandleSent, At, Blocked
<1>3. /\ Sound(q, {}) /\ q.lost = pool.lost
      /\ \A s : s \in DOMAIN q.use <=> s \in DOMAIN pool.use /\ s # Slot(t, "op")
  BY <1>1, <1>2, SoundAfter
<1>4. CASE pool' = q
  BY <1>3, <1>4 DEF Kept
<1>5. CASE (\E status : Finish(t, q, status)) /\ ult[t].pc \in {"oper", "sending", "receiving", "getting"}
  <2>1. ult[t].pc \in Blocked \ Handing
    BY <1>5 DEF Blocked, Handing
  <2>2. NothingLeft(q, t)
    BY <1>3, <2>1, LeftSlots DEF NothingLeft
  <2>3. PathOK(t, q)
    <3>1. CASE ult[t].pc = "oper"
      BY <1>3, <3>1 DEF PathOK, PlaceInv, SlotInv, Has, LocalAt, Roles, LocalRoles, Handing
    <3>2. CASE ult[t].pc # "oper"
      BY <1>5, <3>2, PathsOK DEF PlaceInv, UltInv, Fitting, call
    <3> QED
      BY <3>1, <3>2
  <2> QED
    BY <1>3, <1>5, <2>2, <2>3, FinishKept
<1>6. QED
  BY <1>1, <1>4, <1>5 DEF OperOver, Sent, Received, Fetched, HandleSent, At

LEMMA StartKept ==
  ASSUME PlaceInv, Sound(pool, {}), NEW t \in Threads,
         Oper(t) \/ SendSmall(t) \/ SendHandle(t) \/ Recv(t)
  PROVE  Kept
<1>1. CASE Oper(t) \/ SendHandle(t)
  BY <1>1, BlockKept DEF Oper, SendHandle
<1>2. CASE SendSmall(t) \/ Recv(t)
  <2>1. PICK path, p : path = call(t).path /\ p = Get(pool, Slot(t, "msg"), path)
    OBVIOUS
  <2>2. /\ ult[t].pc = "begin" /\ call(t).op \in {"send", "recv", "probe"}
        /\ \/ StartBlocking(t, p, p.use[Slot(t, "msg")], "sending")
           \/ StartBlocking(t, p, p.use[Slot(t, "msg")], "receiving")
           \/ Finish(t, p, "error")
    BY <1>2, <2>1 DEF SendSmall, Recv, At, GetMsg
  <2>3. path \in Kinds \ {"req"}
    <3>1. path \in {"expected", "unexpected"}
      BY <2>1, <2>2, CallOf
    <3> QED
      BY <3>1 DEF Kinds
  <2>4. Sound(p, {}) /\ Grown(pool, p, Slot(t, "msg")) /\ p.lost = pool.lost
    BY <2>1, <2>3, SoundGet
  <2>5. NothingLeft(p, t)
    <3>1. NothingLeft(pool, t)
      BY <2>2, LeftSlots DEF Blocked, Handing
    <3> QED
      BY <2>4, <3>1, LeftSlots DEF Grown, NothingLeft
  <2> QED
    BY <2>2, <2>4, <2>5, BlockKept, SayingKept
<1>3. QED
  BY <1>1, <1>2

(***************************************************************************)
(* Those that have a message.                                              *)
(***************************************************************************)
LEMMA MessageKept ==
  ASSUME PlaceInv, Sound(pool, {}), NEW t \in Threads,
         CopySmall(t) \/ GetLarge(t) \/ Acknowledge(t) \/ Claim(t) \/ StopListening(t)
  PROVE  Kept
<1>1. /\ ult[t].pc \in {"begin", "got", "acknowledge", "listening"}
      /\ \/ pool' = pool
         \/ \E buf, l : StartBlocking(t, pool, buf, l)
         \/ \E status : Finish(t, pool, status) /\ ult[t].pc # "begin"
  BY DEF CopySmall, GetLarge, Acknowledge, Claim, StopListening, At, WantsMessage
<1>2. NothingLeft(pool, t) /\ ult[t].pc # "idle"
  BY <1>1, LeftSlots DEF Blocked, Handing
<1>3. ult[t].pc # "begin" => call(t).op \in {"send", "recv", "probe"}
  BY <1>1 DEF PlaceInv, UltInv, Fitting, Listening, call
<1>4. CASE pool' = pool
  BY <1>4 DEF Kept
<1>5. CASE \E buf, l : StartBlocking(t, pool, buf, l)
  BY <1>5, BlockKept
<1>6. CASE \E status : Finish(t, pool, status) /\ ult[t].pc # "begin"
  BY <1>2, <1>3, <1>6, SayingKept
<1>7. QED
  BY <1>1, <1>4, <1>5, <1>6

LEMMA TakeQueuedKept ==
  ASSUME PlaceInv, Sound(pool, {}), NEW t \in Threads, TakeQueued(t)
  PROVE  Kept
<1>1. PICK s \in Queued :
        /\ ult[t].pc = "begin" /\ call(t).op \in {"recv", "probe"}
        /\ \/ pool' = Move(pool, s, Slot(t, "msg"))
           \/ Finish(t, pool, "ok")
  BY DEF TakeQueued, WantsMessage, At
<1>2. CASE pool' = Move(pool, s, Slot(t, "msg"))
  <2>1. s \in DOMAIN pool.use
    BY DEF Queued
  <2> QED
    BY <1>2, <2>1, SoundMove DEF Kept
<1>3. CASE Finish(t, pool, "ok")
  <2>1. NothingLeft(pool, t) /\ ult[t].pc # "idle"
    BY <1>1, LeftSlots DEF Blocked, Handing
  <2> QED
    BY <1>1, <1>3, <2>1, SayingKept
<1>4. QED
  BY <1>1, <1>2, <1>3

(***************************************************************************)
(* Posting the shared receive.                                             *)
(***************************************************************************)
LEMMA ListenKept ==
  ASSUME PlaceInv, Sound(pool, {}), NEW t \in Threads, Listen(t)
  PROVE  /\ Kept
         /\ ~ prob_active /\ prob_active' => pool'.ev[pool'.use[ProbReq]] = "unset"
<1>1. PICK a, b, p, c, d, e :
        /\ a = Get(pool, ProbMsg, "unexpected") /\ b = Get(a, ProbId, "op")
        /\ p = GetReq(b, ProbReq)
        /\ c = Return(p, ProbReq, "req") /\ d = Return(c, ProbMsg, "unexpected")
        /\ e = Return(d, ProbId, "op")
  OBVIOUS
<1>2. /\ ult[t].pc = "listen"
      /\ \/ pool' = pool /\ prob_active' = prob_active
         \/ pool' = SetEventual(p, p.use[ProbReq], "unset")
         \/ Finish(t, e, "error") /\ prob_active' = prob_active
  BY <1>1 DEF Listen, At, GetMsg, GetOpId, ReturnReq, ReturnMsg, ReturnOpId
<1>3. Sound(a, {}) /\ Grown(pool, a, ProbMsg) /\ a.lost = pool.lost
  BY <1>1, ProbKinds, SoundGet
<1>4. Sound(b, {}) /\ Grown(a, b, ProbId) /\ b.lost = a.lost
  <2>1. "op" # "req"
    OBVIOUS
  <2> QED
    BY <1>1, <1>3, <2>1, ProbKinds, SoundGet
<1>5. Sound(p, {}) /\ Grown(b, p, ProbReq) /\ p.lost = b.lost
  BY <1>1, <1>4, SoundGetReq
<1>6. /\ ProbReq \in DOMAIN p.use /\ ProbMsg \in DOMAIN p.use /\ ProbId \in DOMAIN p.use
  BY <1>3, <1>4, <1>5 DEF Grown
<1>7. /\ Sound(c, {}) /\ c.lost = p.lost
      /\ \A s : s \in DOMAIN c.use <=> s \in DOMAIN p.use /\ s # ProbReq
  BY <1>1, <1>5, <1>6, ProbKinds, SoundReturn
<1>8. /\ Sound(d, {}) /\ d.lost = c.lost
      /\ \A s : s \in DOMAIN d.use <=> s \in DOMAIN c.use /\ s # ProbMsg
  BY <1>1, <1>6, <1>7, ProbKinds, SoundReturn
<1>9. /\ Sound(e, {}) /\ e.lost = d.lost
      /\ \A s : s \in DOMAIN e.use <=> s \in DOMAIN d.use /\ s # ProbId
  BY <1>1, <1>6, <1>7, <1>8, ProbKinds, SoundReturn
<1>10. CASE Finish(t, e, "error") /\ prob_active' = prob_active
  <2>1. NothingLeft(pool, t) /\ ult[t].pc # "idle"
    BY <1>2, LeftSlots DEF Blocked, Handing
  <2>2. NothingLeft(e, t)
    BY <1>3, <1>4, <1>5, <1>7, <1>8, <1>9, <2>1 DEF Grown, NothingLeft
  <2>3. call(t).op \in {"send", "recv", "probe"}
    BY <1>2 DEF PlaceInv, UltInv, Fitting, Listening, call
  <2> QED
    BY <1>3, <1>4, <1>5, <1>7, <1>8, <1>9, <1>10, <2>1, <2>2, <2>3, SayingKept
<1>11. CASE pool' = SetEventual(p, p.use[ProbReq], "unset")
  <2>1. PICK o : o = p.use[ProbReq]
    OBVIOUS
  <2>2. Sound(pool', {}) /\ pool'.lost = p.lost /\ pool'.use = p.use /\ pool'.ev = With(p.ev, o, "unset")
    BY <1>5, <1>11, <2>1, SoundSet DEF SetEventual, Sound, ListsTyped
  <2>3. pool'.ev[pool'.use[ProbReq]] = "unset"
    BY <2>1, <2>2, WithProperties
  <2> QED
    BY <1>3, <1>4, <1>5, <2>2, <2>3 DEF Kept
<1>12. QED
  BY <1>2, <1>10, <1>11 DEF Kept

(***************************************************************************)
(* Requests.                                                               *)
(***************************************************************************)
LEMMA EnterKept ==
  ASSUME PlaceInv, Sound(pool, {}), NEW t \in Threads, Enter(t)
  PROVE  Kept
<1>1. PICK c : \/ pool' = pool \/ pool' = Request(pool, t, c)
               \/ pool' = Return(Request(pool, t, c), Slot(t, "req"), "req")
  BY DEF Enter, ReturnReq
<1>2. PICK a, p : a = GetReq(pool, Slot(t, "req")) /\ p = Request(pool, t, c)
  OBVIOUS
<1>3. Sound(a, {}) /\ Grown(pool, a, Slot(t, "req")) /\ a.lost = pool.lost
  BY <1>2, SoundGetReq
<1>4. p = a \/ p = SetEventual(a, a.use[Slot(t, "req")], "unset")
  BY <1>2 DEF Request
<1>5. Sound(p, {}) /\ p.use = a.use /\ p.lost = a.lost
  BY <1>3, <1>4, SoundSet
<1>6. Slot(t, "req") \in DOMAIN p.use /\ "req" \in Kinds
  BY <1>3, <1>5 DEF Grown, Kinds
<1>7. CASE pool' = Return(p, Slot(t, "req"), "req")
  BY <1>3, <1>5, <1>6, <1>7, SoundReturn DEF Kept
<1>8. QED
  BY <1>1, <1>2, <1>3, <1>5, <1>7 DEF Kept

LEMMA IoperKept ==
  ASSUME PlaceInv, Sound(pool, {}), NEW t \in Threads, Ioper(t)
  PROVE  /\ pool'.lost = pool.lost /\ (~ short' => Sound(pool', {}))
         /\ ult'[t].pc = "owner" => pool'.ev[pool'.use[Slot(t, "req")]] = "unset"
<1>0. Done(t) => ult'[t].pc # "owner"
  BY DEF Done, Idle, PlaceInv, UltInv
<1>1. PICK p, r, q, u : /\ p = GetReq(pool, Slot(t, "req")) /\ r = p.use[Slot(t, "req")]
                        /\ q = IF call(t).path = "rma" THEN DropEventual(p, r) ELSE p
                        /\ u = SetEventual(q, r, "unset")
  OBVIOUS
<1>2. /\ Sound(p, {}) /\ Grown(pool, p, Slot(t, "req")) /\ p.lost = pool.lost
      /\ Slot(t, "req") \in DOMAIN p.use
  BY <1>1, SoundGetReq DEF Grown
<1>3. \/ pool' = u
      \/ pool' = Return(u, Slot(t, "req"), "req") /\ Done(t)
      \/ /\ pool' = Return(q, Slot(t, "req"), "req")
         /\ ~ short' => call(t).path # "rma"
         /\ Done(t)
  BY <1>1 DEF Ioper, ReturnReq
<1>4. q.lost = p.lost /\ q.use = p.use /\ (call(t).path # "rma" => q = p)
  BY <1>1, <1>2 DEF DropEventual, Sound, ListsTyped
<1>5. Sound(u, {}) /\ u.use = p.use /\ u.lost = p.lost
  <2>1. CASE q = p
    BY <1>1, <1>2, <2>1, SoundSet
  <2>2. CASE q = DropEventual(p, r)
    <3>1. PICK d, e : d = Without(p.ev, {r}) /\ e = With(d, r, "unset")
      OBVIOUS
    <3>2. /\ \A x : x \in DOMAIN d <=> x \in DOMAIN p.ev /\ x # r
          /\ \A x : x \in DOMAIN e <=> x \in DOMAIN d \/ x = r
      BY <3>1, WithProperties, WithoutProperties
    <3>3. /\ ListsTyped(u) /\ u.free = p.free /\ u.use = p.use /\ u.ev = e /\ u.lost = p.lost
      BY <1>1, <1>2, <2>2, <3>1 DEF SetEventual, DropEventual, Sound, ListsTyped
    <3> QED
      BY <1>2, <3>2, <3>3 DEF Sound, Equipped, UseTyped, WithEventual
  <2> QED
    BY <1>1, <2>1, <2>2
<1>6. "req" \in Kinds
  BY DEF Kinds
<1>7. CASE pool' = u
  <2>1. PICK e : e = With(q.ev, r, "unset")
    OBVIOUS
  <2>2. pool'.use = p.use /\ pool'.ev = e
    BY <1>1, <1>2, <1>5, <1>7, <2>1 DEF SetEventual, DropEventual, Sound, ListsTyped
  <2>3. e[r] = "unset"
    BY <2>1, WithProperties
  <2> QED
    BY <1>1, <1>2, <1>5, <1>7, <2>2, <2>3
<1>8. CASE pool' = Return(u, Slot(t, "req"), "req") /\ Done(t)
  BY <1>0, <1>2, <1>5, <1>6, <1>8, SoundReturn
<1>9. CASE /\ pool' = Return(q, Slot(t, "req"), "req")
           /\ ~ short' => call(t).path # "rma"
           /\ Done(t)
  <2>1. ~ short' => Sound(pool', {})
    BY <1>2, <1>4, <1>6, <1>9, SoundReturn
  <2>2. pool'.lost = q.lost
    BY <1>2, <1>4, <1>9 DEF Return, Sound, ListsTyped
  <2> QED
    BY <1>0, <1>2, <1>4, <1>9, <2>1, <2>2
<1>10. QED
  BY <1>3, <1>7, <1>8, <1>9

-----------------------------------------------------------------------------
(***************************************************************************)
(* The five that forget something.  A large message: the buffer meant for  *)
(* its acknowledgement, at once when the receive cannot be posted.         *)
(***************************************************************************)
LEMMA SendLargeSound ==
  ASSUME PlaceInv, Sound(pool, {}), NEW t \in Threads, SendLarge(t)
  PROVE  /\ Sound(pool', {})
         /\ \/ /\ pool'.lost = pool.lost /\ larges' = larges
               /\ \E b, status : Finish(t, b, status)
            \/ /\ pool'.lost = pool.lost /\ larges' = larges + 1 /\ Goto(t, "handle")
               /\ pool'.ev[pool'.use[Slot(t, "ackreq")]] = "unset"
            \/ /\ \E o : o[1] \in {"expected", "unexpected"} /\ pool'.lost = pool.lost \cup {o}
               /\ larges' = larges + 1 /\ \E b, status : Finish(t, b, status)
<1>1. PICK path : path = call(t).path
  OBVIOUS
<1>2. PICK p, q, g, h, r, c, d :
        /\ p = IF call(t).mem THEN pool ELSE Get(pool, Slot(t, "msg"), path)
        /\ q = Get(p, Slot(t, "mem"), path) /\ g = Get(q, Slot(t, "ack"), path)
        /\ h = Get(g, Slot(t, "ackop"), "op") /\ r = GetReq(h, Slot(t, "ackreq"))
        /\ c = Return(r, Slot(t, "ackreq"), "req") /\ d = Return(c, Slot(t, "ackop"), "op")
  OBVIOUS
<1>3. /\ ult[t].pc = "begin" /\ call(t).op = "send"
      /\ \/ (Finish(t, p, "error") \/ Finish(t, q, "error")) /\ larges' = larges
         \/ Finish(t, d, "error") /\ larges' = larges + 1
         \/ /\ pool' = SetEventual(r, r.use[Slot(t, "ackreq")], "unset")
            /\ larges' = larges + 1 /\ Goto(t, "handle")
  BY <1>1, <1>2 DEF SendLarge, At, GetMsg, GetOpId, ReturnReq, ReturnOpId
<1>4. path \in {"expected", "unexpected"} /\ path \in Kinds \ {"req"}
  <2>1. path \in {"expected", "unexpected"}
    BY <1>1, <1>3, CallOf
  <2> QED
    BY <2>1 DEF Kinds
<1>5. NothingLeft(pool, t) /\ ult[t].pc # "idle"
  BY <1>3, LeftSlots DEF Blocked, Handing
<1>6. /\ Sound(p, {}) /\ p.lost = pool.lost
      /\ \A s : s \in DOMAIN p.use => s \in DOMAIN pool.use \/ s = Slot(t, "msg")
  <2>1. CASE p = pool
    BY <2>1
  <2>2. CASE p = Get(pool, Slot(t, "msg"), path)
    <3>1. Sound(p, {}) /\ Grown(pool, p, Slot(t, "msg")) /\ p.lost = pool.lost
      BY <1>4, <2>2, SoundGet
    <3> QED
      BY <3>1 DEF Grown
  <2> QED
    BY <1>2, <2>1, <2>2
<1>7. Sound(q, {}) /\ Grown(p, q, Slot(t, "mem")) /\ q.lost = p.lost
  BY <1>2, <1>4, <1>6, SoundGet
<1>8. Sound(g, {}) /\ Grown(q, g, Slot(t, "ack")) /\ g.lost = q.lost
  BY <1>2, <1>4, <1>7, SoundGet
<1>9. Sound(h, {}) /\ Grown(g, h, Slot(t, "ackop")) /\ h.lost = g.lost
  <2>1. "op" \in Kinds \ {"req"}
    BY DEF Kinds
  <2> QED
    BY <1>2, <1>8, <2>1, SoundGet
<1>10. Sound(r, {}) /\ Grown(h, r, Slot(t, "ackreq")) /\ r.lost = h.lost
  BY <1>2, <1>9, SoundGetReq
<1>11. /\ Slot(t, "ack") # Slot(t, "ackop") /\ Slot(t, "ack") # Slot(t, "ackreq")
       /\ Slot(t, "ackreq") # Slot(t, "ackop")
  BY DEF Slot
<1>12. /\ Sound(c, {}) /\ c.lost = r.lost
       /\ \A s : s \in DOMAIN c.use <=> s \in DOMAIN r.use /\ s # Slot(t, "ackreq")
       /\ \A s \in DOMAIN r.use : s # Slot(t, "ackreq") => c.use[s] = r.use[s]
  <2>1. Slot(t, "ackreq") \in DOMAIN r.use /\ "req" \in Kinds
    BY <1>10 DEF Grown, Kinds
  <2> QED
    BY <1>2, <1>10, <2>1, SoundReturn
<1>13. /\ Sound(d, {}) /\ d.lost = c.lost
       /\ \A s : s \in DOMAIN d.use <=> s \in DOMAIN c.use /\ s # Slot(t, "ackop")
       /\ \A s \in DOMAIN c.use : s # Slot(t, "ackop") => d.use[s] = c.use[s]
  <2>1. Slot(t, "ackop") \in DOMAIN c.use /\ "op" \in Kinds
    BY <1>9, <1>10, <1>11, <1>12 DEF Grown, Kinds
  <2> QED
    BY <1>2, <1>12, <2>1, SoundReturn
<1>14. NothingLeft(p, t) /\ NothingLeft(q, t)
  BY <1>5, <1>6, <1>7, LeftSlots DEF NothingLeft, Grown
<1>15. Left(t) \cap DOMAIN d.use = {Slot(t, "ack")}
  <2>1. Slot(t, "ack") \in DOMAIN d.use
    BY <1>8, <1>9, <1>10, <1>11, <1>12, <1>13 DEF Grown
  <2>2. \A s \in Left(t) : s \in DOMAIN d.use => s = Slot(t, "ack")
    BY <1>8, <1>9, <1>10, <1>12, <1>13, <1>14 DEF Grown, NothingLeft
  <2> QED
    BY <2>1, <2>2 DEF Left
<1>16. d.use[Slot(t, "ack")][1] = path
  <2>1. g.use[Slot(t, "ack")][1] = path
    <3>1. Slot(t, "ack") \in DOMAIN g.use /\ g.use[Slot(t, "ack")] \in Kind(path)
      <4>1. Reached(pool, t, {}, {})
        BY <1>3, ReachedAt DEF LocalAt, Blocked, Handing
      <4>2. PICK R : Reached(p, t, R, {}) /\ R \subseteq {"msg"}
        <5>1. Reached(GetMsg(pool, Slot(t, "msg"), path), t, {} \cup {"msg"}, {})
          BY <1>1, <1>4, <4>1, ReachedMsg
        <5>2. {} \cup {"msg"} \subseteq {"msg"}
          OBVIOUS
        <5> QED
          BY <1>2, <4>1, <5>1, <5>2 DEF GetMsg
      <4>3. Reached(q, t, R \cup {"mem"}, {})
        BY <1>1, <1>2, <1>4, <4>2, ReachedMsg DEF GetMsg
      <4>4. Reached(g, t, (R \cup {"mem"}) \cup {"ack"}, {})
        BY <1>1, <1>2, <1>4, <4>2, <4>3, ReachedMsg DEF GetMsg
      <4> QED
        BY <1>1, <4>4 DEF Reached, LocalRoles, KindAt
    <3> QED
      BY <3>1, <1>4, KindsOfObjects
  <2>2. d.use[Slot(t, "ack")] = g.use[Slot(t, "ack")]
    BY <1>8, <1>9, <1>10, <1>11, <1>12, <1>13 DEF Grown
  <2> QED
    BY <2>1, <2>2
<1>17. CASE (Finish(t, p, "error") \/ Finish(t, q, "error")) /\ larges' = larges
  <2>1. Kept
    BY <1>3, <1>5, <1>6, <1>7, <1>14, <1>17, SayingKept
  <2> QED
    BY <1>17, <2>1 DEF Kept
<1>18. CASE Finish(t, d, "error") /\ larges' = larges + 1
  <2>1. PICK E : E = {}
    OBVIOUS
  <2>2. PathOK(t, d)
    BY <1>3, PathsOK
  <2>3. /\ Sound(pool', {})
        /\ pool'.lost = d.lost \cup {d.use[s] : s \in Left(t) \cap DOMAIN d.use}
    BY <1>13, <1>18, <2>1, <2>2, SoundFinish
  <2>4. {d.use[s] : s \in Left(t) \cap DOMAIN d.use} = {d.use[Slot(t, "ack")]}
    BY <1>15
  <2>5. d.lost = pool.lost
    BY <1>6, <1>7, <1>8, <1>9, <1>10, <1>12, <1>13
  <2>6. pool'.lost = pool.lost \cup {d.use[Slot(t, "ack")]}
    BY <2>3, <2>4, <2>5
  <2> QED
    BY <1>4, <1>16, <1>18, <2>3, <2>6
<1>19. CASE /\ pool' = SetEventual(r, r.use[Slot(t, "ackreq")], "unset")
            /\ larges' = larges + 1 /\ Goto(t, "handle")
  <2>1. PICK o : o = r.use[Slot(t, "ackreq")]
    OBVIOUS
  <2>2. Sound(pool', {}) /\ pool'.lost = r.lost /\ pool'.use = r.use /\ pool'.ev = With(r.ev, o, "unset")
    BY <1>10, <1>19, <2>1, SoundSet DEF SetEventual, Sound, ListsTyped
  <2>3. pool'.ev[pool'.use[Slot(t, "ackreq")]] = "unset"
    BY <2>1, <2>2, WithProperties
  <2> QED
    BY <1>6, <1>7, <1>8, <1>9, <1>10, <1>19, <2>2, <2>3
<1>20. QED
  BY <1>3, <1>17, <1>18, <1>19

(***************************************************************************)
(* Its handle cannot be sent, or its acknowledgement has come.             *)
(***************************************************************************)
LEMMA HandleSentSound ==
  ASSUME PlaceInv, Sound(pool, {}), NEW t \in Threads, HandleSent(t), Value(Stack(t)) # "ok"
  PROVE  /\ Sound(pool', {})
         /\ pool'.lost = pool.lost \cup {Object(t, "ack"), Object(t, "ackreq")}
<1>1. PICK p, q : p = AfterBlocking(t) /\ q = Return(p, Slot(t, "ackop"), "op")
  OBVIOUS
<1>2. ult[t].pc = "handlesent" /\ Finish(t, q, "error")
  BY <1>1 DEF HandleSent, At, ReturnOpId
<1>3. /\ Sound(p, {}) /\ p.lost = pool.lost
      /\ \A s : s \in DOMAIN p.use <=> s \in DOMAIN pool.use /\ s # Slot(t, "op")
      /\ \A s \in DOMAIN p.use : p.use[s] = pool.use[s]
  BY <1>1, <1>2, SoundAfter DEF Blocked
<1>4. /\ \A role \in {"ack", "ackop", "ackreq"} :
           Slot(t, role) \in DOMAIN pool.use /\ Slot(t, role) # Slot(t, "op")
      /\ call(t).path \in Kinds
  BY <1>2, AckSlots DEF Handing
<1>5. /\ Sound(q, {}) /\ q.lost = p.lost
      /\ \A s : s \in DOMAIN q.use <=> s \in DOMAIN p.use /\ s # Slot(t, "ackop")
      /\ \A s \in DOMAIN p.use : s # Slot(t, "ackop") => q.use[s] = p.use[s]
  <2>1. Slot(t, "ackop") \in DOMAIN p.use /\ "op" \in Kinds
    BY <1>3, <1>4 DEF Kinds
  <2> QED
    BY <1>1, <1>3, <2>1, SoundReturn
<1>6. Left(t) \cap DOMAIN q.use = {Slot(t, "ack"), Slot(t, "ackreq")}
  <2>1. Slot(t, "ack") # Slot(t, "ackop") /\ Slot(t, "ackreq") # Slot(t, "ackop")
    BY DEF Slot
  <2>2. Slot(t, "ack") \in DOMAIN q.use /\ Slot(t, "ackreq") \in DOMAIN q.use
    BY <1>3, <1>4, <1>5, <2>1
  <2>3. Slot(t, "op") \notin DOMAIN q.use /\ Slot(t, "ackop") \notin DOMAIN q.use
    BY <1>3, <1>5
  <2> QED
    BY <2>2, <2>3 DEF Left
<1>7. q.use[Slot(t, "ack")] = Object(t, "ack") /\ q.use[Slot(t, "ackreq")] = Object(t, "ackreq")
  <2>1. Slot(t, "ack") # Slot(t, "ackop") /\ Slot(t, "ackreq") # Slot(t, "ackop")
    BY DEF Slot
  <2> QED
    BY <1>3, <1>4, <1>5, <2>1 DEF Object
<1>8. PICK E : E = {}
  OBVIOUS
<1>9. /\ Sound(pool', {})
      /\ pool'.lost = q.lost \cup {q.use[s] : s \in Left(t) \cap DOMAIN q.use}
  <2>1. PathOK(t, q)
    BY <1>4 DEF PathOK
  <2> QED
    BY <1>2, <1>5, <1>8, <2>1, SoundFinish
<1>10. {q.use[s] : s \in Left(t) \cap DOMAIN q.use} = {Object(t, "ack"), Object(t, "ackreq")}
  BY <1>6, <1>7
<1>11. QED
  BY <1>3, <1>5, <1>9, <1>10

LEMMA AcknowledgedSound ==
  ASSUME PlaceInv, Sound(pool, {}), NEW t \in Threads, Acknowledged(t)
  PROVE  /\ Sound(pool', {})
         /\ pool'.lost = pool.lost \cup {Object(t, "ack")}
              \cup (IF Value(Object(t, "ackreq")) = "ok" THEN {} ELSE {Object(t, "ackreq")})
<1>1. PICK p, q, v : /\ p = Wait(pool, Slot(t, "ackreq")) /\ q = Return(p, Slot(t, "ackop"), "op")
                     /\ v = Value(Object(t, "ackreq"))
  OBVIOUS
<1>2. ult[t].pc = "ackwait" /\ Finish(t, q, v)
  BY <1>1 DEF Acknowledged, At, ReturnOpId
<1>3. /\ \A role \in {"ack", "ackop", "ackreq"} :
           Slot(t, role) \in DOMAIN pool.use
      /\ Slot(t, "op") \notin DOMAIN pool.use
      /\ call(t).path \in Kinds
  BY <1>2, AckSlots DEF Handing, Blocked, PlaceInv, SlotInv, Has, LocalAt, Roles, LocalRoles
<1>4. /\ Slot(t, "ack") # Slot(t, "ackop") /\ Slot(t, "ackreq") # Slot(t, "ackop")
      /\ Slot(t, "ack") # Slot(t, "ackreq") /\ Slot(t, "op") # Slot(t, "ackreq")
  BY DEF Slot
<1>5. /\ Sound(p, {Slot(t, "ackreq")}) /\ p.lost = pool.lost
      /\ \A s : s # Slot(t, "ackreq") => (s \in DOMAIN p.use <=> s \in DOMAIN pool.use)
      /\ \A s \in DOMAIN pool.use : s # Slot(t, "ackreq") => p.use[s] = pool.use[s]
      /\ Slot(t, "ackreq") \in DOMAIN p.use <=> v # "ok"
      /\ Slot(t, "ackreq") \in DOMAIN p.use => p.use[Slot(t, "ackreq")] = Object(t, "ackreq")
  BY <1>1, <1>3, SoundWait DEF Object, Value
<1>6. /\ Sound(q, {Slot(t, "ackreq")}) /\ q.lost = p.lost
      /\ \A s : s \in DOMAIN q.use <=> s \in DOMAIN p.use /\ s # Slot(t, "ackop")
      /\ \A s \in DOMAIN p.use : s # Slot(t, "ackop") => q.use[s] = p.use[s]
  <2>1. /\ Slot(t, "ackop") \in DOMAIN p.use /\ "op" \in Kinds
        /\ Slot(t, "ackop") \notin {Slot(t, "ackreq")}
    BY <1>3, <1>4, <1>5 DEF Kinds
  <2> QED
    BY <1>1, <1>5, <2>1, SoundReturn
<1>7. /\ Sound(pool', {})
      /\ pool'.lost = q.lost \cup {q.use[s] : s \in Left(t) \cap DOMAIN q.use}
  <2>1. PathOK(t, q) /\ {Slot(t, "ackreq")} \subseteq Left(t)
    BY <1>3 DEF PathOK, Left
  <2> QED
    BY <1>2, <1>6, <2>1, SoundFinish
<1>8. Slot(t, "ack") \in DOMAIN q.use /\ q.use[Slot(t, "ack")] = Object(t, "ack")
  BY <1>3, <1>4, <1>5, <1>6 DEF Object
<1>9. CASE v = "ok"
  <2>1. Left(t) \cap DOMAIN q.use = {Slot(t, "ack")}
    BY <1>3, <1>4, <1>5, <1>6, <1>8, <1>9 DEF Left
  <2>2. {q.use[s] : s \in Left(t) \cap DOMAIN q.use} = {Object(t, "ack")}
    BY <1>8, <2>1
  <2> QED
    BY <1>1, <1>5, <1>6, <1>7, <1>9, <2>2
<1>10. CASE v # "ok"
  <2>1. Slot(t, "ackreq") \in DOMAIN q.use /\ q.use[Slot(t, "ackreq")] = Object(t, "ackreq")
    BY <1>4, <1>5, <1>6, <1>10
  <2>2. Left(t) \cap DOMAIN q.use = {Slot(t, "ack"), Slot(t, "ackreq")}
    BY <1>3, <1>4, <1>5, <1>6, <1>8, <2>1 DEF Left
  <2>3. {q.use[s] : s \in Left(t) \cap DOMAIN q.use} = {Object(t, "ack"), Object(t, "ackreq")}
    BY <1>8, <2>1, <2>2
  <2>4. {Object(t, "ack"), Object(t, "ackreq")} = {Object(t, "ack")} \cup {Object(t, "ackreq")}
    OBVIOUS
  <2> QED
    BY <1>1, <1>5, <1>6, <1>7, <1>10, <2>3, <2>4
<1>11. QED
  BY <1>9, <1>10

(***************************************************************************)
(* The shared receive has failed: its request.                             *)
(***************************************************************************)
LEMMA ReapSound ==
  ASSUME PlaceInv, Sound(pool, {}), NEW t \in Threads, Reap(t)
  PROVE  /\ Sound(pool', {})
         /\ pool'.lost = pool.lost \cup
              (IF Value(pool.use[ProbReq]) = "error" THEN {pool.use[ProbReq]} ELSE {})
<1>1. PICK w, p, r, f, z, m, n :
        /\ w = Wait(pool, ProbReq) /\ p = Return(w, ProbId, "op")
        /\ r = Return(p, ProbMsg, "unexpected") /\ f = Forget(r, {ProbReq})
        /\ z = <<"pending", p.use[ProbMsg]>> /\ m = Move(p, ProbMsg, z)
        /\ n = Move(p, ProbMsg, Slot(t, "msg"))
  OBVIOUS
<1>2. PICK v : v = Value(pool.use[ProbReq])
  OBVIOUS
<1>3. /\ ult[t].pc = "listening"
      /\ \/ v = "error" /\ Finish(t, f, "error")
         \/ v = "ok" /\ (pool' = n \/ Finish(t, m, "ok") \/ pool' = m)
  BY <1>1, <1>2 DEF Reap, At, ReturnMsg, ReturnOpId
<1>4. /\ call(t).op \in {"send", "recv", "probe"} /\ ult[t].pc # "idle"
      /\ NothingLeft(pool, t)
  BY <1>3, LeftSlots DEF Blocked, Handing, Listening, PlaceInv, UltInv, Fitting, call
<1>5. \A s \in Prob : s \in DOMAIN pool.use
  BY <1>3, <1>4, SomebodyUp DEF PlaceInv, ProbInv, ListenInv
<1>6. /\ Sound(w, {ProbReq}) /\ w.lost = pool.lost
      /\ \A s : s # ProbReq => (s \in DOMAIN w.use <=> s \in DOMAIN pool.use)
      /\ ProbReq \in DOMAIN w.use <=> v # "ok"
      /\ ProbReq \in DOMAIN w.use => w.use[ProbReq] = pool.use[ProbReq]
  BY <1>1, <1>2, <1>5, ProbKinds, SoundWait DEF Value
<1>7. /\ Sound(p, {ProbReq}) /\ p.lost = w.lost
      /\ \A s : s \in DOMAIN p.use <=> s \in DOMAIN w.use /\ s # ProbId
      /\ \A s \in DOMAIN w.use : s # ProbId => p.use[s] = w.use[s]
  <2>1. ProbId \in DOMAIN w.use /\ ProbId \notin {ProbReq}
    BY <1>5, <1>6, ProbKinds
  <2> QED
    BY <1>1, <1>6, <2>1, ProbKinds, SoundReturn
<1>8. ProbMsg \in DOMAIN p.use /\ ProbMsg \notin {ProbReq}
  BY <1>5, <1>6, <1>7, ProbKinds
<1>9. NothingLeft(p, t)
  <2>1. \A s \in Left(t) : s # ProbReq
    BY LeftSlots, ProbKinds
  <2> QED
    BY <1>4, <1>6, <1>7, <2>1 DEF NothingLeft
<1>10. CASE v = "error" /\ Finish(t, f, "error")
  <2>1. /\ Sound(r, {ProbReq}) /\ r.lost = p.lost
        /\ \A s : s \in DOMAIN r.use <=> s \in DOMAIN p.use /\ s # ProbMsg
        /\ \A s \in DOMAIN p.use : s # ProbMsg => r.use[s] = p.use[s]
    BY <1>1, <1>7, <1>8, ProbKinds, SoundReturn
  <2>2. ProbReq \in DOMAIN r.use /\ r.use[ProbReq] = pool.use[ProbReq]
    BY <1>6, <1>7, <1>10, <2>1, ProbKinds
  <2>3. PICK S : S = {ProbReq}
    OBVIOUS
  <2>4. /\ Sound(f, {}) /\ f.lost = r.lost \cup {r.use[s] : s \in S \cap DOMAIN r.use}
        /\ \A s \in DOMAIN f.use : s \in DOMAIN r.use
    BY <1>1, <2>1, <2>3, SoundForget
  <2>5. {r.use[s] : s \in S \cap DOMAIN r.use} = {pool.use[ProbReq]}
    BY <2>2, <2>3
  <2>6. Left(t) \cap DOMAIN f.use = {}
    BY <1>9, <2>1, <2>4 DEF NothingLeft
  <2>7. /\ Sound(pool', {})
        /\ pool'.lost = f.lost \cup {f.use[s] : s \in Left(t) \cap DOMAIN f.use}
    <3>1. PICK E : E = {}
      OBVIOUS
    <3>2. PathOK(t, f)
      BY <1>4, PathsOK
    <3> QED
      BY <1>10, <2>4, <3>1, <3>2, SoundFinish
  <2>8. pool'.lost = f.lost
    BY <2>6, <2>7
  <2>9. pool'.lost = pool.lost \cup {pool.use[ProbReq]}
    BY <1>6, <1>7, <2>1, <2>4, <2>5, <2>8
  <2> QED
    BY <1>2, <1>10, <2>7, <2>9
<1>11. CASE v = "ok" /\ (pool' = n \/ Finish(t, m, "ok") \/ pool' = m)
  <2>1. Sound(p, {})
    BY <1>6, <1>7, <1>11 DEF Sound, Equipped
  <2>2. /\ Sound(n, {}) /\ n.lost = p.lost /\ Sound(m, {}) /\ m.lost = p.lost
        /\ \A s : s \in DOMAIN m.use => s \in DOMAIN p.use \/ s = z
    BY <1>1, <1>8, <2>1, SoundMove
  <2>3. z \notin Left(t)
    <3>1. \A s \in Left(t) : \E role : s = Slot(t, role)
      BY DEF Left
    <3>2. z[1] = "pending" /\ \A role : Slot(t, role)[1] # "pending"
      BY <1>1, Slots
    <3> QED
      BY <3>1, <3>2
  <2>4. NothingLeft(m, t)
    BY <1>9, <2>2, <2>3 DEF NothingLeft
  <2>5. Kept
    <3>1. CASE pool' = n \/ pool' = m
      BY <1>6, <1>7, <2>2, <3>1 DEF Kept
    <3>2. CASE Finish(t, m, "ok")
      BY <1>4, <1>6, <1>7, <2>2, <2>4, <3>2, SayingKept
    <3> QED
      BY <1>11, <3>1, <3>2
  <2> QED
    BY <1>2, <1>11, <2>5 DEF Kept
<1>12. QED
  BY <1>3, <1>10, <1>11

(***************************************************************************)
(* The operation that the caller waits for has failed: the request.        *)
(***************************************************************************)
LEMMA OwnSound ==
  ASSUME PlaceInv, Sound(pool, {}), NEW t \in Threads, Own(t)
  PROVE  /\ Sound(pool', {})
         /\ pool'.lost = pool.lost \cup
              (IF Value(Object(t, "req")) = "ok" THEN {} ELSE {Object(t, "req")})
<1>1. PICK slot, w, S : slot = Slot(t, "req") /\ w = Wait(pool, slot) /\ S = {slot}
  OBVIOUS
<1>2. ult[t].pc = "owner" /\ pool' = Forget(w, S)
  BY <1>1 DEF Own, At
<1>3. slot \in DOMAIN pool.use
  BY <1>1, <1>2 DEF PlaceInv, SlotInv, Has, RequestAt, Roles
<1>4. /\ Sound(w, S) /\ w.lost = pool.lost
      /\ slot \in DOMAIN w.use <=> Value(Object(t, "req")) # "ok"
      /\ slot \in DOMAIN w.use => w.use[slot] = Object(t, "req")
  BY <1>1, <1>3, SoundWait DEF Object, Value
<1>5. Sound(pool', {}) /\ pool'.lost = w.lost \cup {w.use[s] : s \in S \cap DOMAIN w.use}
  BY <1>2, <1>4, SoundForget
<1>6. {w.use[s] : s \in S \cap DOMAIN w.use}
        = IF Value(Object(t, "req")) = "ok" THEN {} ELSE {Object(t, "req")}
  BY <1>1, <1>4
<1>7. QED
  BY <1>4, <1>5, <1>6

-----------------------------------------------------------------------------
LEMMA CompleteSound ==
  ASSUME Sound(pool, {}), Complete
  PROVE  Kept
<1>1. PICK o \in na : \E v : pool' = SetEventual(pool, o.req, v)
  BY DEF Complete, mona_callback
<1>2. QED
  BY <1>1, SoundSet DEF Kept

(***************************************************************************)
(* Every step but mona_iput and mona_iget out of memory.                   *)
(***************************************************************************)
LEMMA StepSound ==
  ASSUME PlaceInv, Sound(pool, {}), NEW t \in Threads, Step(t)
  PROVE  /\ ~ short' => ~ short /\ Sound(pool', {})
         /\ up' = up
<1>1. CASE Ioper(t)
  <2>1. ~ short' => ~ short
    BY <1>1 DEF Ioper
  <2> QED
    BY <1>1, <2>1, IoperKept DEF Ioper, inst
<1>2. CASE \/ Enter(t) \/ Oper(t) \/ SendSmall(t) \/ SendHandle(t) \/ Recv(t)
           \/ CopySmall(t) \/ GetLarge(t) \/ Acknowledge(t) \/ Claim(t) \/ StopListening(t)
           \/ TakeQueued(t) \/ Listen(t)
  <2>1. Kept
    BY <1>2, EnterKept, StartKept, MessageKept, TakeQueuedKept, ListenKept
  <2>2. short' = short /\ up' = up
    BY <1>2 DEF Enter, Oper, SendSmall, SendHandle, Recv, CopySmall, GetLarge, Acknowledge,
       Claim, StopListening, TakeQueued, Listen, inst, bounds
  <2> QED
    BY <2>1, <2>2 DEF Kept
<1>3. CASE OperOver(t) \/ Sent(t) \/ Received(t) \/ Fetched(t) \/ HandleSent(t)
  <2>1. Sound(pool', {})
    BY <1>3, OverKept, HandleSentSound DEF Kept
  <2>2. short' = short /\ up' = up
    BY <1>3 DEF OperOver, Sent, Received, Fetched, HandleSent, inst, bounds
  <2> QED
    BY <2>1, <2>2
<1>4. CASE Own(t) \/ SendLarge(t) \/ Acknowledged(t) \/ Reap(t)
  <2>1. Sound(pool', {})
    BY <1>4, OwnSound, SendLargeSound, AcknowledgedSound, ReapSound
  <2>2. short' = short /\ up' = up
    BY <1>4 DEF Own, SendLarge, Acknowledged, Reap, inst, bounds
  <2> QED
    BY <2>1, <2>2
<1>5. QED
  BY <1>1, <1>2, <1>3, <1>4 DEF Step

LEMMA StillEquipped ==
  ASSUME ~ short' => ~ short /\ Sound(pool', {})
  PROVE  Equipped(pool, {})'
BY DEF Sound, Equipped, WithEventual

LEMMA StepUp ==
  ASSUME PlaceInv, NEW t \in Threads, Step(t)
  PROVE  up = "up"
<1>1. CASE Enter(t)
  BY <1>1 DEF Enter
<1>2. CASE ~ Enter(t)
  <2>1. ult[t].pc # "idle"
    BY <1>2 DEF Step, Own, Oper, OperOver, Ioper, SendSmall, SendLarge, SendHandle,
       Sent, HandleSent, Acknowledged, Recv, Received, TakeQueued, Claim, Listen,
       StopListening, Reap, CopySmall, GetLarge, Fetched, Acknowledge, At, WantsMessage
  <2> QED
    BY <2>1, SomebodyUp
<1>3. QED
  BY <1>1, <1>2

LEMMA EventualStep ==
  ASSUME PlaceInv, EventualInv, [Goes]_vars
  PROVE  EventualInv'
<1>1. CASE UNCHANGED vars
  BY <1>1 DEF vars, inst, bounds, EventualInv, Equipped, WithEventual
<1>2. CASE CancelProbe \/ ReapProbe \/ Free
  <2>1. up' # "up"
    BY <1>2 DEF CancelProbe, ReapProbe, Free
  <2> QED
    BY <2>1 DEF EventualInv
<1>3. CASE Complete
  <2>1. short' = short /\ up' = up
    BY <1>3 DEF Complete, inst
  <2>2. CASE up = "up"
    BY <1>3, <2>1, <2>2, SoundFirst, CompleteSound, StillEquipped DEF Kept, EventualInv
  <2> QED
    BY <2>1, <2>2 DEF EventualInv
<1>4. CASE \E t \in Threads : Step(t)
  <2>1. PICK t \in Threads : Step(t)
    BY <1>4
  <2>2. up = "up"
    BY <2>1, StepUp
  <2> QED
    BY <2>1, <2>2, SoundFirst, StepSound, StillEquipped DEF EventualInv
<1>5. QED
  BY <1>1, <1>2, <1>3, <1>4 DEF Goes

LEMMA EventualInit ==
  ASSUME Init
  PROVE  EventualInv
<1>1. PICK list : list = [i \in 1..InitialOps |-> <<"op", i>>]
  OBVIOUS
<1>2. \A i \in 1..Len(list) : list[i][1] = "op"
  <2>1. \A i \in 1..InitialOps : <<"op", i>> \in Kind("op")
    BY OperationsAssumption DEF Kind
  <2>2. list \in Seq(Kind("op")) /\ Len(list) = InitialOps
    BY <1>1, <2>1, OperationsAssumption
  <2> QED
    BY <1>1, <2>2
<1>3. /\ pool.free["op"] = list /\ \A k \in Kinds \ {"op"} : pool.free[k] = << >>
      /\ pool.use = << >>
  BY <1>1 DEF Init, EmptyPool, Kinds
<1>4. \A k \in Kinds : \A i \in 1..Len(pool.free[k]) : pool.free[k][i][1] = "op"
  BY <1>2, <1>3
<1>5. DOMAIN pool.use = {}
  BY <1>3
<1>6. QED
  BY <1>4, <1>5 DEF EventualInv, Equipped, WithEventual

(***************************************************************************)
(* Nobody waits for a request without an eventual, which mona_wait does    *)
(* not survive: whatever a request has been through, on the error exits    *)
(* of mona_send_mem, of the shared receive and of mona_i..., it is in the  *)
(* cache with an eventual or not at all.  The one exception is told by     *)
(* `short': mona_iput or mona_iget has dropped the eventual and run out of *)
(* memory for the new one.  Said of the states before a receive gives back *)
(* a buffer it has queued.                                                 *)
(***************************************************************************)
THEOREM WaitersHaveEventuals == Spec => []NoNullWait
<1>1. Init => Inv /\ EventualInv
  BY InitInv, EventualInit
<1>2. /\ ListsIntact => Inv /\ EventualInv
      /\ [Next]_vars
      => (ListsIntact => Inv /\ EventualInv)'
  BY GoesOn, NextInv, EventualStep DEF Inv
<1>3. (ListsIntact => Inv /\ EventualInv) => NoNullWait
  <2>1. SUFFICES ASSUME Inv, EventualInv, NEW t \in Threads, ult[t].pc = "owner", ~ short
                 PROVE  pool.use[Slot(t, "req")] \in DOMAIN pool.ev
    BY DEF NoNullWait, At, Object
  <2>2. PlaceInv /\ up = "up"
    BY <2>1, SomebodyUp DEF Inv
  <2>3. /\ Slot(t, "req") \in DOMAIN pool.use
        /\ pool.use[Slot(t, "req")] \in Kind("req")
    BY <2>1, <2>2 DEF PlaceInv, SlotInv, Has, RequestAt, Roles, KindAt
  <2>4. pool.use[Slot(t, "req")][1] = "req"
    BY <2>3, KindsOfObjects DEF Kinds
  <2> QED
    BY <2>1, <2>2, <2>3, <2>4 DEF EventualInv, Equipped, WithEventual
<1>4. QED
  BY <1>1, <1>2, <1>3, PTL DEF Spec

-----------------------------------------------------------------------------
(***************************************************************************)
(* What failures cost.  A failed operation is in doubt until whoever waits *)
(* for it looks: it may then cost a request of its own, and the request of *)
(* the ULT it failed in.  The latter is owed until its owner looks.  D are *)
(* the slots of operations in doubt, O those of requests owed, and L the   *)
(* requests that have been forgotten.                                      *)
(***************************************************************************)
Balanced(L, D, O, f) ==
  /\ IsFiniteSet(L) /\ IsFiniteSet(D) /\ IsFiniteSet(O) /\ f \in Nat
  /\ Cardinality(L) + 2 * Cardinality(D) + Cardinality(O) <= 2 * f

LEMMA SmallerSet ==
  ASSUME NEW S, IsFiniteSet(S), NEW T, T \subseteq S
  PROVE  /\ IsFiniteSet(T) /\ Cardinality(T) \in Nat /\ Cardinality(S) \in Nat
         /\ Cardinality(T) <= Cardinality(S)
BY FS_Subset, FS_CardinalityType

LEMMA OneMore ==
  ASSUME NEW S, IsFiniteSet(S), NEW x, NEW T, T \subseteq S \cup {x}
  PROVE  /\ IsFiniteSet(T) /\ Cardinality(T) \in Nat /\ Cardinality(S) \in Nat
         /\ Cardinality(T) <= Cardinality(S) + 1
<1>1. PICK n, R : n = Cardinality(S) /\ R = S \cup {x}
  OBVIOUS
<1>2. n \in Nat
  BY <1>1, FS_CardinalityType
<1>3. IsFiniteSet(R) /\ (Cardinality(R) = n \/ Cardinality(R) = n + 1)
  BY <1>1, FS_AddElement
<1>4. /\ IsFiniteSet(T) /\ Cardinality(T) \in Nat
      /\ Cardinality(T) <= Cardinality(R)
  BY <1>1, <1>3, SmallerSet
<1>5. QED
  BY <1>1, <1>2, <1>3, <1>4

LEMMA OneLess ==
  ASSUME NEW S, IsFiniteSet(S), NEW x \in S, NEW T, T \subseteq S \ {x}
  PROVE  /\ IsFiniteSet(T) /\ Cardinality(T) \in Nat /\ Cardinality(S) \in Nat
         /\ Cardinality(T) + 1 <= Cardinality(S)
<1>1. IsFiniteSet(S \ {x}) /\ Cardinality(S \ {x}) = Cardinality(S) - 1
  BY FS_RemoveElement
<1>2. /\ IsFiniteSet(T) /\ Cardinality(T) \in Nat
      /\ Cardinality(T) <= Cardinality(S \ {x})
  BY <1>1, SmallerSet
<1>3. Cardinality(S) \in Nat
  BY FS_CardinalityType
<1>4. QED
  BY <1>1, <1>2, <1>3

(***************************************************************************)
(* Nothing new; a failure; an operation in doubt is looked at; and a       *)
(* request that is owed.                                                   *)
(***************************************************************************)
LEMMA BalanceKept ==
  ASSUME NEW L, NEW D, NEW O, NEW f, Balanced(L, D, O, f),
         NEW M, NEW E, NEW P, NEW g \in Nat, M \subseteq L, E \subseteq D, P \subseteq O, f <= g
  PROVE  Balanced(M, E, P, g)
<1>1. IsFiniteSet(L) /\ IsFiniteSet(D) /\ IsFiniteSet(O) /\ f \in Nat
  BY DEF Balanced
<1>2. PICK l, d, o, m, e, p : /\ l = Cardinality(L) /\ d = Cardinality(D) /\ o = Cardinality(O)
                              /\ m = Cardinality(M) /\ e = Cardinality(E) /\ p = Cardinality(P)
  OBVIOUS
<1>3. IsFiniteSet(M) /\ l \in Nat /\ m \in Nat /\ m <= l
  BY <1>1, <1>2, SmallerSet
<1>4. IsFiniteSet(E) /\ d \in Nat /\ e \in Nat /\ e <= d
  BY <1>1, <1>2, SmallerSet
<1>5. IsFiniteSet(P) /\ o \in Nat /\ p \in Nat /\ p <= o
  BY <1>1, <1>2, SmallerSet
<1>6. l + 2 * d + o <= 2 * f
  BY <1>2 DEF Balanced
<1>7. m + 2 * e + p <= 2 * g
  BY <1>1, <1>3, <1>4, <1>5, <1>6
<1>8. QED
  BY <1>2, <1>3, <1>4, <1>5, <1>7 DEF Balanced

LEMMA DoubtAdded ==
  ASSUME NEW L, NEW D, NEW O, NEW f \in Nat, Balanced(L, D, O, f),
         NEW M, NEW E, NEW P, NEW g \in Nat, g = f + 1, NEW x, M \subseteq L,
         E \subseteq D \cup {x}, P \subseteq O
  PROVE  Balanced(M, E, P, g)
<1>1. IsFiniteSet(L) /\ IsFiniteSet(D) /\ IsFiniteSet(O) /\ f \in Nat
  BY DEF Balanced
<1>2. PICK l, d, o, m, e, p : /\ l = Cardinality(L) /\ d = Cardinality(D) /\ o = Cardinality(O)
                              /\ m = Cardinality(M) /\ e = Cardinality(E) /\ p = Cardinality(P)
  OBVIOUS
<1>3. IsFiniteSet(M) /\ l \in Nat /\ m \in Nat /\ m <= l
  BY <1>1, <1>2, SmallerSet
<1>4. IsFiniteSet(E) /\ d \in Nat /\ e \in Nat /\ e <= d + 1
  BY <1>1, <1>2, OneMore
<1>5. IsFiniteSet(P) /\ o \in Nat /\ p \in Nat /\ p <= o
  BY <1>1, <1>2, SmallerSet
<1>6. l + 2 * d + o <= 2 * f
  BY <1>2 DEF Balanced
<1>7. m + 2 * e + p <= 2 * g
  BY <1>1, <1>3, <1>4, <1>5, <1>6
<1>8. QED
  BY <1>1, <1>2, <1>3, <1>4, <1>5, <1>7 DEF Balanced

LEMMA DebtAdded ==
  ASSUME NEW L, NEW D, NEW O, NEW f \in Nat, Balanced(L, D, O, f),
         NEW M, NEW E, NEW P, NEW g \in Nat, g = f + 1, NEW x, M \subseteq L,
         E \subseteq D, P \subseteq O \cup {x}
  PROVE  Balanced(M, E, P, g)
<1>1. IsFiniteSet(L) /\ IsFiniteSet(D) /\ IsFiniteSet(O) /\ f \in Nat
  BY DEF Balanced
<1>2. PICK l, d, o, m, e, p : /\ l = Cardinality(L) /\ d = Cardinality(D) /\ o = Cardinality(O)
                              /\ m = Cardinality(M) /\ e = Cardinality(E) /\ p = Cardinality(P)
  OBVIOUS
<1>3. IsFiniteSet(M) /\ l \in Nat /\ m \in Nat /\ m <= l
  BY <1>1, <1>2, SmallerSet
<1>4. IsFiniteSet(E) /\ d \in Nat /\ e \in Nat /\ e <= d
  BY <1>1, <1>2, SmallerSet
<1>5. IsFiniteSet(P) /\ o \in Nat /\ p \in Nat /\ p <= o + 1
  BY <1>1, <1>2, OneMore
<1>6. l + 2 * d + o <= 2 * f
  BY <1>2 DEF Balanced
<1>7. m + 2 * e + p <= 2 * g
  BY <1>1, <1>3, <1>4, <1>5, <1>6
<1>8. QED
  BY <1>1, <1>2, <1>3, <1>4, <1>5, <1>7 DEF Balanced

LEMMA DoubtResolved ==
  ASSUME NEW L, NEW D, NEW O, NEW f, Balanced(L, D, O, f),
         NEW M, NEW E, NEW P, NEW x \in D, NEW r, NEW y,
         M \subseteq L \cup {r}, E \subseteq D \ {x}, P \subseteq O \cup {y}
  PROVE  Balanced(M, E, P, f)
<1>1. IsFiniteSet(L) /\ IsFiniteSet(D) /\ IsFiniteSet(O) /\ f \in Nat
  BY DEF Balanced
<1>2. PICK l, d, o, m, e, p : /\ l = Cardinality(L) /\ d = Cardinality(D) /\ o = Cardinality(O)
                              /\ m = Cardinality(M) /\ e = Cardinality(E) /\ p = Cardinality(P)
  OBVIOUS
<1>3. IsFiniteSet(M) /\ l \in Nat /\ m \in Nat /\ m <= l + 1
  BY <1>1, <1>2, OneMore
<1>4. IsFiniteSet(E) /\ d \in Nat /\ e \in Nat /\ e + 1 <= d
  BY <1>1, <1>2, OneLess
<1>5. IsFiniteSet(P) /\ o \in Nat /\ p \in Nat /\ p <= o + 1
  BY <1>1, <1>2, OneMore
<1>6. l + 2 * d + o <= 2 * f
  BY <1>2 DEF Balanced
<1>7. m + 2 * e + p <= 2 * f
  BY <1>1, <1>3, <1>4, <1>5, <1>6
<1>8. QED
  BY <1>1, <1>2, <1>3, <1>4, <1>5, <1>7 DEF Balanced

LEMMA OwedForgotten ==
  ASSUME NEW L, NEW D, NEW O, NEW f, Balanced(L, D, O, f),
         NEW M, NEW E, NEW P, NEW y \in O, NEW r,
         M \subseteq L \cup {r}, E \subseteq D, P \subseteq O \ {y}
  PROVE  Balanced(M, E, P, f)
<1>1. IsFiniteSet(L) /\ IsFiniteSet(D) /\ IsFiniteSet(O) /\ f \in Nat
  BY DEF Balanced
<1>2. PICK l, d, o, m, e, p : /\ l = Cardinality(L) /\ d = Cardinality(D) /\ o = Cardinality(O)
                              /\ m = Cardinality(M) /\ e = Cardinality(E) /\ p = Cardinality(P)
  OBVIOUS
<1>3. IsFiniteSet(M) /\ l \in Nat /\ m \in Nat /\ m <= l + 1
  BY <1>1, <1>2, OneMore
<1>4. IsFiniteSet(E) /\ d \in Nat /\ e \in Nat /\ e <= d
  BY <1>1, <1>2, SmallerSet
<1>5. IsFiniteSet(P) /\ o \in Nat /\ p \in Nat /\ p + 1 <= o
  BY <1>1, <1>2, OneLess
<1>6. l + 2 * d + o <= 2 * f
  BY <1>2 DEF Balanced
<1>7. m + 2 * e + p <= 2 * f
  BY <1>1, <1>3, <1>4, <1>5, <1>6
<1>8. QED
  BY <1>1, <1>2, <1>3, <1>4, <1>5, <1>7 DEF Balanced

(***************************************************************************)
(* An operation is in doubt: a blocking one, the receive for an            *)
(* acknowledgement, the shared receive.  A request is owed.                *)
(***************************************************************************)
Failed(p, r) == r \in DOMAIN p.ev /\ p.ev[r] = "error"

InDoubt(s) ==
  \/ \E t \in Threads : s = Slot(t, "op") /\ Failed(pool, Stack(t))
  \/ \E t \in Threads : s = Slot(t, "ackreq") /\ Failed(pool, pool.use[s])
  \/ s = ProbReq /\ Failed(pool, pool.use[s])

Owes(s) ==
  \E t \in Threads : s = Slot(t, "req") /\ ult[t].pc = "owner" /\ Failed(pool, pool.use[s])

Doubt == {s \in DOMAIN pool.use : InDoubt(s)}
Owed  == {s \in DOMAIN pool.use : Owes(s)}

Account == Balanced(Lost({"req"}), Doubt, Owed, failures)

(***************************************************************************)
(* A step of t leaves the debts of others alone.                           *)
(***************************************************************************)
LEMMA StackElsewhere ==
  ASSUME PoolOK(pool), NEW t, NEW S, NEW u, u # t
  PROVE  ~ MayTouch(t, S, Stack(u))
<1>1. Stack(u) # Stack(t) /\ Stack(u) \notin Objects
  BY DEF Stack, Objects, Kinds
<1>2. \A s \in DOMAIN pool.use : pool.use[s] \in Objects
  BY PoolObjects
<1>3. QED
  BY <1>1, <1>2 DEF MayTouch

LEMMA DebtElsewhere ==
  ASSUME PlaceInv, NEW t \in Threads, Calmly(t), PlaceInv', up' = "up"
  PROVE  /\ \A s \in Doubt' :
              \/ s \in Doubt \/ s = Slot(t, "op") \/ s = Slot(t, "ackreq")
              \/ s = ProbReq /\ ~ prob_active /\ prob_active'
         /\ \A s \in Owed' : s \in Owed \/ s = Slot(t, "req")
<1>1. /\ \A u \in Threads \ {t} : ult'[u] = ult[u]
      /\ PoolOK(pool)
  BY DEF Calmly, PlaceInv
<1>2. PICK S : /\ Outer(S) /\ Quiet(pool', t, S)
               /\ S \cap Prob = {} \/ ~ prob_active \/ ~ prob_active'
  BY DEF Calmly
<1>3. /\ \A u \in Threads \ {t} : \A role \in Roles : Slot(u, role) \notin Ours(t, S)
      /\ S \cap Prob = {} => \A s \in Prob : s \notin Ours(t, S)
  BY <1>2, NotOurs
<1>4. ASSUME NEW r, ~ MayTouch(t, S, r), Failed(pool', r)
      PROVE  Failed(pool, r)
  BY <1>2, <1>4 DEF Quiet, Calm, Failed
<1>5. ASSUME NEW s \in DOMAIN pool'.use, s \notin Ours(t, S)
      PROVE  /\ s \in DOMAIN pool.use /\ pool'.use[s] = pool.use[s]
             /\ Failed(pool', pool'.use[s]) => Failed(pool, pool.use[s])
  <2>1. s \in DOMAIN pool.use /\ pool'.use[s] = pool.use[s]
    BY <1>2, <1>5 DEF Quiet, SameBut
  <2>2. ~ MayTouch(t, S, pool.use[s])
    BY <1>1, <1>5, <2>1, HeldElsewhere
  <2> QED
    BY <1>4, <2>1, <2>2
<1>6. ASSUME NEW s \in Doubt', s # Slot(t, "op"), s # Slot(t, "ackreq"),
             ~ (s = ProbReq /\ ~ prob_active /\ prob_active')
      PROVE  s \in Doubt
  <2>1. s \in DOMAIN pool'.use
    BY DEF Doubt
  <2>2. \/ \E u \in Threads : s = Slot(u, "op") /\ Failed(pool', Stack(u))
        \/ \E u \in Threads : s = Slot(u, "ackreq") /\ Failed(pool', pool'.use[s])
        \/ s = ProbReq /\ Failed(pool', pool'.use[s])
    BY DEF Doubt, InDoubt, Slot, Stack, ProbReq, Failed
  <2>3. CASE \E u \in Threads : s = Slot(u, "op") /\ Failed(pool', Stack(u))
    <3>1. PICK u \in Threads : s = Slot(u, "op") /\ Failed(pool', Stack(u))
      BY <2>3
    <3>2. u # t
      BY <1>6, <3>1
    <3>3. s \notin Ours(t, S) /\ Failed(pool, Stack(u))
      BY <1>1, <1>3, <1>4, <3>1, <3>2, StackElsewhere DEF Roles, LocalRoles
    <3> QED
      BY <1>5, <2>1, <3>1, <3>3 DEF Doubt, InDoubt
  <2>4. CASE \E u \in Threads : s = Slot(u, "ackreq") /\ Failed(pool', pool'.use[s])
    <3>1. PICK u \in Threads : s = Slot(u, "ackreq") /\ Failed(pool', pool'.use[s])
      BY <2>4
    <3>2. u # t
      BY <1>6, <3>1
    <3>3. s \notin Ours(t, S)
      BY <1>3, <3>1, <3>2 DEF Roles, LocalRoles
    <3> QED
      BY <1>5, <2>1, <3>1, <3>3 DEF Doubt, InDoubt
  <2>5. CASE s = ProbReq /\ Failed(pool', pool'.use[s])
    <3>1. prob_active'
      BY <2>1, <2>5, ProbKinds DEF PlaceInv, ProbInv, Prob, ProbMsg, ProbId, ProbReq
    <3>2. S \cap Prob = {}
      BY <1>2, <1>6, <2>5, <3>1
    <3>3. s \notin Ours(t, S)
      BY <1>3, <2>5, <3>2, ProbKinds
    <3> QED
      BY <1>5, <2>1, <2>5, <3>3 DEF Doubt, InDoubt
  <2> QED
    BY <2>2, <2>3, <2>4, <2>5
<1>7. ASSUME NEW s \in Owed', s # Slot(t, "req")
      PROVE  s \in Owed
  <2>1. PICK u \in Threads : /\ s = Slot(u, "req") /\ ult'[u].pc = "owner"
                             /\ Failed(pool', pool'.use[s]) /\ s \in DOMAIN pool'.use
    BY DEF Owed, Owes, Slot, Failed
  <2>2. u # t /\ ult'[u] = ult[u] /\ s \notin Ours(t, S)
    BY <1>1, <1>3, <1>7, <2>1 DEF Roles
  <2> QED
    BY <1>5, <2>1, <2>2 DEF Owed, Owes
<1>8. QED
  BY <1>6, <1>7

(***************************************************************************)
(* What t may owe after a step.                                            *)
(***************************************************************************)
LEMMA OwnDebt ==
  ASSUME PlaceInv', NEW t \in Threads
  PROVE  /\ Slot(t, "op") \in Doubt' =>
              ult'[t].pc \in Blocked /\ Failed(pool', Stack(t))
         /\ Slot(t, "ackreq") \in Doubt' =>
              ult'[t].pc \in Handing /\ Failed(pool', pool'.use[Slot(t, "ackreq")])
         /\ Slot(t, "req") \in Owed' =>
              ult'[t].pc = "owner" /\ Failed(pool', pool'.use[Slot(t, "req")])
<1>1. \A role \in Roles : Slot(t, role) \in DOMAIN pool'.use => Has(ult'[t], role)
  BY DEF PlaceInv, SlotInv, Slot, Has, LocalAt, RequestAt
<1>2. /\ Slot(t, "op") \in DOMAIN pool'.use => ult'[t].pc \in Blocked
      /\ Slot(t, "ackreq") \in DOMAIN pool'.use => ult'[t].pc \in Handing
  BY <1>1 DEF Has, LocalAt, Roles, LocalRoles
<1>3. ASSUME NEW s \in Doubt'
      PROVE  /\ s \in DOMAIN pool'.use
             /\ \/ \E u \in Threads : s = Slot(u, "op") /\ Failed(pool', Stack(u))
                \/ \E u \in Threads : s = Slot(u, "ackreq") /\ Failed(pool', pool'.use[s])
                \/ s = ProbReq /\ Failed(pool', pool'.use[s])
  BY DEF Doubt, InDoubt, Slot, Stack, ProbReq, Failed
<1>4. /\ \A u \in Threads : Slot(t, "op") = Slot(u, "op") => u = t
      /\ \A u \in Threads : Slot(t, "op") # Slot(u, "ackreq")
      /\ \A u \in Threads : Slot(t, "ackreq") # Slot(u, "op")
      /\ Slot(t, "op") # ProbReq /\ Slot(t, "ackreq") # ProbReq
  BY Slots, ProbKinds DEF Roles, LocalRoles
<1>5. Slot(t, "op") \in Doubt' => ult'[t].pc \in Blocked /\ Failed(pool', Stack(t))
  BY <1>2, <1>3, <1>4
<1>6. Slot(t, "ackreq") \in Doubt' =>
        ult'[t].pc \in Handing /\ Failed(pool', pool'.use[Slot(t, "ackreq")])
  BY <1>2, <1>3, <1>4
<1>7. ASSUME Slot(t, "req") \in Owed'
      PROVE  ult'[t].pc = "owner" /\ Failed(pool', pool'.use[Slot(t, "req")])
  <2>1. PICK u \in Threads : /\ Slot(t, "req") = Slot(u, "req") /\ ult'[u].pc = "owner"
                             /\ Failed(pool', pool'.use[Slot(t, "req")])
    BY <1>7 DEF Owed, Owes, Slot, Failed
  <2> QED
    BY <2>1, Slots
<1>8. QED
  BY <1>5, <1>6, <1>7

(***************************************************************************)
(* A step that ends a call, one that starts a blocking operation, and one  *)
(* that does neither.                                                      *)
(***************************************************************************)
LEMMA DebtOff ==
  ASSUME PlaceInv, NEW t \in Threads, Calmly(t), PlaceInv', up' = "up",
         prob_active' => prob_active, ult'[t].pc \notin Blocked \cup Handing
  PROVE  /\ Doubt' \subseteq Doubt \ {Slot(t, "op"), Slot(t, "ackreq")}
         /\ Owed' \subseteq Owed \cup {Slot(t, "req")}
         /\ ult'[t].pc # "owner" => Owed' \subseteq Owed \ {Slot(t, "req")}
<1>1. /\ \A s \in Doubt' : s \in Doubt \/ s = Slot(t, "op") \/ s = Slot(t, "ackreq")
      /\ \A s \in Owed' : s \in Owed \/ s = Slot(t, "req")
  BY DebtElsewhere
<1>2. Slot(t, "op") \notin Doubt' /\ Slot(t, "ackreq") \notin Doubt'
  BY OwnDebt
<1>3. ult'[t].pc # "owner" => Slot(t, "req") \notin Owed'
  BY OwnDebt
<1>4. QED
  BY <1>1, <1>2, <1>3

LEMMA FinishedAt ==
  ASSUME PlaceInv, NEW t \in Threads, NEW p, NEW status, Finish(t, p, status)
  PROVE  /\ ult'[t].pc \in {"idle", "owner"}
         /\ ult'[t].pc \notin Blocked \cup Handing
         /\ ult'[t].pc = "owner" => call(t).by # "caller"
<1>1. CASE call(t).by = "caller"
  <2>1. ult'[t] = Idle
    BY <1>1 DEF Finish, Done, PlaceInv, UltInv
  <2> QED
    BY <2>1 DEF Idle, Blocked, Handing
<1>2. CASE call(t).by # "caller"
  <2>1. ult'[t].pc = "owner"
    BY <1>2, WentOthers DEF Finish
  <2> QED
    BY <1>2, <2>1 DEF Blocked, Handing
<1>3. QED
  BY <1>1, <1>2

(***************************************************************************)
(* A call that ends well owes nothing: the eventual of the caller's        *)
(* request is set to the value of success.                                 *)
(***************************************************************************)
LEMMA FinishedWell ==
  ASSUME PlaceInv, NEW t \in Threads, ult[t].pc \notin {"idle", "owner"},
         NEW p, NEW E, Sound(p, E), E \subseteq Left(t), PathOK(t, p),
         call(t).by # "caller" =>
           Slot(t, "req") \in DOMAIN p.use /\ p.use[Slot(t, "req")] = Object(t, "req"),
         Finish(t, p, "ok"), PlaceInv'
  PROVE  Slot(t, "req") \notin Owed'
<1>1. PICK q, r : q = Leave(p, t) /\ r = Object(t, "req")
  OBVIOUS
<1>2. CASE call(t).by = "caller"
  <2>1. ult'[t].pc # "owner"
    BY <1>2, FinishedAt
  <2> QED
    BY <2>1, OwnDebt
<1>3. CASE call(t).by # "caller"
  <2>1. Sound(q, {}) /\ q.use[Slot(t, "req")] = r
    BY <1>1, <1>3, SoundLeave
  <2>2. CASE r \in DOMAIN q.ev
    <3>1. pool' = SetEventual(q, r, "ok")
      BY <1>1, <1>3, <2>2 DEF Finish
    <3>2. PICK e : e = With(q.ev, r, "ok")
      OBVIOUS
    <3>3. pool'.use = q.use /\ pool'.ev = e
      BY <2>1, <3>1, <3>2 DEF SetEventual, Sound, ListsTyped
    <3>4. e[r] = "ok"
      BY <3>2, WithProperties
    <3>5. ~ Failed(pool', pool'.use[Slot(t, "req")])
      BY <2>1, <3>3, <3>4 DEF Failed
    <3> QED
      BY <3>5, OwnDebt
  <2>3. CASE r \notin DOMAIN q.ev
    <3>1. pool' = q
      BY <1>1, <1>3, <2>3 DEF Finish
    <3>2. ~ Failed(pool', pool'.use[Slot(t, "req")])
      BY <2>1, <2>3, <3>1 DEF Failed
    <3> QED
      BY <3>2, OwnDebt
  <2> QED
    BY <2>2, <2>3
<1>4. QED
  BY <1>2, <1>3

(***************************************************************************)
(* How a step changes the account.                                         *)
(***************************************************************************)
LEMMA AccountKept ==
  ASSUME Account, \A o \in pool'.lost : o[1] = "req" => o \in pool.lost,
         Doubt' \subseteq Doubt, Owed' \subseteq Owed,
         failures' = failures \/ failures' = failures + 1
  PROVE  Account'
<1>1. PICK M, E, P, f, g :
        M = Lost({"req"})' /\ E = Doubt' /\ P = Owed' /\ f = failures /\ g = failures'
  OBVIOUS
<1>2. Balanced(Lost({"req"}), Doubt, Owed, f) /\ g \in Nat /\ f <= g
  BY <1>1 DEF Account, Balanced
<1>3. M \subseteq Lost({"req"})
  BY <1>1 DEF Lost
<1>4. Balanced(M, E, P, g)
  BY <1>1, <1>2, <1>3, BalanceKept
<1>5. QED
  BY <1>1, <1>4 DEF Account, Balanced

LEMMA AccountFails ==
  ASSUME Account, \A o \in pool'.lost : o[1] = "req" => o \in pool.lost,
         failures' = failures + 1, NEW x,
         \/ Doubt' \subseteq Doubt \cup {x} /\ Owed' \subseteq Owed
         \/ Doubt' \subseteq Doubt /\ Owed' \subseteq Owed \cup {x}
  PROVE  Account'
<1>1. PICK L, D, O, M, E, P, f, g :
        /\ L = Lost({"req"}) /\ D = Doubt /\ O = Owed /\ f = failures
        /\ M = Lost({"req"})' /\ E = Doubt' /\ P = Owed' /\ g = failures'
  OBVIOUS
<1>2. Balanced(L, D, O, f) /\ f \in Nat /\ g \in Nat /\ g = f + 1
  BY <1>1 DEF Account, Balanced
<1>3. M \subseteq L
  BY <1>1 DEF Lost
<1>4. CASE E \subseteq D \cup {x} /\ P \subseteq O
  <2>1. Balanced(M, E, P, g)
    BY <1>2, <1>3, <1>4, DoubtAdded
  <2> QED
    BY <1>1, <2>1 DEF Account, Balanced
<1>5. CASE E \subseteq D /\ P \subseteq O \cup {x}
  <2>1. Balanced(M, E, P, g)
    BY <1>2, <1>3, <1>5, DebtAdded
  <2> QED
    BY <1>1, <2>1 DEF Account, Balanced
<1>6. QED
  BY <1>1, <1>4, <1>5

LEMMA AccountResolved ==
  ASSUME Account, NEW r, \A o \in pool'.lost : o[1] = "req" => o \in pool.lost \/ o = r,
         NEW x \in Doubt, Doubt' \subseteq Doubt \ {x},
         NEW y, Owed' \subseteq Owed \cup {y}, failures' = failures
  PROVE  Account'
<1>1. PICK L, D, O, M, E, P, f :
        /\ L = Lost({"req"}) /\ D = Doubt /\ O = Owed /\ f = failures
        /\ M = Lost({"req"})' /\ E = Doubt' /\ P = Owed'
  OBVIOUS
<1>2. Balanced(L, D, O, f)
  BY <1>1 DEF Account
<1>3. M \subseteq L \cup {r}
  BY <1>1 DEF Lost
<1>4. x \in D /\ E \subseteq D \ {x} /\ P \subseteq O \cup {y}
  BY <1>1
<1>5. Balanced(M, E, P, f)
  BY <1>2, <1>3, <1>4, DoubtResolved
<1>6. QED
  BY <1>1, <1>5 DEF Account, Balanced

LEMMA AccountForgotten ==
  ASSUME Account, NEW r, \A o \in pool'.lost : o[1] = "req" => o \in pool.lost \/ o = r,
         Doubt' \subseteq Doubt, NEW y \in Owed, Owed' \subseteq Owed \ {y},
         failures' = failures
  PROVE  Account'
<1>1. PICK L, D, O, M, E, P, f :
        /\ L = Lost({"req"}) /\ D = Doubt /\ O = Owed /\ f = failures
        /\ M = Lost({"req"})' /\ E = Doubt' /\ P = Owed'
  OBVIOUS
<1>2. Balanced(L, D, O, f)
  BY <1>1 DEF Account
<1>3. M \subseteq L \cup {r}
  BY <1>1 DEF Lost
<1>4. y \in O /\ E \subseteq D /\ P \subseteq O \ {y}
  BY <1>1
<1>5. Balanced(M, E, P, f)
  BY <1>2, <1>3, <1>4, OwedForgotten
<1>6. QED
  BY <1>1, <1>5 DEF Account, Balanced

(***************************************************************************)
(* The ways a step can go that leaves t outside any wait: nothing new is   *)
(* owed, something has failed, or an operation in doubt has been looked    *)
(* at.                                                                     *)
(***************************************************************************)
LEMMA NothingOwed ==
  ASSUME PlaceInv, Account, NEW t \in Threads, Calmly(t), PlaceInv', up' = "up",
         prob_active' => prob_active, ult'[t].pc \notin Blocked \cup Handing,
         \A o \in pool'.lost : o[1] = "req" => o \in pool.lost,
         Slot(t, "req") \notin Owed' \/ ult'[t].pc # "owner",
         failures' = failures \/ failures' = failures + 1
  PROVE  Account'
<1>1. /\ Doubt' \subseteq Doubt \ {Slot(t, "op"), Slot(t, "ackreq")}
      /\ Owed' \subseteq Owed \cup {Slot(t, "req")}
      /\ ult'[t].pc # "owner" => Owed' \subseteq Owed \ {Slot(t, "req")}
  BY DebtOff
<1>2. Doubt' \subseteq Doubt /\ Owed' \subseteq Owed
  BY <1>1
<1>3. QED
  BY <1>2, AccountKept

LEMMA FailureOwed ==
  ASSUME PlaceInv, Account, NEW t \in Threads, Calmly(t), PlaceInv', up' = "up",
         prob_active' => prob_active, ult'[t].pc \notin Blocked \cup Handing,
         \A o \in pool'.lost : o[1] = "req" => o \in pool.lost,
         failures' = failures + 1
  PROVE  Account'
<1>1. /\ Doubt' \subseteq Doubt \ {Slot(t, "op"), Slot(t, "ackreq")}
      /\ Owed' \subseteq Owed \cup {Slot(t, "req")}
  BY DebtOff
<1>2. Doubt' \subseteq Doubt /\ Owed' \subseteq Owed \cup {Slot(t, "req")}
  BY <1>1
<1>3. QED
  BY <1>2, AccountFails

LEMMA DoubtSettled ==
  ASSUME PlaceInv, Account, NEW t \in Threads, Calmly(t), PlaceInv', up' = "up",
         prob_active' => prob_active, ult'[t].pc \notin Blocked \cup Handing,
         NEW r, \A o \in pool'.lost : o[1] = "req" => o \in pool.lost \/ o = r,
         NEW x \in Doubt, x \notin Doubt', failures' = failures
  PROVE  Account'
<1>1. /\ Doubt' \subseteq Doubt \ {Slot(t, "op"), Slot(t, "ackreq")}
      /\ Owed' \subseteq Owed \cup {Slot(t, "req")}
  BY DebtOff
<1>2. Doubt' \subseteq Doubt \ {x}
  BY <1>1
<1>3. QED
  BY <1>1, <1>2, AccountResolved

(***************************************************************************)
(* Starting a blocking operation.                                          *)
(***************************************************************************)
LEMMA BlockAccount ==
  ASSUME PlaceInv, Account, NEW t \in Threads, Calmly(t), Kept, PlaceInv', NaInv', up' = "up",
         prob_active' = prob_active, NEW p, NEW buf, NEW l \in Blocked,
         StartBlocking(t, p, buf, l), l \notin Handing \/ (p = pool /\ ult[t].pc \in Handing)
  PROVE  Account'
<1>1. ult'[t].pc = l /\ ult'[t].pc # "owner"
  BY WentOthers DEF StartBlocking, Blocked
<1>2. Owed' \subseteq Owed
  BY <1>1, DebtElsewhere, OwnDebt
<1>3. ASSUME Slot(t, "ackreq") \in Doubt'
      PROVE  Slot(t, "ackreq") \in Doubt
  <2>1. l \in Handing /\ Failed(pool', pool'.use[Slot(t, "ackreq")])
    BY <1>1, <1>3, OwnDebt
  <2>2. p = pool /\ ult[t].pc \in Handing
    BY <2>1
  <2>3. /\ Slot(t, "ackreq") \in DOMAIN pool.use /\ Slot(t, "ackreq") # Slot(t, "op")
        /\ pool.use[Slot(t, "ackreq")] # Stack(t)
    BY <2>2, AckSlots
  <2>4. Quiet(p, t, {})
    BY <2>2, QuietFirst DEF PlaceInv
  <2>5. /\ \E v : pool'.ev = With(p.ev, Stack(t), v)
        /\ \A s \in DOMAIN p.use :
             s # Slot(t, "op") => s \in DOMAIN pool'.use /\ pool'.use[s] = p.use[s]
    BY <2>4, StartedPool
  <2>6. PICK v : pool'.ev = With(pool.ev, Stack(t), v)
    BY <2>2, <2>5
  <2>7. pool'.use[Slot(t, "ackreq")] = pool.use[Slot(t, "ackreq")]
    BY <2>2, <2>3, <2>5
  <2>8. Failed(pool, pool.use[Slot(t, "ackreq")])
    BY <2>1, <2>3, <2>6, <2>7, WithProperties DEF Failed
  <2> QED
    BY <2>3, <2>8 DEF Doubt, InDoubt
<1>4. Doubt' \subseteq Doubt \cup {Slot(t, "op")}
  BY <1>3, DebtElsewhere
<1>5. \A o \in pool'.lost : o \in pool.lost
  BY DEF Kept
<1>6. CASE failures' = failures + 1
  BY <1>2, <1>4, <1>5, <1>6, AccountFails
<1>7. CASE /\ \E id : na' = na \cup {Operation(id, buf, Stack(t))}
           /\ failures' = failures
  <2>1. PICK o \in na' : o.req = Stack(t)
    <3>1. PICK id : na' = na \cup {Operation(id, buf, Stack(t))}
      BY <1>7
    <3>2. PICK o : o = Operation(id, buf, Stack(t))
      OBVIOUS
    <3>3. o \in na' /\ o.req = Stack(t)
      BY <3>1, <3>2 DEF Operation
    <3> QED
      BY <3>3
  <2>2. Pends(o)'
    BY <2>1 DEF NaInv
  <2>3. ~ Failed(pool', Stack(t))
    BY <2>1, <2>2 DEF Pends, Failed
  <2>4. Slot(t, "op") \notin Doubt'
    BY <2>3, OwnDebt
  <2>5. Doubt' \subseteq Doubt
    BY <1>4, <2>4
  <2> QED
    BY <1>2, <1>5, <1>7, <2>5, AccountKept
<1>8. QED
  BY <1>6, <1>7 DEF StartBlocking, Refused, Fails

LEMMA StartAccount ==
  ASSUME PlaceInv, Sound(pool, {}), Account, NEW t \in Threads, Calmly(t),
         PlaceInv', NaInv', up' = "up",
         \/ Oper(t) \/ SendSmall(t) \/ SendHandle(t) \/ Recv(t) \/ GetLarge(t) \/ Acknowledge(t)
  PROVE  Account'
<1>1. /\ ult[t].pc # "idle" /\ prob_active' = prob_active
      /\ \/ \E p, buf : \E l \in Blocked \ Handing : StartBlocking(t, p, buf, l)
         \/ \E p : Finish(t, p, "error") /\ failures' = failures + 1
         \/ Goto(t, "acknowledge") /\ failures' = failures
         \/ StartBlocking(t, pool, Object(t, "mem"), "handlesent") /\ ult[t].pc \in Handing
  BY DEF Oper, SendSmall, SendHandle, Recv, GetLarge, Acknowledge, At, Fails, inst, Blocked, Handing
<1>2. Kept
  BY StartKept, MessageKept
<1>3. \A o \in pool'.lost : o \in pool.lost
  BY <1>2 DEF Kept
<1>4. CASE \E p, buf : \E l \in Blocked \ Handing : StartBlocking(t, p, buf, l)
  BY <1>1, <1>2, <1>4, BlockAccount
<1>5. CASE \E p : Finish(t, p, "error") /\ failures' = failures + 1
  <2>1. ult'[t].pc \notin Blocked \cup Handing
    BY <1>5, FinishedAt
  <2> QED
    BY <1>1, <1>3, <1>5, <2>1, FailureOwed
<1>6. CASE Goto(t, "acknowledge") /\ failures' = failures
  <2>1. ult'[t].pc = "acknowledge"
    BY <1>6, WentOthers
  <2>2. ult'[t].pc \notin Blocked \cup Handing /\ ult'[t].pc # "owner"
    BY <2>1 DEF Blocked, Handing
  <2> QED
    BY <1>1, <1>3, <1>6, <2>2, NothingOwed
<1>7. CASE StartBlocking(t, pool, Object(t, "mem"), "handlesent") /\ ult[t].pc \in Handing
  <2>1. "handlesent" \in Blocked
    BY DEF Blocked
  <2> QED
    BY <1>1, <1>2, <1>7, <2>1, BlockAccount
<1>8. QED
  BY <1>1, <1>4, <1>5, <1>6, <1>7

(***************************************************************************)
(* A blocking operation is over, with success or not.                      *)
(***************************************************************************)
LEMMA SetTo ==
  ASSUME PlaceInv, NEW r, IsSet(r)
  PROVE  /\ r \in DOMAIN pool.ev /\ Value(r) \in {"ok", "error"}
         /\ Value(r) = "error" => Failed(pool, r)
BY DEF PlaceInv, PoolOK, PoolTyped, IsSet, Value, Values, Failed

LEMMA AckKind ==
  ASSUME PlaceInv, NEW t \in Threads, ult[t].pc \in Handing
  PROVE  Object(t, "ack")[1] \in {"expected", "unexpected"}
<1>1. ult[t].pc # "idle" /\ call(t).op = "send" /\ Slot(t, "ack") \in DOMAIN pool.use
  BY AckSlots DEF PlaceInv, UltInv, Fitting, call
<1>2. call(t).path \in {"expected", "unexpected"}
  BY <1>1, CallOf
<1>3. Object(t, "ack") \in Kind(call(t).path)
  BY <1>1 DEF PlaceInv, SlotInv, Roles, LocalRoles, KindAt, Object
<1>4. QED
  BY <1>2, <1>3, KindsOfObjects

LEMMA OverAccount ==
  ASSUME PlaceInv, Sound(pool, {}), Account, NEW t \in Threads, Calmly(t),
         PlaceInv', NaInv', up' = "up",
         OperOver(t) \/ Sent(t) \/ Received(t) \/ Fetched(t) \/ HandleSent(t)
  PROVE  Account'
<1>1. PICK q, v : q = AfterBlocking(t) /\ v = Value(Stack(t))
  OBVIOUS
<1>2. /\ ult[t].pc \in Blocked /\ ult[t].pc \notin {"idle", "owner"} /\ IsSet(Stack(t))
      /\ prob_active' = prob_active /\ failures' = failures
  BY DEF OperOver, Sent, Received, Fetched, HandleSent, At, BlockingOver, Blocked, inst, bounds
<1>3. v \in {"ok", "error"} /\ (v = "error" => Failed(pool, Stack(t)))
  BY <1>1, <1>2, SetTo
<1>4. /\ Sound(q, {}) /\ q.lost = pool.lost
      /\ \A s : s \in DOMAIN q.use <=> s \in DOMAIN pool.use /\ s # Slot(t, "op")
      /\ \A s \in DOMAIN q.use : q.use[s] = pool.use[s]
  BY <1>1, <1>2, SoundAfter
<1>5. CASE v = "error"
  <2>1. \E p : Finish(t, p, "error")
    BY <1>1, <1>5 DEF OperOver, Sent, Received, Fetched, HandleSent
  <2>2. ult'[t].pc \notin Blocked \cup Handing
    BY <1>2, <2>1, FinishedAt
  <2>3. Slot(t, "op") \in Doubt
    <3>1. Slot(t, "op") \in DOMAIN pool.use
      BY <1>2 DEF PlaceInv, SlotInv, Has, LocalAt, Roles, LocalRoles
    <3> QED
      BY <1>3, <1>5, <3>1 DEF Doubt, InDoubt
  <2>4. Slot(t, "op") \notin Doubt'
    BY <2>2, OwnDebt
  <2>5. \E r : \A o \in pool'.lost : o[1] = "req" => o \in pool.lost \/ o = r
    <3>1. CASE HandleSent(t)
      <4>1. pool'.lost = pool.lost \cup {Object(t, "ack"), Object(t, "ackreq")}
        BY <1>1, <1>5, <3>1, HandleSentSound
      <4>2. ult[t].pc \in Handing
        BY <3>1 DEF HandleSent, At, Handing
      <4>3. Object(t, "ack")[1] # "req"
        BY <4>2, AckKind
      <4> QED
        BY <4>1, <4>3
    <3>2. CASE OperOver(t) \/ Sent(t) \/ Received(t) \/ Fetched(t)
      BY <3>2, OverKept DEF Kept
    <3> QED
      BY <3>1, <3>2
  <2> QED
    BY <1>2, <2>2, <2>3, <2>4, <2>5, DoubtSettled
<1>6. CASE v = "ok"
  <2>1. Kept
    BY <1>1, <1>6, OverKept
  <2>2. \A o \in pool'.lost : o \in pool.lost
    BY <2>1 DEF Kept
  <2>3. CASE Goto(t, "ackwait") /\ pool' = q /\ ult[t].pc \in Handing
    <3>1. ult'[t].pc = "ackwait"
      BY <2>3, WentOthers
    <3>2. Slot(t, "op") \notin Doubt' /\ Slot(t, "req") \notin Owed'
      BY <3>1, OwnDebt DEF Blocked
    <3>3. ASSUME Slot(t, "ackreq") \in Doubt'
          PROVE  Slot(t, "ackreq") \in Doubt
      <4>1. Failed(q, q.use[Slot(t, "ackreq")])
        BY <2>3, <3>3, OwnDebt
      <4>2. Slot(t, "ackreq") \in DOMAIN pool.use /\ Slot(t, "ackreq") # Slot(t, "op")
        BY <2>3, AckSlots
      <4>3. q.use[Slot(t, "ackreq")] = pool.use[Slot(t, "ackreq")]
        BY <1>4, <4>2
      <4>4. q.ev = Without(pool.ev, {Stack(t)})
        BY <1>1, <1>2, QuietAfter
      <4>5. Failed(pool, pool.use[Slot(t, "ackreq")])
        BY <4>1, <4>3, <4>4, WithoutProperties DEF Failed
      <4> QED
        BY <4>2, <4>5 DEF Doubt, InDoubt
    <3>4. Doubt' \subseteq Doubt /\ Owed' \subseteq Owed
      BY <1>2, <3>2, <3>3, DebtElsewhere
    <3> QED
      BY <1>2, <2>2, <3>4, AccountKept
  <2>4. CASE \E l \in {"got", "acknowledge"} : Goto(t, l)
    <3>1. ult'[t].pc \in {"got", "acknowledge"}
      BY <2>4, WentOthers
    <3>2. ult'[t].pc \notin Blocked \cup Handing /\ ult'[t].pc # "owner"
      BY <3>1 DEF Blocked, Handing
    <3> QED
      BY <1>2, <2>2, <3>2, NothingOwed
  <2>5. CASE Finish(t, q, "ok") /\ ult[t].pc \in {"oper", "sending"}
    <3>1. ult'[t].pc \notin Blocked \cup Handing
      BY <1>2, <2>5, FinishedAt
    <3>2. PathOK(t, q)
      <4>1. CASE ult[t].pc = "oper"
        BY <1>4, <4>1 DEF PathOK, PlaceInv, SlotInv, Has, LocalAt, Roles, LocalRoles, Handing
      <4>2. CASE ult[t].pc = "sending"
        BY <4>2, PathsOK DEF PlaceInv, UltInv, Fitting, call
      <4> QED
        BY <2>5, <4>1, <4>2
    <3>3. call(t).by # "caller" =>
            Slot(t, "req") \in DOMAIN q.use /\ q.use[Slot(t, "req")] = Object(t, "req")
      <4>1. call(t).by # "caller" => Slot(t, "req") \in DOMAIN pool.use
        BY <1>2 DEF PlaceInv, SlotInv, Has, RequestAt, Roles, call
      <4>2. Slot(t, "req") # Slot(t, "op")
        BY DEF Slot
      <4> QED
        BY <1>4, <4>1, <4>2 DEF Object
    <3>4. PICK E : E = {}
      OBVIOUS
    <3>5. Slot(t, "req") \notin Owed'
      BY <1>2, <1>4, <2>5, <3>2, <3>3, <3>4, FinishedWell
    <3> QED
      BY <1>2, <2>2, <3>1, <3>5, NothingOwed
  <2> QED
    BY <1>1, <1>6, <2>3, <2>4, <2>5
      DEF OperOver, Sent, Received, Fetched, HandleSent, At, Handing
<1>7. QED
  BY <1>3, <1>5, <1>6

LEMMA AcknowledgedAccount ==
  ASSUME PlaceInv, Sound(pool, {}), Account, NEW t \in Threads, Calmly(t),
         PlaceInv', up' = "up", Acknowledged(t)
  PROVE  Account'
<1>1. PICK p, q, v : /\ p = Wait(pool, Slot(t, "ackreq")) /\ q = Return(p, Slot(t, "ackop"), "op")
                     /\ v = Value(Object(t, "ackreq"))
  OBVIOUS
<1>2. /\ ult[t].pc = "ackwait" /\ ult[t].pc \in Handing /\ ult[t].pc \notin {"idle", "owner"}
      /\ Finish(t, q, v) /\ IsSet(Object(t, "ackreq"))
      /\ prob_active' = prob_active /\ failures' = failures
  BY <1>1 DEF Acknowledged, At, ReturnOpId, Handing, inst, bounds
<1>3. ult'[t].pc \notin Blocked \cup Handing
  BY <1>2, FinishedAt
<1>4. v \in {"ok", "error"} /\ (v = "error" => Failed(pool, Object(t, "ackreq")))
  BY <1>1, <1>2, SetTo
<1>5. /\ \A role \in {"ackop", "ackreq"} : Slot(t, role) \in DOMAIN pool.use
      /\ call(t).path \in Kinds /\ Object(t, "ack")[1] # "req"
  BY <1>2, AckSlots, AckKind
<1>6. pool'.lost = pool.lost \cup {Object(t, "ack")}
        \cup (IF v = "ok" THEN {} ELSE {Object(t, "ackreq")})
  BY <1>1, AcknowledgedSound
<1>7. CASE v = "error"
  <2>1. Slot(t, "ackreq") \in Doubt
    BY <1>4, <1>5, <1>7 DEF Doubt, InDoubt, Object
  <2>2. Slot(t, "ackreq") \notin Doubt'
    BY <1>3, OwnDebt
  <2>3. PICK r : r = Object(t, "ackreq")
    OBVIOUS
  <2>4. \A o \in pool'.lost : o[1] = "req" => o \in pool.lost \/ o = r
    BY <1>5, <1>6, <2>3
  <2> QED
    BY <1>2, <1>3, <2>1, <2>2, <2>4, DoubtSettled
<1>8. CASE v = "ok"
  <2>1. \A o \in pool'.lost : o[1] = "req" => o \in pool.lost
    BY <1>5, <1>6, <1>8
  <2>2. PICK E : E = {Slot(t, "ackreq")}
    OBVIOUS
  <2>3. /\ Sound(p, E)
        /\ \A s : s # Slot(t, "ackreq") => (s \in DOMAIN p.use <=> s \in DOMAIN pool.use)
        /\ \A s \in DOMAIN pool.use : s # Slot(t, "ackreq") => p.use[s] = pool.use[s]
    <3>1. PICK slot : slot = Slot(t, "ackreq")
      OBVIOUS
    <3>2. /\ Sound(p, {slot})
          /\ \A s : s # slot => (s \in DOMAIN p.use <=> s \in DOMAIN pool.use)
          /\ \A s \in DOMAIN pool.use : s # slot => p.use[s] = pool.use[s]
      BY <1>1, <1>5, <3>1, SoundWait
    <3> QED
      BY <2>2, <3>1, <3>2
  <2>4. /\ Sound(q, E)
        /\ \A s : s \in DOMAIN q.use <=> s \in DOMAIN p.use /\ s # Slot(t, "ackop")
        /\ \A s \in DOMAIN p.use : s # Slot(t, "ackop") => q.use[s] = p.use[s]
    <3>1. Slot(t, "ackop") \in DOMAIN p.use /\ Slot(t, "ackop") \notin E /\ "op" \in Kinds
      BY <1>5, <2>2, <2>3 DEF Slot, Kinds
    <3> QED
      BY <1>1, <2>3, <3>1, SoundReturn
  <2>5. call(t).by # "caller" =>
          Slot(t, "req") \in DOMAIN q.use /\ q.use[Slot(t, "req")] = Object(t, "req")
    <3>1. call(t).by # "caller" => Slot(t, "req") \in DOMAIN pool.use
      BY <1>2 DEF PlaceInv, SlotInv, Has, RequestAt, Roles, call
    <3>2. Slot(t, "req") # Slot(t, "ackreq") /\ Slot(t, "req") # Slot(t, "ackop")
      BY DEF Slot
    <3> QED
      BY <2>3, <2>4, <3>1, <3>2 DEF Object
  <2>6. E \subseteq Left(t) /\ PathOK(t, q)
    BY <1>5, <2>2 DEF Left, PathOK
  <2>7. Slot(t, "req") \notin Owed'
    BY <1>2, <1>8, <2>4, <2>5, <2>6, FinishedWell
  <2> QED
    BY <1>2, <1>3, <2>1, <2>7, NothingOwed
<1>9. QED
  BY <1>4, <1>7, <1>8

LEMMA ProbDebt ==
  ASSUME PlaceInv', up' = "up", ProbReq \in Doubt'
  PROVE  prob_active' /\ Failed(pool', pool'.use[ProbReq])
<1>1. /\ ProbReq \in DOMAIN pool'.use
      /\ \/ \E u \in Threads : ProbReq = Slot(u, "op")
         \/ \E u \in Threads : ProbReq = Slot(u, "ackreq")
         \/ Failed(pool', pool'.use[ProbReq])
  BY DEF Doubt, InDoubt, Slot, Stack, ProbReq, Failed
<1>2. \A u \in Threads : ProbReq # Slot(u, "op") /\ ProbReq # Slot(u, "ackreq")
  BY Slots DEF Roles, LocalRoles, Prob
<1>3. prob_active'
  BY <1>1 DEF PlaceInv, ProbInv, Prob, ProbMsg, ProbId, ProbReq
<1>4. QED
  BY <1>1, <1>2, <1>3

LEMMA ReapAccount ==
  ASSUME PlaceInv, Sound(pool, {}), Account, NEW t \in Threads, Calmly(t),
         PlaceInv', up' = "up", Reap(t)
  PROVE  Account'
<1>1. PICK w, p, z, m, v :
        /\ w = Wait(pool, ProbReq) /\ p = Return(w, ProbId, "op")
        /\ z = <<"pending", p.use[ProbMsg]>> /\ m = Move(p, ProbMsg, z)
        /\ v = Value(pool.use[ProbReq])
  OBVIOUS
<1>2. /\ ult[t].pc = "listening" /\ IsSet(pool.use[ProbReq]) /\ ~ prob_active'
      /\ failures' = failures
      /\ \/ v = "error" /\ \E f : Finish(t, f, "error")
         \/ v = "ok" /\ \E l \in {"got", "listen"} : Goto(t, l)
         \/ v = "ok" /\ Finish(t, m, "ok")
  BY <1>1 DEF Reap, At, ReturnMsg, ReturnOpId, bounds
<1>3. call(t).op \in {"send", "recv", "probe"} /\ ult[t].pc \notin {"idle", "owner"}
  BY <1>2 DEF Listening, PlaceInv, UltInv, Fitting, call
<1>4. \A s \in Prob : s \in DOMAIN pool.use
  BY <1>2, <1>3, SomebodyUp DEF PlaceInv, ProbInv, ListenInv
<1>5. pool'.lost = pool.lost \cup (IF v = "error" THEN {pool.use[ProbReq]} ELSE {})
  BY <1>1, ReapSound
<1>6. ProbReq \notin Doubt'
  BY <1>2, ProbDebt
<1>7. CASE v = "error" /\ \E f : Finish(t, f, "error")
  <2>1. ult'[t].pc \notin Blocked \cup Handing
    BY <1>7, FinishedAt
  <2>2. ProbReq \in Doubt
    <3>1. Failed(pool, pool.use[ProbReq])
      BY <1>1, <1>2, <1>7, SetTo
    <3> QED
      BY <1>4, <3>1 DEF Doubt, InDoubt, Prob
  <2>3. PICK r : r = pool.use[ProbReq]
    OBVIOUS
  <2>4. \A o \in pool'.lost : o \in pool.lost \/ o = r
    BY <1>5, <2>3
  <2> QED
    BY <1>2, <1>6, <2>1, <2>2, <2>4, DoubtSettled
<1>8. CASE v = "ok" /\ \E l \in {"got", "listen"} : Goto(t, l)
  <2>1. ult'[t].pc \in {"got", "listen"}
    BY <1>8, WentOthers
  <2>2. ult'[t].pc \notin Blocked \cup Handing /\ ult'[t].pc # "owner"
    BY <2>1 DEF Blocked, Handing
  <2> QED
    BY <1>2, <1>5, <1>8, <2>2, NothingOwed
<1>9. CASE v = "ok" /\ Finish(t, m, "ok")
  <2>1. ult'[t].pc \notin Blocked \cup Handing
    BY <1>9, FinishedAt
  <2>2. /\ Sound(w, {ProbReq})
        /\ \A s : s # ProbReq => (s \in DOMAIN w.use <=> s \in DOMAIN pool.use)
        /\ \A s \in DOMAIN pool.use : s # ProbReq => w.use[s] = pool.use[s]
        /\ ProbReq \notin DOMAIN w.use
    <3>1. ProbReq \in DOMAIN pool.use /\ pool.ev[pool.use[ProbReq]] = "ok"
      BY <1>1, <1>4, <1>9 DEF Value, Prob
    <3> QED
      BY <1>1, <3>1, SoundWait
  <2>3. /\ Sound(p, {ProbReq})
        /\ \A s : s \in DOMAIN p.use <=> s \in DOMAIN w.use /\ s # ProbId
        /\ \A s \in DOMAIN w.use : s # ProbId => p.use[s] = w.use[s]
    <3>1. ProbId \in DOMAIN w.use /\ ProbId \notin {ProbReq}
      BY <1>4, <2>2, ProbKinds DEF Prob
    <3> QED
      BY <1>1, <2>2, <3>1, ProbKinds, SoundReturn
  <2>4. Sound(p, {}) /\ ProbMsg \in DOMAIN p.use
    BY <1>4, <2>2, <2>3, ProbKinds DEF Sound, Equipped, Prob
  <2>5. /\ Sound(m, {})
        /\ \A s \in DOMAIN p.use :
             s # ProbMsg /\ s # z => s \in DOMAIN m.use /\ m.use[s] = p.use[s]
    BY <1>1, <2>4, SoundMove
  <2>6. call(t).by # "caller" =>
          Slot(t, "req") \in DOMAIN m.use /\ m.use[Slot(t, "req")] = Object(t, "req")
    <3>1. call(t).by # "caller" => Slot(t, "req") \in DOMAIN pool.use
      BY <1>3 DEF PlaceInv, SlotInv, Has, RequestAt, Roles, call
    <3>2. \A s \in Prob : Slot(t, "req") # s
      BY Slots DEF Roles
    <3>3. Slot(t, "req") # z
      BY <1>1, Slots
    <3> QED
      BY <2>2, <2>3, <2>5, <3>1, <3>2, <3>3 DEF Object, Prob
  <2>7. Slot(t, "req") \notin Owed'
    <3>1. PICK E : E = {}
      OBVIOUS
    <3>2. PathOK(t, m)
      BY <1>3, PathsOK
    <3> QED
      BY <1>3, <1>9, <2>5, <2>6, <3>1, <3>2, FinishedWell
  <2> QED
    BY <1>2, <1>5, <1>9, <2>1, <2>7, NothingOwed
<1>10. QED
  BY <1>2, <1>7, <1>8, <1>9

(***************************************************************************)
(* The owner of a request looks at it.                                     *)
(***************************************************************************)
LEMMA OwnAccount ==
  ASSUME PlaceInv, Sound(pool, {}), Account, NEW t \in Threads, Calmly(t),
         PlaceInv', up' = "up", Own(t)
  PROVE  Account'
<1>1. /\ ult[t].pc = "owner" /\ IsSet(Object(t, "req"))
      /\ prob_active' = prob_active /\ failures' = failures /\ ult'[t].pc = "idle"
  BY DEF Own, At, Done, Idle, inst, bounds, PlaceInv, UltInv
<1>2. ult'[t].pc \notin Blocked \cup Handing /\ ult'[t].pc # "owner"
  BY <1>1 DEF Blocked, Handing
<1>3. PICK r, v : r = Object(t, "req") /\ v = Value(Object(t, "req"))
  OBVIOUS
<1>4. pool'.lost = pool.lost \cup (IF v = "ok" THEN {} ELSE {r})
  BY <1>3, OwnSound
<1>5. v \in {"ok", "error"} /\ (v = "error" => Failed(pool, Object(t, "req")))
  BY <1>1, <1>3, SetTo
<1>6. CASE v = "ok"
  BY <1>1, <1>2, <1>4, <1>6, NothingOwed
<1>7. CASE v = "error"
  <2>1. Slot(t, "req") \in DOMAIN pool.use
    BY <1>1 DEF PlaceInv, SlotInv, Has, RequestAt, Roles
  <2>2. Slot(t, "req") \in Owed
    BY <1>1, <1>5, <1>7, <2>1 DEF Owed, Owes, Object
  <2>3. /\ Doubt' \subseteq Doubt \ {Slot(t, "op"), Slot(t, "ackreq")}
        /\ Owed' \subseteq Owed \ {Slot(t, "req")}
    BY <1>1, <1>2, DebtOff
  <2>4. Doubt' \subseteq Doubt /\ \A o \in pool'.lost : o \in pool.lost \/ o = r
    BY <1>4, <2>3
  <2> QED
    BY <1>1, <2>2, <2>3, <2>4, AccountForgotten
<1>8. QED
  BY <1>5, <1>6, <1>7

(***************************************************************************)
(* The steps that wait for nothing.                                        *)
(***************************************************************************)
LEMMA EnterAccount ==
  ASSUME PlaceInv, Sound(pool, {}), Account, NEW t \in Threads, Calmly(t),
         PlaceInv', up' = "up", Enter(t) \/ Claim(t)
  PROVE  Account'
<1>1. /\ prob_active' = prob_active /\ (failures' = failures \/ failures' = failures + 1)
      /\ ult'[t].pc \in {"idle", "begin", "listen"}
  BY WentOthers DEF Enter, Claim, At, Begin, Fails, inst, bounds, PlaceInv, UltInv
<1>2. ult'[t].pc \notin Blocked \cup Handing /\ ult'[t].pc # "owner"
  BY <1>1 DEF Blocked, Handing
<1>3. \A o \in pool'.lost : o \in pool.lost
  BY EnterKept, MessageKept DEF Kept
<1>4. QED
  BY <1>1, <1>2, <1>3, NothingOwed

LEMMA DoneAccount ==
  ASSUME PlaceInv, Sound(pool, {}), Account, NEW t \in Threads, Calmly(t),
         PlaceInv', up' = "up", CopySmall(t) \/ TakeQueued(t) \/ StopListening(t)
  PROVE  Account'
<1>1. /\ prob_active' = prob_active /\ failures' = failures
      /\ ult[t].pc \in {"got", "begin", "listening"}
      /\ call(t).op \in {"send", "recv", "probe"}
      /\ Finish(t, pool, "ok") \/ Goto(t, "got")
  BY DEF CopySmall, TakeQueued, StopListening, At, WantsMessage, inst, bounds,
     PlaceInv, UltInv, Fitting, Listening, call
<1>2. \A o \in pool'.lost : o \in pool.lost
  BY MessageKept, TakeQueuedKept DEF Kept
<1>3. CASE Goto(t, "got")
  <2>1. ult'[t].pc = "got"
    BY <1>3, WentOthers
  <2>2. ult'[t].pc \notin Blocked \cup Handing /\ ult'[t].pc # "owner"
    BY <2>1 DEF Blocked, Handing
  <2> QED
    BY <1>1, <1>2, <2>2, NothingOwed
<1>4. CASE Finish(t, pool, "ok")
  <2>1. ult'[t].pc \notin Blocked \cup Handing
    BY <1>4, FinishedAt
  <2>2. call(t).by # "caller" => Slot(t, "req") \in DOMAIN pool.use
    BY <1>1 DEF PlaceInv, SlotInv, Has, RequestAt, Roles, call
  <2>3. PICK E : E = {}
    OBVIOUS
  <2>4. PathOK(t, pool) /\ ult[t].pc \notin {"idle", "owner"}
    BY <1>1, PathsOK
  <2>5. Slot(t, "req") \notin Owed'
    BY <1>4, <2>2, <2>3, <2>4, FinishedWell DEF Object
  <2> QED
    BY <1>1, <1>2, <2>1, <2>5, NothingOwed
<1>5. QED
  BY <1>1, <1>3, <1>4

LEMMA IoperAccount ==
  ASSUME PlaceInv, Sound(pool, {}), Account, NEW t \in Threads, Calmly(t),
         PlaceInv', up' = "up", Ioper(t)
  PROVE  Account'
<1>1. /\ prob_active' = prob_active /\ (failures' = failures \/ failures' = failures + 1)
      /\ ult'[t].pc \in {"idle", "owner"}
  BY WentOthers DEF Ioper, At, Done, Idle, Fails, inst, PlaceInv, UltInv
<1>2. ult'[t].pc \notin Blocked \cup Handing
  BY <1>1 DEF Blocked, Handing
<1>3. /\ \A o \in pool'.lost : o \in pool.lost
      /\ ult'[t].pc = "owner" => pool'.ev[pool'.use[Slot(t, "req")]] = "unset"
  BY IoperKept
<1>4. Slot(t, "req") \notin Owed'
  BY <1>3, OwnDebt DEF Failed
<1>5. QED
  BY <1>1, <1>2, <1>3, <1>4, NothingOwed

(***************************************************************************)
(* Those that post a receive.                                              *)
(***************************************************************************)
LEMMA ListenAccount ==
  ASSUME PlaceInv, Sound(pool, {}), Account, NEW t \in Threads, Calmly(t),
         PlaceInv', up' = "up", Listen(t)
  PROVE  Account'
<1>1. /\ \A o \in pool'.lost : o \in pool.lost
      /\ ~ prob_active /\ prob_active' => pool'.ev[pool'.use[ProbReq]] = "unset"
  BY ListenKept DEF Kept
<1>2. \/ Goto(t, "listening") /\ failures' = failures
      \/ /\ \E p : Finish(t, p, "error")
         /\ prob_active' = prob_active /\ failures' = failures + 1
  BY DEF Listen, Refused, Fails
<1>3. CASE Goto(t, "listening") /\ failures' = failures
  <2>1. ult'[t].pc = "listening"
    BY <1>3, WentOthers
  <2>2. /\ Slot(t, "op") \notin Doubt' /\ Slot(t, "ackreq") \notin Doubt'
        /\ Slot(t, "req") \notin Owed'
    BY <2>1, OwnDebt DEF Blocked, Handing
  <2>3. ~ prob_active /\ prob_active' => ProbReq \notin Doubt'
    BY <1>1, ProbDebt DEF Failed
  <2>4. Doubt' \subseteq Doubt /\ Owed' \subseteq Owed
    BY <2>2, <2>3, DebtElsewhere
  <2> QED
    BY <1>1, <1>3, <2>4, AccountKept
<1>4. CASE /\ \E p : Finish(t, p, "error")
           /\ prob_active' = prob_active /\ failures' = failures + 1
  <2>1. ult'[t].pc \notin Blocked \cup Handing
    BY <1>4, FinishedAt
  <2> QED
    BY <1>1, <1>4, <2>1, FailureOwed
<1>5. QED
  BY <1>2, <1>3, <1>4

LEMMA SendLargeAccount ==
  ASSUME PlaceInv, Sound(pool, {}), Account, NEW t \in Threads, Calmly(t),
         PlaceInv', up' = "up", SendLarge(t)
  PROVE  Account'
<1>1. /\ prob_active' = prob_active
      /\ \/ (\E p : Finish(t, p, "error")) /\ failures' = failures + 1
         \/ Goto(t, "handle") /\ failures' = failures
  BY DEF SendLarge, Refused, Fails, inst
<1>2. \A o \in pool'.lost : o[1] = "req" => o \in pool.lost
  BY SendLargeSound
<1>3. CASE (\E p : Finish(t, p, "error")) /\ failures' = failures + 1
  <2>1. ult'[t].pc \notin Blocked \cup Handing
    BY <1>3, FinishedAt
  <2> QED
    BY <1>1, <1>2, <1>3, <2>1, FailureOwed
<1>4. CASE Goto(t, "handle") /\ failures' = failures
  <2>1. ult'[t].pc = "handle"
    BY <1>4, WentOthers
  <2>2. Slot(t, "op") \notin Doubt' /\ Slot(t, "req") \notin Owed'
    BY <2>1, OwnDebt DEF Blocked
  <2>3. pool'.ev[pool'.use[Slot(t, "ackreq")]] = "unset"
    <3>1. ~ \E b, status : Finish(t, b, status)
      BY <2>1, FinishedAt DEF Handing
    <3> QED
      BY <3>1, SendLargeSound
  <2>4. Slot(t, "ackreq") \notin Doubt'
    BY <2>3, OwnDebt DEF Failed
  <2>5. Doubt' \subseteq Doubt /\ Owed' \subseteq Owed
    BY <1>1, <2>2, <2>4, DebtElsewhere
  <2> QED
    BY <1>2, <1>4, <2>5, AccountKept
<1>5. QED
  BY <1>1, <1>3, <1>4

(***************************************************************************)
(* NA completes an operation.  At most one waits for it, and nobody does   *)
(* when it was cancelled.                                                  *)
(***************************************************************************)
Cancels == \A o \in na : o.cancelled => o.req \in pool.lost

LEMMA CompletedDebt ==
  ASSUME PlaceInv, NEW r, NEW v, ult' = ult, pool'.use = pool.use, pool'.ev = With(pool.ev, r, v)
  PROVE  /\ \A s \in Doubt' :
              \/ s \in Doubt
              \/ v = "error" /\ \E u \in Threads : s = Slot(u, "op") /\ r = Stack(u)
              \/ /\ v = "error" /\ s \in DOMAIN pool.use /\ pool.use[s] = r
                 /\ \A u \in Threads : s # Slot(u, "req")
         /\ \A s \in Owed' :
              \/ s \in Owed
              \/ /\ v = "error" /\ s \in DOMAIN pool.use /\ pool.use[s] = r
                 /\ \E u \in Threads : s = Slot(u, "req")
<1>1. \A x : Failed(pool', x) => Failed(pool, x) \/ (x = r /\ v = "error")
  BY WithProperties DEF Failed
<1>2. ASSUME NEW s \in Doubt'
      PROVE  \/ s \in Doubt
             \/ v = "error" /\ \E u \in Threads : s = Slot(u, "op") /\ r = Stack(u)
             \/ /\ v = "error" /\ s \in DOMAIN pool.use /\ pool.use[s] = r
                /\ \A u \in Threads : s # Slot(u, "req")
  <2>1. /\ s \in DOMAIN pool.use
        /\ \/ \E u \in Threads : s = Slot(u, "op") /\ Failed(pool', Stack(u))
           \/ \E u \in Threads : s = Slot(u, "ackreq") /\ Failed(pool', pool.use[s])
           \/ s = ProbReq /\ Failed(pool', pool.use[s])
    BY DEF Doubt, InDoubt, Slot, Stack, ProbReq, Failed
  <2>2. CASE \E u \in Threads : s = Slot(u, "op") /\ Failed(pool', Stack(u))
    BY <1>1, <2>1, <2>2 DEF Doubt, InDoubt
  <2>3. CASE \E u \in Threads : s = Slot(u, "ackreq") /\ Failed(pool', pool.use[s])
    <3>1. \A u \in Threads : s # Slot(u, "req")
      BY <2>3, Slots
    <3> QED
      BY <1>1, <2>1, <2>3, <3>1 DEF Doubt, InDoubt
  <2>4. CASE s = ProbReq /\ Failed(pool', pool.use[s])
    <3>1. \A u \in Threads : s # Slot(u, "req")
      BY <2>4, Slots DEF Roles, Prob
    <3> QED
      BY <1>1, <2>1, <2>4, <3>1 DEF Doubt, InDoubt
  <2> QED
    BY <2>1, <2>2, <2>3, <2>4
<1>3. ASSUME NEW s \in Owed'
      PROVE  \/ s \in Owed
             \/ /\ v = "error" /\ s \in DOMAIN pool.use /\ pool.use[s] = r
                /\ \E u \in Threads : s = Slot(u, "req")
  <2>1. PICK u \in Threads : /\ s = Slot(u, "req") /\ ult[u].pc = "owner"
                             /\ Failed(pool', pool.use[s]) /\ s \in DOMAIN pool.use
    BY DEF Owed, Owes, Slot, Failed
  <2> QED
    BY <1>1, <2>1 DEF Owed, Owes
<1>4. QED
  BY <1>2, <1>3

LEMMA CompleteAccount ==
  ASSUME PlaceInv, Account, Cancels, Complete
  PROVE  Account'
<1>1. PICK o \in na :
        \E v : /\ ult' = ult /\ pool' = SetEventual(pool, o.req, v)
               /\ \/ v = "ok" /\ failures' = failures
                  \/ v = "error" /\ o.cancelled /\ failures' = failures
                  \/ v = "error" /\ failures' = failures + 1
  BY DEF Complete, mona_callback, Fails
<1>2. PICK r, v : /\ r = o.req /\ ult' = ult /\ pool' = SetEventual(pool, r, v)
                  /\ \/ v = "ok" /\ failures' = failures
                     \/ v = "error" /\ o.cancelled /\ failures' = failures
                     \/ v = "error" /\ failures' = failures + 1
  BY <1>1
<1>3. pool'.use = pool.use /\ pool'.ev = With(pool.ev, r, v) /\ pool'.lost = pool.lost
  <2>1. IsPool(pool)
    BY DEF PlaceInv, PoolOK, PoolTyped
  <2> QED
    BY <1>2, <2>1 DEF SetEventual, IsPool
<1>4. /\ \A s \in Doubt' :
           \/ s \in Doubt
           \/ v = "error" /\ \E u \in Threads : s = Slot(u, "op") /\ r = Stack(u)
           \/ /\ v = "error" /\ s \in DOMAIN pool.use /\ pool.use[s] = r
              /\ \A u \in Threads : s # Slot(u, "req")
      /\ \A s \in Owed' :
           \/ s \in Owed
           \/ /\ v = "error" /\ s \in DOMAIN pool.use /\ pool.use[s] = r
              /\ \E u \in Threads : s = Slot(u, "req")
  BY <1>2, <1>3, CompletedDebt
<1>5. /\ \A s \in DOMAIN pool.use : pool.use[s] \in Objects /\ pool.use[s] \notin pool.lost
      /\ \A s, x \in DOMAIN pool.use : pool.use[s] = pool.use[x] => s = x
      /\ \A u : Stack(u) \notin Objects /\ Stack(u) \notin pool.lost
  BY PoolObjects DEF PlaceInv, PoolOK, PoolTyped, IsPool, OnePlace, InUse, Stack, Objects, Kinds
<1>6. CASE v = "ok" /\ failures' = failures
  BY <1>3, <1>4, <1>6, AccountKept
<1>7. CASE v = "error" /\ o.cancelled /\ failures' = failures
  <2>1. r \in pool.lost
    BY <1>2, <1>7 DEF Cancels
  <2>2. Doubt' \subseteq Doubt /\ Owed' \subseteq Owed
    BY <1>4, <1>5, <2>1
  <2> QED
    BY <1>3, <1>7, <2>2, AccountKept
<1>8. CASE v = "error" /\ failures' = failures + 1
  <2>1. CASE \E u \in Threads : r = Stack(u)
    <3>1. PICK u \in Threads : r = Stack(u)
      BY <2>1
    <3>2. \A w \in Threads : r = Stack(w) => w = u
      BY <3>1 DEF Stack
    <3>3. Doubt' \subseteq Doubt \cup {Slot(u, "op")} /\ Owed' \subseteq Owed
      BY <1>4, <1>5, <3>1, <3>2
    <3> QED
      BY <1>3, <1>8, <3>3, AccountFails
  <2>2. CASE /\ ~ \E u \in Threads : r = Stack(u)
             /\ \E s \in DOMAIN pool.use : pool.use[s] = r
    <3>1. PICK x \in DOMAIN pool.use : pool.use[x] = r
      BY <2>2
    <3>2. \/ Doubt' \subseteq Doubt \cup {x} /\ Owed' \subseteq Owed
          \/ Doubt' \subseteq Doubt /\ Owed' \subseteq Owed \cup {x}
      <4>1. CASE \E u \in Threads : x = Slot(u, "req")
        <5>1. Doubt' \subseteq Doubt
          BY <1>4, <1>5, <2>2, <3>1, <4>1
        <5>2. Owed' \subseteq Owed \cup {x}
          BY <1>4, <1>5, <3>1
        <5> QED
          BY <5>1, <5>2
      <4>2. CASE ~ \E u \in Threads : x = Slot(u, "req")
        <5>1. Owed' \subseteq Owed
          BY <1>4, <1>5, <3>1, <4>2
        <5>2. Doubt' \subseteq Doubt \cup {x}
          BY <1>4, <1>5, <2>2, <3>1
        <5> QED
          BY <5>1, <5>2
      <4> QED
        BY <4>1, <4>2
    <3> QED
      BY <1>3, <1>8, <3>2, AccountFails
  <2>3. CASE /\ ~ \E u \in Threads : r = Stack(u)
             /\ ~ \E s \in DOMAIN pool.use : pool.use[s] = r
    BY <1>3, <1>4, <1>8, <2>3, AccountKept
  <2> QED
    BY <2>1, <2>2, <2>3
<1>9. QED
  BY <1>2, <1>6, <1>7, <1>8

LEMMA StepAccount ==
  ASSUME PlaceInv, Sound(pool, {}), Account, NEW t \in Threads, Calmly(t),
         PlaceInv', NaInv', up' = "up", Step(t)
  PROVE  Account'
<1>1. CASE \/ Oper(t) \/ SendSmall(t) \/ SendHandle(t) \/ Recv(t) \/ GetLarge(t)
           \/ Acknowledge(t)
  BY <1>1, StartAccount
<1>2. CASE OperOver(t) \/ Sent(t) \/ Received(t) \/ Fetched(t) \/ HandleSent(t)
  BY <1>2, OverAccount
<1>3. CASE Acknowledged(t) \/ Reap(t) \/ Own(t)
  BY <1>3, AcknowledgedAccount, ReapAccount, OwnAccount
<1>4. CASE Enter(t) \/ Claim(t) \/ CopySmall(t) \/ TakeQueued(t) \/ StopListening(t) \/ Ioper(t)
  BY <1>4, EnterAccount, DoneAccount, IoperAccount
<1>5. CASE Listen(t) \/ SendLarge(t)
  BY <1>5, ListenAccount, SendLargeAccount
<1>6. QED
  BY <1>1, <1>2, <1>3, <1>4, <1>5 DEF Step

(***************************************************************************)
(* What a step forgets: nothing but requests, and the buffer of an         *)
(* acknowledgement; and which ULTs hold one of these.                      *)
(***************************************************************************)
BufferKinds == {"expected", "unexpected"}

Buffers == Lost(BufferKinds)

Hands == {t \in Threads : ult[t].pc \in Handing}

BufferInv ==
  /\ IsFiniteSet(Buffers) /\ IsFiniteSet(Hands) /\ larges \in Nat
  /\ Cardinality(Buffers) + Cardinality(Hands) <= larges

HandsOf(t) == ult'[t].pc \in Handing => ult[t].pc \in Handing

Forgotten(kinds) ==
  pool.lost \subseteq pool'.lost /\ \A o \in pool'.lost : o \in pool.lost \/ o[1] \in kinds

LEMMA FinishHands ==
  ASSUME PlaceInv, NEW t \in Threads,
         (\E p, status : Finish(t, p, status)) \/ Done(t)
           \/ \E l : Goto(t, l) /\ (l \notin Handing \/ ult[t].pc \in Handing)
  PROVE  HandsOf(t)
<1>1. CASE \E p, status : Finish(t, p, status)
  BY <1>1, FinishedAt DEF HandsOf
<1>2. CASE Done(t)
  BY <1>2 DEF Done, Idle, HandsOf, Handing, PlaceInv, UltInv
<1>3. CASE \E l : Goto(t, l) /\ (l \notin Handing \/ ult[t].pc \in Handing)
  BY <1>3, WentOthers DEF HandsOf
<1>4. QED
  BY <1>1, <1>2, <1>3

LEMMA KeptForgets ==
  ASSUME pool'.lost = pool.lost
  PROVE  Forgotten({"req"})
BY DEF Forgotten

LEMMA PlainForgets ==
  ASSUME PlaceInv, Sound(pool, {}), NEW t \in Threads, Step(t), ~ SendLarge(t), ~ Acknowledged(t),
         HandleSent(t) => Value(Stack(t)) = "ok"
  PROVE  Forgotten({"req"})
<1>1. CASE Ioper(t)
  BY <1>1, IoperKept, KeptForgets
<1>2. CASE \/ Enter(t) \/ Oper(t) \/ SendSmall(t) \/ SendHandle(t) \/ Recv(t)
           \/ CopySmall(t) \/ GetLarge(t) \/ Acknowledge(t) \/ Claim(t) \/ StopListening(t)
           \/ TakeQueued(t) \/ Listen(t)
  <2>1. Kept
    BY <1>2, EnterKept, StartKept, MessageKept, TakeQueuedKept, ListenKept
  <2> QED
    BY <2>1, KeptForgets DEF Kept
<1>3. CASE OperOver(t) \/ Sent(t) \/ Received(t) \/ Fetched(t) \/ HandleSent(t)
  <2>1. Kept
    BY <1>3, OverKept
  <2> QED
    BY <2>1, KeptForgets DEF Kept
<1>4. CASE Own(t)
  <2>1. Object(t, "req") \in Kind("req")
    <3>1. ult[t].pc = "owner"
      BY <1>4 DEF Own, At
    <3> QED
      BY <3>1 DEF PlaceInv, SlotInv, Has, RequestAt, Roles, KindAt, Object
  <2>2. Object(t, "req")[1] = "req"
    BY <2>1, KindsOfObjects
  <2> QED
    BY <1>4, <2>2, OwnSound DEF Forgotten
<1>5. CASE Reap(t)
  <2>1. ult[t].pc = "listening" /\ ult[t].pc # "idle"
    BY <1>5 DEF Reap, At
  <2>2. prob_active /\ up = "up"
    BY <2>1, SomebodyUp DEF PlaceInv, ListenInv
  <2>3. pool.use[ProbReq] \in Kind("req")
    BY <2>2, ProbKinds DEF PlaceInv, ProbInv, Prob
  <2>4. pool.use[ProbReq][1] = "req"
    BY <2>3, KindsOfObjects
  <2> QED
    BY <1>5, <2>4, ReapSound DEF Forgotten
<1>6. QED
  BY <1>1, <1>2, <1>3, <1>4, <1>5 DEF Step

LEMMA PlainHands ==
  ASSUME PlaceInv, NEW t \in Threads, Step(t), ~ SendLarge(t)
  PROVE  HandsOf(t) /\ larges' = larges
<1>1. larges' = larges
  BY DEF Step, Enter, Own, Oper, OperOver, Ioper, SendSmall, SendHandle, Sent, HandleSent,
     Acknowledged, Recv, Received, TakeQueued, Claim, Listen, StopListening, Reap, CopySmall,
     GetLarge, Fetched, Acknowledge, bounds
<1> SUFFICES HandsOf(t)
  BY <1>1
<1>2. CASE Enter(t)
  <2>1. (\E c : Begin(t, c)) \/ (ult' = ult /\ ult[t].pc = "idle")
    BY <1>2 DEF Enter, At
  <2>2. ult'[t].pc \in {"idle", "begin"}
    BY <2>1 DEF Begin, PlaceInv, UltInv
  <2> QED
    BY <2>2 DEF HandsOf, Handing
<1>3. CASE \/ Own(t) \/ Ioper(t) \/ Claim(t) \/ TakeQueued(t) \/ CopySmall(t)
           \/ StopListening(t) \/ Listen(t) \/ Reap(t)
  <2>1. \/ \E p, status : Finish(t, p, status)
        \/ Done(t)
        \/ \E l \in {"owner", "listen", "listening", "got"} : Goto(t, l)
    BY <1>3 DEF Own, Ioper, Claim, TakeQueued, CopySmall, StopListening, Listen, Reap
  <2>2. \A l \in {"owner", "listen", "listening", "got"} : l \notin Handing
    BY DEF Handing
  <2> QED
    BY <2>1, <2>2, FinishHands
<1>4. CASE \/ Oper(t) \/ SendSmall(t) \/ Recv(t) \/ GetLarge(t) \/ Acknowledge(t)
           \/ OperOver(t) \/ Sent(t) \/ Received(t) \/ Fetched(t) \/ Acknowledged(t)
  <2>1. \/ \E p, status : Finish(t, p, status)
        \/ \E l \in {"oper", "sending", "receiving", "getting", "acknowledge", "got"} : Goto(t, l)
    BY <1>4 DEF Oper, SendSmall, Recv, GetLarge, Acknowledge, OperOver, Sent, Received, Fetched,
       Acknowledged, StartBlocking
  <2>2. \A l \in {"oper", "sending", "receiving", "getting", "acknowledge", "got"} :
          l \notin Handing
    BY DEF Handing
  <2> QED
    BY <2>1, <2>2, FinishHands
<1>5. CASE SendHandle(t) \/ HandleSent(t)
  BY <1>5 DEF SendHandle, HandleSent, At, Handing, HandsOf
<1>6. QED
  BY <1>2, <1>3, <1>4, <1>5 DEF Step

(***************************************************************************)
(* One buffer for each large message: the message is under way, or the     *)
(* buffer is forgotten.                                                    *)
(***************************************************************************)
LEMMA HandsStep ==
  ASSUME NEW t \in Threads, Calmly(t)
  PROVE  /\ Hands' \subseteq Hands \cup {t}
         /\ HandsOf(t) => Hands' \subseteq Hands
         /\ ult'[t].pc \notin Handing => Hands' \subseteq Hands \ {t}
BY DEF Hands, Calmly, HandsOf

LEMMA BufferKept ==
  ASSUME BufferInv, Buffers' \subseteq Buffers, Hands' \subseteq Hands, larges' = larges
  PROVE  BufferInv'
<1>1. PICK B, H, C, J : B = Buffers /\ H = Hands /\ C = Buffers' /\ J = Hands'
  OBVIOUS
<1>2. /\ IsFiniteSet(B) /\ IsFiniteSet(H) /\ larges \in Nat
      /\ Cardinality(B) + Cardinality(H) <= larges /\ C \subseteq B /\ J \subseteq H
  BY <1>1 DEF BufferInv
<1>3. PICK b, h, c, j : /\ b = Cardinality(B) /\ h = Cardinality(H)
                        /\ c = Cardinality(C) /\ j = Cardinality(J)
  OBVIOUS
<1>4. /\ IsFiniteSet(C) /\ c \in Nat /\ b \in Nat /\ c <= b
      /\ IsFiniteSet(J) /\ j \in Nat /\ h \in Nat /\ j <= h
  BY <1>2, <1>3, SmallerSet
<1>5. b + h <= larges /\ c + j <= larges
  BY <1>2, <1>3, <1>4
<1>6. QED
  BY <1>1, <1>2, <1>3, <1>4, <1>5 DEF BufferInv

LEMMA BufferTaken ==
  ASSUME BufferInv, Buffers' \subseteq Buffers, NEW t, Hands' \subseteq Hands \cup {t},
         larges' = larges + 1
  PROVE  BufferInv'
<1>1. PICK B, H, C, J : B = Buffers /\ H = Hands /\ C = Buffers' /\ J = Hands'
  OBVIOUS
<1>2. /\ IsFiniteSet(B) /\ IsFiniteSet(H) /\ larges \in Nat
      /\ Cardinality(B) + Cardinality(H) <= larges /\ C \subseteq B /\ J \subseteq H \cup {t}
  BY <1>1 DEF BufferInv
<1>3. PICK b, h, c, j : /\ b = Cardinality(B) /\ h = Cardinality(H)
                        /\ c = Cardinality(C) /\ j = Cardinality(J)
  OBVIOUS
<1>4. IsFiniteSet(C) /\ c \in Nat /\ b \in Nat /\ c <= b
  BY <1>2, <1>3, SmallerSet
<1>5. IsFiniteSet(J) /\ j \in Nat /\ h \in Nat /\ j <= h + 1
  BY <1>2, <1>3, OneMore
<1>6. b + h <= larges /\ c + j <= larges + 1
  BY <1>2, <1>3, <1>4, <1>5
<1>7. QED
  BY <1>1, <1>2, <1>3, <1>4, <1>5, <1>6 DEF BufferInv

LEMMA BufferLost ==
  ASSUME BufferInv, NEW o, Buffers' \subseteq Buffers \cup {o}, Hands' \subseteq Hands,
         larges' = larges + 1
  PROVE  BufferInv'
<1>1. PICK B, H, C, J : B = Buffers /\ H = Hands /\ C = Buffers' /\ J = Hands'
  OBVIOUS
<1>2. /\ IsFiniteSet(B) /\ IsFiniteSet(H) /\ larges \in Nat
      /\ Cardinality(B) + Cardinality(H) <= larges /\ C \subseteq B \cup {o} /\ J \subseteq H
  BY <1>1 DEF BufferInv
<1>3. PICK b, h, c, j : /\ b = Cardinality(B) /\ h = Cardinality(H)
                        /\ c = Cardinality(C) /\ j = Cardinality(J)
  OBVIOUS
<1>4. IsFiniteSet(C) /\ c \in Nat /\ b \in Nat /\ c <= b + 1
  BY <1>2, <1>3, OneMore
<1>5. IsFiniteSet(J) /\ j \in Nat /\ h \in Nat /\ j <= h
  BY <1>2, <1>3, SmallerSet
<1>6. b + h <= larges /\ c + j <= larges + 1
  BY <1>2, <1>3, <1>4, <1>5
<1>7. QED
  BY <1>1, <1>2, <1>3, <1>4, <1>5, <1>6 DEF BufferInv

LEMMA BufferDropped ==
  ASSUME BufferInv, NEW o, Buffers' \subseteq Buffers \cup {o}, NEW t \in Hands,
         Hands' \subseteq Hands \ {t}, larges' = larges
  PROVE  BufferInv'
<1>1. PICK B, H, C, J : B = Buffers /\ H = Hands /\ C = Buffers' /\ J = Hands'
  OBVIOUS
<1>2. /\ IsFiniteSet(B) /\ IsFiniteSet(H) /\ larges \in Nat /\ t \in H
      /\ Cardinality(B) + Cardinality(H) <= larges /\ C \subseteq B \cup {o} /\ J \subseteq H \ {t}
  BY <1>1 DEF BufferInv
<1>3. PICK b, h, c, j : /\ b = Cardinality(B) /\ h = Cardinality(H)
                        /\ c = Cardinality(C) /\ j = Cardinality(J)
  OBVIOUS
<1>4. IsFiniteSet(C) /\ c \in Nat /\ b \in Nat /\ c <= b + 1
  BY <1>2, <1>3, OneMore
<1>5. IsFiniteSet(J) /\ j \in Nat /\ h \in Nat /\ j + 1 <= h
  BY <1>2, <1>3, OneLess
<1>6. b + h <= larges /\ c + j <= larges
  BY <1>2, <1>3, <1>4, <1>5
<1>7. QED
  BY <1>1, <1>2, <1>3, <1>4, <1>5, <1>6 DEF BufferInv

LEMMA StepBuffers ==
  ASSUME PlaceInv, Sound(pool, {}), BufferInv, NEW t \in Threads, Calmly(t), Step(t)
  PROVE  BufferInv' /\ Forgotten(BufferKinds \cup {"req"})
<1>1. CASE /\ ~ SendLarge(t) /\ ~ Acknowledged(t)
           /\ HandleSent(t) => Value(Stack(t)) = "ok"
  <2>1. Forgotten({"req"})
    BY <1>1, PlainForgets
  <2>2. HandsOf(t) /\ larges' = larges
    BY <1>1, PlainHands
  <2>3. Buffers' \subseteq Buffers
    BY <2>1 DEF Forgotten, Buffers, Lost, BufferKinds
  <2>4. Hands' \subseteq Hands
    BY <2>2, HandsStep
  <2> QED
    BY <2>1, <2>2, <2>3, <2>4, BufferKept DEF Forgotten
<1>2. CASE SendLarge(t)
  <2>1. Hands' \subseteq Hands \cup {t}
    BY HandsStep
  <2>2. CASE pool'.lost = pool.lost /\ larges' = larges + 1
    <3>1. Buffers' \subseteq Buffers
      BY <2>2 DEF Buffers, Lost, BufferKinds
    <3> QED
      BY <2>1, <2>2, <3>1, BufferTaken DEF Forgotten
  <2>3. CASE /\ pool'.lost = pool.lost /\ larges' = larges
             /\ \E b, status : Finish(t, b, status)
    <3>1. Buffers' \subseteq Buffers
      BY <2>3 DEF Buffers, Lost, BufferKinds
    <3>2. Hands' \subseteq Hands
      BY <2>3, FinishHands, HandsStep
    <3> QED
      BY <2>3, <3>1, <3>2, BufferKept DEF Forgotten
  <2>4. CASE /\ \E o : o[1] \in {"expected", "unexpected"} /\ pool'.lost = pool.lost \cup {o}
             /\ larges' = larges + 1 /\ \E b, status : Finish(t, b, status)
    <3>1. PICK o : o[1] \in {"expected", "unexpected"} /\ pool'.lost = pool.lost \cup {o}
      BY <2>4
    <3>2. Buffers' \subseteq Buffers \cup {o}
      BY <3>1 DEF Buffers, Lost, BufferKinds
    <3>3. Hands' \subseteq Hands
      BY <2>4, FinishHands, HandsStep
    <3> QED
      BY <2>4, <3>1, <3>2, <3>3, BufferLost DEF Forgotten, BufferKinds
  <2> QED
    BY <1>2, <2>2, <2>3, <2>4, SendLargeSound
<1>3. CASE Acknowledged(t) \/ (HandleSent(t) /\ Value(Stack(t)) # "ok")
  <2>1. ult[t].pc \in Handing /\ larges' = larges /\ \E p, status : Finish(t, p, status)
    BY <1>3 DEF Acknowledged, HandleSent, At, Handing, bounds
  <2>2. PICK a, r : a = Object(t, "ack") /\ r = Object(t, "ackreq")
    OBVIOUS
  <2>3. a[1] \in BufferKinds /\ r[1] = "req"
    <3>1. a[1] \in BufferKinds
      BY <2>1, <2>2, AckKind DEF BufferKinds
    <3>2. r \in Kind("req")
      BY <2>1, <2>2, AckSlots DEF PlaceInv, SlotInv, Roles, LocalRoles, KindAt, Object
    <3> QED
      BY <3>1, <3>2, KindsOfObjects
  <2>4. /\ pool.lost \subseteq pool'.lost
        /\ \A o \in pool'.lost : o \in pool.lost \/ o = a \/ o = r
    BY <1>3, <2>2, AcknowledgedSound, HandleSentSound
  <2>5. Buffers' \subseteq Buffers \cup {a}
    BY <2>3, <2>4 DEF Buffers, Lost, BufferKinds
  <2>6. ult'[t].pc \notin Handing
    BY <2>1, FinishedAt
  <2>7. Hands' \subseteq Hands \ {t} /\ t \in Hands
    BY <2>1, <2>6, HandsStep DEF Hands
  <2>8. BufferInv'
    BY <2>1, <2>5, <2>7, BufferDropped
  <2> QED
    BY <2>3, <2>4, <2>8 DEF Forgotten
<1>4. QED
  BY <1>1, <1>2, <1>3

(***************************************************************************)
(* The request of a cancelled operation has been forgotten.                *)
(***************************************************************************)
LEMMA NewCancels ==
  ASSUME Cancels, pool.lost \subseteq pool'.lost,
         \/ na' = na
         \/ \E id, buf, r : na' = na \cup {Operation(id, buf, r)}
  PROVE  Cancels'
<1>1. \A id, buf, r : ~ Operation(id, buf, r).cancelled
  BY DEF Operation
<1>2. QED
  BY <1>1 DEF Cancels

LEMMA StepCancels ==
  ASSUME PlaceInv, NaTyped, NaInv, Sound(pool, {}), Cancels, NEW t \in Threads, Step(t),
         pool.lost \subseteq pool'.lost
  PROVE  Cancels'
<1>1. CASE HandleSent(t) /\ Value(Stack(t)) # "ok"
  <2>1. PICK id, a, r : id = Object(t, "ackop") /\ a = Object(t, "ack") /\ r = Object(t, "ackreq")
    OBVIOUS
  <2>2. ult[t].pc \in Handing /\ Cancel(id)
    BY <1>1, <2>1 DEF HandleSent, At, Handing
  <2>3. r \in pool'.lost
    BY <1>1, <2>1, HandleSentSound
  <2>4. Slot(t, "ackop") \in DOMAIN pool.use /\ id = pool.use[Slot(t, "ackop")]
    BY <2>1, <2>2, AckSlots DEF Object
  <2>5. \A s \in DOMAIN pool.use : pool.use[s] = id => s = Slot(t, "ackop")
    BY <2>4 DEF PlaceInv, PoolOK, OnePlace
  <2>6. ASSUME NEW o \in na, o.op = id PROVE o.req \in pool'.lost
    <3>1. Owned(o)
      BY DEF NaInv
    <3>2. \A u : ~ Waits(u, o)
      BY <2>5, <2>6 DEF Waits, Slot
    <3>3. \A u \in Threads : ~ Brought(u, o)
      <4>1. id \in Objects
        BY <2>4, PoolObjects DEF PlaceInv
      <4> QED
        BY <2>6, <4>1 DEF Brought, UserOp, Objects, Kinds
    <3>4. ~ Shared(o)
      <4>1. ProbId # Slot(t, "ackop")
        BY Slots DEF Roles, LocalRoles, Prob
      <4> QED
        BY <2>5, <2>6, <4>1 DEF Shared, Prob
    <3>5. CASE \E u \in Threads : Awaits(u, o)
      <4>1. PICK u \in Threads : Awaits(u, o)
        BY <3>5
      <4>2. Slot(u, "ackop") \in DOMAIN pool.use
        BY <4>1, OwnersHold
      <4>3. u = t
        BY <2>5, <2>6, <4>1, <4>2 DEF Awaits, Slot
      <4> QED
        BY <2>1, <2>3, <4>1, <4>3 DEF Awaits, Object
    <3>6. CASE Gone(o)
      BY <3>6 DEF Gone
    <3> QED
      BY <3>1, <3>2, <3>3, <3>4, <3>5, <3>6 DEF Owned
  <2>7. ASSUME NEW n \in na', n.cancelled PROVE n.req \in pool'.lost
    <3>1. PICK o \in na : n = IF o.op = id THEN [o EXCEPT !.cancelled = TRUE] ELSE o
      BY <2>2, <2>7 DEF Cancel
    <3>2. o \in NaOperations
      BY DEF NaTyped
    <3>3. n.req = o.req /\ (o.op # id => n.cancelled = o.cancelled)
      BY <3>1, <3>2 DEF NaOperations
    <3> QED
      BY <2>6, <2>7, <3>3 DEF Cancels
  <2> QED
    BY <2>7 DEF Cancels
<1>2. CASE HandleSent(t) /\ Value(Stack(t)) = "ok"
  BY <1>2, NewCancels DEF HandleSent
<1>3. CASE \/ Enter(t) \/ Own(t) \/ OperOver(t) \/ Sent(t) \/ Acknowledged(t) \/ Received(t)
           \/ TakeQueued(t) \/ Claim(t) \/ StopListening(t) \/ Reap(t) \/ CopySmall(t) \/ Fetched(t)
  <2>1. na' = na
    BY <1>3 DEF Enter, Own, OperOver, Sent, Acknowledged, Received, TakeQueued, Claim,
       StopListening, Reap, CopySmall, Fetched
  <2> QED
    BY <2>1, NewCancels
<1>4. CASE Oper(t) \/ SendSmall(t) \/ SendHandle(t) \/ Recv(t) \/ GetLarge(t) \/ Acknowledge(t)
  <2>1. na' = na \/ \E p, buf, l : StartBlocking(t, p, buf, l)
    BY <1>4 DEF Oper, SendSmall, SendHandle, Recv, GetLarge, Acknowledge
  <2>2. na' = na \/ \E id, buf, r : na' = na \cup {Operation(id, buf, r)}
    BY <2>1 DEF StartBlocking
  <2> QED
    BY <2>2, NewCancels
<1>5. CASE Ioper(t) \/ SendLarge(t) \/ Listen(t)
  <2>1. na' = na \/ \E id, buf, r : na' = na \cup {Operation(id, buf, r)}
    BY <1>5 DEF Ioper, SendLarge, Listen
  <2> QED
    BY <2>1, NewCancels
<1>6. QED
  BY <1>1, <1>2, <1>3, <1>4, <1>5 DEF Step

LossInv == up = "up" => Account /\ BufferInv /\ Cancels /\ Lost({"op"}) = {}

LEMMA LossInit ==
  ASSUME Init
  PROVE  LossInv
<1>1. pool.lost = {} /\ DOMAIN pool.use = {} /\ na = {} /\ larges = 0 /\ failures = 0
  BY DEF Init, EmptyPool
<1>2. Hands = {}
  BY DEF Init, Idle, Hands, Handing
<1>3. \A kinds : Lost(kinds) = {}
  BY <1>1 DEF Lost
<1>4. Doubt = {} /\ Owed = {}
  BY <1>1 DEF Doubt, Owed
<1>5. IsFiniteSet({}) /\ Cardinality({}) = 0
  BY FS_EmptySet
<1>6. Account
  <2>1. Balanced({}, {}, {}, 0)
    BY <1>5 DEF Balanced
  <2> QED
    BY <1>1, <1>3, <1>4, <2>1 DEF Account
<1>7. BufferInv
  BY <1>1, <1>2, <1>3, <1>5 DEF BufferInv, Buffers
<1>8. QED
  BY <1>1, <1>3, <1>6, <1>7 DEF LossInv, Cancels

LEMMA LossStep ==
  ASSUME Inv, NaInv, EventualInv, LossInv, [Goes]_vars, Inv', NaInv'
  PROVE  LossInv'
<1>0. PlaceInv /\ NaTyped /\ PlaceInv'
  BY DEF Inv
<1>1. CASE UNCHANGED vars
  <2>1. /\ pool' = pool /\ ult' = ult /\ na' = na /\ up' = up /\ failures' = failures
        /\ larges' = larges
    BY <1>1 DEF vars, inst, bounds
  <2>2. Doubt' = Doubt /\ Owed' = Owed
    BY <2>1 DEF Doubt, Owed, InDoubt, Owes, Failed, Slot, Stack, ProbReq
  <2>3. Buffers' = Buffers /\ Hands' = Hands /\ Lost({"op"})' = Lost({"op"})
    BY <2>1 DEF Buffers, Hands, Lost, Handing, BufferKinds
  <2>4. up = "up" => Account' /\ BufferInv'
    BY <2>1, <2>2, <2>3, AccountKept, BufferKept DEF LossInv
  <2> QED
    BY <2>1, <2>3, <2>4 DEF LossInv, Cancels
<1>2. CASE CancelProbe \/ ReapProbe \/ Free
  <2>1. up' # "up"
    BY <1>2 DEF CancelProbe, ReapProbe, Free
  <2> QED
    BY <2>1 DEF LossInv
<1>3. CASE Complete /\ up = "up"
  <2>1. Account /\ BufferInv /\ Cancels /\ Lost({"op"}) = {}
    BY <1>3 DEF LossInv
  <2>2. Account'
    BY <1>0, <1>3, <2>1, CompleteAccount
  <2>3. /\ pool'.lost = pool.lost /\ ult' = ult /\ larges' = larges /\ na' \subseteq na
    <3>1. Kept
      BY <1>0, <1>3, SoundFirst, CompleteSound
    <3> QED
      BY <1>3, <3>1 DEF Kept, Complete, mona_callback
  <2>4. Buffers' = Buffers /\ Hands' = Hands /\ Lost({"op"})' = Lost({"op"})
    BY <2>3 DEF Buffers, Hands, Lost, Handing, BufferKinds
  <2>5. BufferInv'
    BY <2>1, <2>3, <2>4, BufferKept
  <2> QED
    BY <2>1, <2>2, <2>3, <2>4, <2>5 DEF LossInv, Cancels
<1>4. CASE Complete /\ up # "up"
  BY <1>4 DEF Complete, inst, LossInv
<1>5. CASE \E t \in Threads : Step(t)
  <2>1. PICK t \in Threads : Step(t)
    BY <1>5
  <2>2. up = "up"
    BY <1>0, <2>1, StepUp
  <2>3. /\ Account /\ BufferInv /\ Cancels /\ Lost({"op"}) = {} /\ Sound(pool, {})
    BY <1>0, <2>2, SoundFirst DEF LossInv
  <2>4. Calmly(t) /\ up' = "up"
    BY <1>0, <2>1, <2>2, <2>3, StepNa, StepSound
  <2>5. Account'
    BY <1>0, <2>1, <2>3, <2>4, StepAccount
  <2>6. BufferInv' /\ Forgotten(BufferKinds \cup {"req"})
    BY <1>0, <2>1, <2>3, <2>4, StepBuffers
  <2>7. Cancels'
    BY <1>0, <2>1, <2>3, <2>6, StepCancels DEF Forgotten
  <2>8. Lost({"op"})' = {}
    BY <2>3, <2>6 DEF Forgotten, Lost, BufferKinds
  <2> QED
    BY <2>5, <2>6, <2>7, <2>8 DEF LossInv
<1>6. QED
  BY <1>1, <1>2, <1>3, <1>4, <1>5 DEF Goes

(***************************************************************************)
(* What the functions forget while the instance lives: for each large      *)
(* message at most one buffer, that of its acknowledgement, which nothing  *)
(* in mona_send_mem and mona_usend_mem gives back; for each failure at     *)
(* most two requests, the one mona_wait leaves when the operation failed   *)
(* and, in a call that runs in a ULT of its own, that of the caller; never *)
(* an operation id.  This for every error exit but one: a receive that     *)
(* fails after it queued a message gives back the queued buffer            *)
(* (mona-unexpected.c:523); from then on nothing is said, and the free     *)
(* list may lose its tail without any large message.                       *)
(***************************************************************************)
THEOREM LossesBounded == Spec => []LossBounded
<1>1. Init => Inv /\ NaInv /\ EventualInv /\ LossInv
  <2>1. Init => NaInv
    BY DEF Init, NaInv
  <2> QED
    BY <2>1, InitInv, EventualInit, LossInit
<1>2. /\ ListsIntact => Inv /\ NaInv /\ EventualInv /\ LossInv
      /\ [Next]_vars
      => (ListsIntact => Inv /\ NaInv /\ EventualInv /\ LossInv)'
  BY GoesOn, NextInv, NextNa, EventualStep, LossStep DEF Inv
<1>3. (ListsIntact => LossInv) => LossBounded
  <2>1. SUFFICES ASSUME Account, BufferInv
                 PROVE  /\ Cardinality(Lost({"expected", "unexpected"})) <= larges
                        /\ Cardinality(Lost({"req"})) <= 2 * failures
    BY DEF LossInv, LossBounded, ListsIntact
  <2>2. PICK L, D, O, B, H : /\ L = Lost({"req"}) /\ D = Doubt /\ O = Owed
                             /\ B = Lost({"expected", "unexpected"}) /\ H = Hands
    OBVIOUS
  <2>3. Balanced(L, D, O, failures)
    BY <2>1, <2>2 DEF Account
  <2>4. /\ IsFiniteSet(B) /\ IsFiniteSet(H) /\ larges \in Nat
        /\ Cardinality(B) + Cardinality(H) <= larges
    BY <2>1, <2>2 DEF BufferInv, Buffers, BufferKinds
  <2>5. /\ Cardinality(L) \in Nat /\ Cardinality(D) \in Nat /\ Cardinality(O) \in Nat
        /\ Cardinality(B) \in Nat /\ Cardinality(H) \in Nat /\ failures \in Nat
    BY <2>3, <2>4, FS_CardinalityType DEF Balanced
  <2>6. PICK l, d, o, b, h : /\ l = Cardinality(L) /\ d = Cardinality(D) /\ o = Cardinality(O)
                             /\ b = Cardinality(B) /\ h = Cardinality(H)
    OBVIOUS
  <2>7. l + 2 * d + o <= 2 * failures /\ b + h <= larges
    BY <2>3, <2>4, <2>6 DEF Balanced
  <2>8. l <= 2 * failures /\ b <= larges
    BY <2>4, <2>5, <2>6, <2>7
  <2> QED
    BY <2>2, <2>6, <2>8
<1>4. QED
  BY <1>1, <1>2, <1>3, PTL DEF Spec

=============================================================================

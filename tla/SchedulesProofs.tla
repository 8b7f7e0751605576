-------------------------- MODULE SchedulesProofs --------------------------
(***************************************************************************)
(* Facts about the schedules of the collective operations, for every size, *)
(* rank, root and radix: above all that in every call one rank sends to    *)
(* another exactly if the other receives from it.                          *)
(***************************************************************************)
EXTENDS Schedules, SequenceLemmas

(***************************************************************************)
(* The recursive function in FlattenSeq exists: the first i sequences of a *)
(* list, one after the other.                                              *)
(***************************************************************************)
IsJoin(f, ss, l) ==
  f = [i \in 1..l |-> IF i = 1 THEN ss[i] ELSE f[i - 1] \o ss[i]]

LEMMA JoinExists ==
  ASSUME NEW ss
  PROVE  \A l \in Nat : \E f : IsJoin(f, ss, l)
<1> DEFINE S == {l \in Nat : \E f : IsJoin(f, ss, l)}
<1>1. 0 \in S
  <2>1. PICK f : f = [i \in 1..0 |-> << >>]
    OBVIOUS
  <2>2. f = [i \in 1..0 |-> IF i = 1 THEN ss[i] ELSE f[i - 1] \o ss[i]]
    BY <2>1
  <2> QED
    BY <2>2 DEF IsJoin
<1>2. ASSUME NEW l \in Nat, l \in S PROVE l + 1 \in S
  <2>1. PICK f : f = [i \in 1..l |-> IF i = 1 THEN ss[i] ELSE f[i - 1] \o ss[i]]
    BY <1>2 DEF IsJoin
  <2>2. PICK g : g = [i \in 1..(l + 1) |->
                        IF i = l + 1
                        THEN IF i = 1 THEN ss[i] ELSE f[l] \o ss[i]
                        ELSE f[i]]
    OBVIOUS
  <2>3. \A i \in 1..(l + 1) : g[i] = IF i = 1 THEN ss[i] ELSE g[i - 1] \o ss[i]
    <3> SUFFICES ASSUME NEW i \in 1..(l + 1)
                 PROVE  g[i] = IF i = 1 THEN ss[i] ELSE g[i - 1] \o ss[i]
      OBVIOUS
    <3>1. CASE i = l + 1 /\ i # 1
      <4>1. i - 1 = l /\ l \in 1..(l + 1) /\ l # l + 1
        BY <3>1
      <4>2. g[i] = f[l] \o ss[i] /\ g[l] = f[l]
        BY <2>2, <3>1, <4>1
      <4> QED
        BY <4>1, <4>2, <3>1
    <3>2. CASE i = l + 1 /\ i = 1
      BY <2>2, <3>2
    <3>3. CASE i # l + 1 /\ i # 1
      <4>1. i \in 1..l /\ i - 1 \in 1..l /\ i - 1 \in 1..(l + 1) /\ i - 1 # l + 1
        BY <3>3
      <4>2. g[i] = f[i] /\ g[i - 1] = f[i - 1]
        BY <2>2, <3>3, <4>1
      <4>3. f[i] = f[i - 1] \o ss[i]
        BY <2>1, <3>3, <4>1
      <4> QED
        BY <4>2, <4>3, <3>3
    <3>4. CASE i # l + 1 /\ i = 1
      <4>1. i \in 1..l
        BY <3>4
      <4>2. g[i] = f[i] /\ f[i] = ss[i]
        BY <2>1, <2>2, <3>4, <4>1
      <4> QED
        BY <4>2, <3>4
    <3>5. QED
      BY <3>1, <3>2, <3>3, <3>4
  <2>4. DOMAIN g = 1..(l + 1)
    BY <2>2
  <2>5. PICK h : h = [i \in 1..(l + 1) |-> IF i = 1 THEN ss[i] ELSE g[i - 1] \o ss[i]]
    OBVIOUS
  <2>6. g = h
    <3>1. \A i \in 1..(l + 1) : g[i] = h[i]
      BY <2>3, <2>5
    <3>2. DOMAIN h = 1..(l + 1) /\ g = [i \in DOMAIN g |-> g[i]] /\ h = [i \in DOMAIN h |-> h[i]]
      BY <2>2, <2>5
    <3> QED
      BY <2>4, <3>1, <3>2
  <2>7. IsJoin(g, ss, l + 1)
    BY <2>5, <2>6 DEF IsJoin
  <2> QED
    BY <2>7
<1> HIDE DEF S
<1>3. \A l \in Nat : l \in S
  BY <1>1, <1>2, Counting
<1>4. QED
  BY <1>3 DEF S

LEMMA FlattenJoin ==
  ASSUME NEW ss, Len(ss) \in Nat, Len(ss) # 0
  PROVE  \E f : IsJoin(f, ss, Len(ss)) /\ FlattenSeq(ss) = f[Len(ss)]
<1>1. PICK f : f = CHOOSE g : IsJoin(g, ss, Len(ss))
  OBVIOUS
<1>2. IsJoin(f, ss, Len(ss))
  BY <1>1, JoinExists
<1>3. f = CHOOSE g : g = [i \in 1..Len(ss) |-> IF i = 1 THEN ss[i] ELSE g[i - 1] \o ss[i]]
  BY <1>1 DEF IsJoin
<1>4. FlattenSeq(ss) = f[Len(ss)]
  BY <1>3 DEF FlattenSeq
<1> QED
  BY <1>2, <1>4

(***************************************************************************)
(* Where the elements of the first l sequences are in their concatenation: *)
(* the j-th of the i-th at off[i] + j, and nothing else is there.          *)
(***************************************************************************)
Placed(off, ss, s, l) ==
  /\ \A i \in 1..l : /\ off[i] \in Nat /\ off[i] + Len(ss[i]) <= Len(s)
                     /\ \A j \in 1..Len(ss[i]) : s[off[i] + j] = ss[i][j]
  /\ \A x \in 1..Len(s) : \E i \in 1..l : \E j \in 1..Len(ss[i]) : x = off[i] + j
  /\ \A h, i \in 1..l : h < i => off[h] + Len(ss[h]) <= off[i]

LEMMA PlacedOne ==
  ASSUME NEW D, NEW ss, ss[1] \in Seq(D), NEW off, off[1] = 0
  PROVE  Placed(off, ss, ss[1], 1)
<1>1. \A i : i \in 1..1 <=> i = 1
  OBVIOUS
<1>2. Len(ss[1]) \in Nat
  BY LenProperties
<1>3. \A x \in 1..Len(ss[1]) : \E i \in 1..1 : \E j \in 1..Len(ss[i]) : x = off[i] + j
  <2> SUFFICES ASSUME NEW x \in 1..Len(ss[1])
               PROVE  \E j \in 1..Len(ss[1]) : x = off[1] + j
    OBVIOUS
  <2> QED
    BY <1>2
<1>4. QED
  BY <1>1, <1>2, <1>3 DEF Placed

LEMMA PlacedMore ==
  ASSUME NEW D, NEW ss, NEW s \in Seq(D), NEW l \in Nat \ {0}, NEW off,
         Placed(off, ss, s, l), ss[l + 1] \in Seq(D), off[l + 1] = Len(s),
         \A i \in 1..l : ss[i] \in Seq(D)
  PROVE  Placed(off, ss, s \o ss[l + 1], l + 1)
<1>1. PICK t, last : t = s \o last /\ last = ss[l + 1]
  OBVIOUS
<1>2. /\ t \in Seq(D) /\ Len(t) = Len(s) + Len(last)
      /\ Len(s) \in Nat /\ Len(last) \in Nat
      /\ \A x \in 1..(Len(s) + Len(last)) :
           t[x] = IF x <= Len(s) THEN s[x] ELSE last[x - Len(s)]
  BY <1>1, ConcatProperties, LenProperties
<1>3. /\ \A i \in 1..l : off[i] \in Nat /\ off[i] + Len(ss[i]) <= Len(s)
      /\ \A i \in 1..l : \A j \in 1..Len(ss[i]) : s[off[i] + j] = ss[i][j]
      /\ \A x \in 1..Len(s) : \E i \in 1..l : \E j \in 1..Len(ss[i]) : x = off[i] + j
      /\ \A h, i \in 1..l : h < i => off[h] + Len(ss[h]) <= off[i]
  BY DEF Placed
<1>4. \A i : i \in 1..(l + 1) <=> i \in 1..l \/ i = l + 1
  OBVIOUS
<1>5. \A i \in 1..l : Len(ss[i]) \in Nat
  BY LenProperties
<1>6. \A i \in 1..(l + 1) : off[i] \in Nat /\ off[i] + Len(ss[i]) <= Len(t)
  BY <1>1, <1>2, <1>3, <1>4, <1>5, SMTT(30)
<1>7. ASSUME NEW i \in 1..(l + 1), NEW j \in 1..Len(ss[i])
      PROVE  t[off[i] + j] = ss[i][j]
  <2>1. CASE i \in 1..l
    <3>1. off[i] \in Nat /\ Len(ss[i]) \in Nat /\ off[i] + Len(ss[i]) <= Len(s)
      BY <1>3, <1>5, <2>1
    <3>2. off[i] + j \in 1..(Len(s) + Len(last)) /\ off[i] + j <= Len(s)
      <4>1. PICK o \in Nat, l_i \in Nat : o = off[i] /\ l_i = Len(ss[i]) /\ o + l_i <= Len(s)
        BY <3>1
      <4>2. PICK m \in Nat, n \in Nat : m = Len(s) /\ n = Len(last)
        BY <1>2
      <4>3. j \in 1..l_i /\ o + l_i <= m
        BY <4>1, <4>2
      <4>4. o + j \in 1..(m + n) /\ o + j <= m
        BY <4>3
      <4> QED
        BY <4>1, <4>2, <4>4
    <3>3. s[off[i] + j] = ss[i][j]
      BY <1>3, <2>1
    <3> QED
      BY <1>2, <3>2, <3>3
  <2>2. CASE i = l + 1
    <3>1. j \in 1..Len(last) /\ off[i] = Len(s) /\ ss[i] = last
      BY <1>1, <2>2
    <3>2. /\ Len(s) + j \in 1..(Len(s) + Len(last)) /\ ~ (Len(s) + j <= Len(s))
          /\ Len(s) + j - Len(s) = j
      BY <1>2, <3>1
    <3>3. t[Len(s) + j] = last[Len(s) + j - Len(s)]
      BY <1>2, <3>2
    <3> QED
      BY <3>1, <3>2, <3>3
  <2> QED
    BY <1>4, <2>1, <2>2
<1>8. ASSUME NEW x \in 1..Len(t)
      PROVE  \E i \in 1..(l + 1) : \E j \in 1..Len(ss[i]) : x = off[i] + j
  <2>1. CASE x \in 1..Len(s)
    BY <1>3, <1>4, <2>1
  <2>2. CASE x \notin 1..Len(s)
    <3>1. x - Len(s) \in 1..Len(last) /\ x = Len(s) + (x - Len(s))
      BY <1>2, <2>2
    <3> QED
      BY <1>1, <1>4, <3>1
  <2> QED
    BY <2>1, <2>2
<1>9. \A h, i \in 1..(l + 1) : h < i => off[h] + Len(ss[h]) <= off[i]
  <2> SUFFICES ASSUME NEW h \in 1..(l + 1), NEW i \in 1..(l + 1), h < i
               PROVE  off[h] + Len(ss[h]) <= off[i]
    OBVIOUS
  <2>1. h \in 1..l
    OBVIOUS
  <2>2. CASE i \in 1..l
    BY <1>3, <2>1, <2>2
  <2>3. CASE i = l + 1
    BY <1>3, <2>1, <2>3
  <2> QED
    BY <1>4, <2>2, <2>3
<1>10. Placed(off, ss, t, l + 1)
  BY <1>6, <1>7, <1>8, <1>9 DEF Placed
<1>11. QED
  BY <1>1, <1>10

LEMMA JoinPlaced ==
  ASSUME NEW D, NEW ss \in Seq(Seq(D)), NEW f, IsJoin(f, ss, Len(ss)), NEW off,
         off = [i \in 1..Len(ss) |-> IF i = 1 THEN 0 ELSE Len(f[i - 1])]
  PROVE  \A l \in 1..Len(ss) : f[l] \in Seq(D) /\ Placed(off, ss, f[l], l)
<1> DEFINE S == {l \in Nat : l \in 1..Len(ss) =>
                                f[l] \in Seq(D) /\ Placed(off, ss, f[l], l)}
<1>1. Len(ss) \in Nat /\ \A i \in 1..Len(ss) : ss[i] \in Seq(D)
  BY LenProperties, ElementOfSeq
<1>2. \A i \in 1..Len(ss) : f[i] = IF i = 1 THEN ss[i] ELSE f[i - 1] \o ss[i]
  BY DEF IsJoin
<1>3. 0 \in S
  OBVIOUS
<1>4. ASSUME NEW l \in Nat, l \in S PROVE l + 1 \in S
  <2> SUFFICES ASSUME l + 1 \in 1..Len(ss)
               PROVE  f[l + 1] \in Seq(D) /\ Placed(off, ss, f[l + 1], l + 1)
    OBVIOUS
  <2>1. CASE l = 0
    <3>1. f[1] = ss[1] /\ off[1] = 0 /\ ss[1] \in Seq(D)
      BY <1>1, <1>2, <2>1
    <3>2. Placed(off, ss, ss[1], 1)
      BY <3>1, PlacedOne
    <3> QED
      BY <3>1, <3>2, <2>1
  <2>2. CASE l # 0
    <3>1. l \in 1..Len(ss) /\ l + 1 # 1 /\ l + 1 - 1 = l
      BY <1>1, <2>2
    <3>2. f[l] \in Seq(D) /\ Placed(off, ss, f[l], l)
      BY <1>4, <3>1
    <3>3. f[l + 1] = f[l] \o ss[l + 1] /\ off[l + 1] = Len(f[l]) /\ ss[l + 1] \in Seq(D)
      <4>1. PICK m \in 1..Len(ss) : m = l + 1
        OBVIOUS
      <4>2. m # 1 /\ m - 1 = l
        BY <3>1, <4>1
      <4>3. f[m] = f[m - 1] \o ss[m]
        BY <1>2, <4>2
      <4>4. off[m] = Len(f[m - 1])
        BY <4>2
      <4>5. ss[m] \in Seq(D)
        BY <1>1
      <4> QED
        BY <4>1, <4>2, <4>3, <4>4, <4>5
    <3>4. PICK s \in Seq(D) : s = f[l]
      BY <3>2
    <3>5. \A i \in 1..l : ss[i] \in Seq(D)
      BY <1>1, <3>1
    <3>6. Placed(off, ss, s \o ss[l + 1], l + 1)
      BY <2>2, <3>2, <3>3, <3>4, <3>5, PlacedMore
    <3>7. s \o ss[l + 1] \in Seq(D)
      BY <3>3, ConcatProperties
    <3> QED
      BY <3>3, <3>4, <3>6, <3>7
  <2> QED
    BY <2>1, <2>2
<1> HIDE DEF S
<1>5. \A l \in Nat : l \in S
  BY <1>3, <1>4, Counting
<1>6. QED
  BY <1>1, <1>5 DEF S

(***************************************************************************)
(* The concatenation of a list of sequences has their elements, in order.  *)
(***************************************************************************)
LEMMA FlattenPlaces ==
  ASSUME NEW D, NEW ss \in Seq(Seq(D))
  PROVE  /\ FlattenSeq(ss) \in Seq(D)
         /\ \E off : Placed(off, ss, FlattenSeq(ss), Len(ss))
<1>1. Len(ss) \in Nat
  BY LenProperties
<1>2. CASE Len(ss) = 0
  <2>1. ss = << >>
    BY <1>2, EmptySeq
  <2>2. FlattenSeq(ss) = << >>
    BY <2>1, <1>2 DEF FlattenSeq
  <2>3. << >> \in Seq(D) /\ Len(<< >>) = 0 /\ \A i : i \notin 1..0
    OBVIOUS
  <2>4. PICK off : off = << >>
    OBVIOUS
  <2>5. Placed(off, ss, << >>, Len(ss))
    BY <1>2, <2>3 DEF Placed
  <2> QED
    BY <2>2, <2>3, <2>5
<1>3. CASE Len(ss) # 0
  <2>1. PICK f : IsJoin(f, ss, Len(ss)) /\ FlattenSeq(ss) = f[Len(ss)]
    BY <1>1, <1>3, FlattenJoin
  <2>2. PICK off : off = [i \in 1..Len(ss) |-> IF i = 1 THEN 0 ELSE Len(f[i - 1])]
    OBVIOUS
  <2>3. Len(ss) \in 1..Len(ss)
    BY <1>1, <1>3
  <2>4. \A l \in 1..Len(ss) : f[l] \in Seq(D) /\ Placed(off, ss, f[l], l)
    BY <2>1, <2>2, JoinPlaced
  <2> QED
    BY <2>1, <2>3, <2>4
<1>4. QED
  BY <1>2, <1>3

-----------------------------------------------------------------------------
(***************************************************************************)
(* What there is to know about the steps of a rank: which kinds of step    *)
(* they hold for which peers, that none is there twice, and that each of   *)
(* one kind has one of another for the same peer after it.                 *)
(***************************************************************************)
Has(s, do, p) == \E i \in 1..Len(s) : s[i].do = do /\ s[i].peer = p

Once(s) ==
  \A i, j \in 1..Len(s) : s[i].do = s[j].do /\ s[i].peer = s[j].peer => i = j

Then(s, a, b) ==
  \A i \in 1..Len(s) : s[i].do = a =>
    \E j \in 1..Len(s) : i < j /\ s[j].do = b /\ s[j].peer = s[i].peer

LEMMA ConcatPlaces ==
  ASSUME NEW D, NEW s \in Seq(D), NEW t \in Seq(D)
  PROVE  /\ s \o t \in Seq(D)
         /\ Len(s) \in Nat /\ Len(t) \in Nat /\ Len(s \o t) = Len(s) + Len(t)
         /\ \A i \in 1..Len(s) : i \in 1..Len(s \o t) /\ (s \o t)[i] = s[i]
         /\ \A i \in 1..Len(t) : /\ Len(s) + i \in 1..Len(s \o t)
                                 /\ (s \o t)[Len(s) + i] = t[i]
         /\ \A i \in 1..Len(s \o t) :
              i \in 1..Len(s) \/ \E j \in 1..Len(t) : i = Len(s) + j
<1>1. PICK u : u = s \o t
  OBVIOUS
<1>2. /\ u \in Seq(D) /\ Len(s) \in Nat /\ Len(t) \in Nat
      /\ Len(u) = Len(s) + Len(t)
      /\ \A i \in 1..(Len(s) + Len(t)) :
           u[i] = IF i <= Len(s) THEN s[i] ELSE t[i - Len(s)]
  BY <1>1, ConcatProperties, LenProperties
<1>3. \A i \in 1..Len(s) : i \in 1..Len(u) /\ u[i] = s[i]
  BY <1>2
<1>4. ASSUME NEW i \in 1..Len(t)
      PROVE  Len(s) + i \in 1..Len(u) /\ u[Len(s) + i] = t[i]
  <2>1. /\ Len(s) + i \in 1..(Len(s) + Len(t)) /\ ~ (Len(s) + i <= Len(s))
        /\ Len(s) + i - Len(s) = i
    BY <1>2
  <2>2. u[Len(s) + i] = t[Len(s) + i - Len(s)]
    BY <1>2, <2>1
  <2> QED
    BY <1>2, <2>1, <2>2
<1>5. ASSUME NEW i \in 1..Len(u), i \notin 1..Len(s)
      PROVE  \E j \in 1..Len(t) : i = Len(s) + j
  <2>1. i - Len(s) \in 1..Len(t) /\ i = Len(s) + (i - Len(s))
    BY <1>2, <1>5
  <2> QED
    BY <2>1
<1>6. QED
  BY <1>1, <1>2, <1>3, <1>4, <1>5

LEMMA HasConcat ==
  ASSUME NEW D, NEW s \in Seq(D), NEW t \in Seq(D), NEW a, NEW p
  PROVE  Has(s \o t, a, p) <=> Has(s, a, p) \/ Has(t, a, p)
<1>1. PICK u : u = s \o t
  OBVIOUS
<1>2. /\ \A i \in 1..Len(s) : i \in 1..Len(u) /\ u[i] = s[i]
      /\ \A i \in 1..Len(t) : Len(s) + i \in 1..Len(u) /\ u[Len(s) + i] = t[i]
      /\ \A i \in 1..Len(u) : i \in 1..Len(s) \/ \E j \in 1..Len(t) : i = Len(s) + j
  BY <1>1, ConcatPlaces
<1>3. ASSUME Has(u, a, p) PROVE Has(s, a, p) \/ Has(t, a, p)
  <2>1. PICK i \in 1..Len(u) : u[i].do = a /\ u[i].peer = p
    BY <1>3 DEF Has
  <2>2. CASE i \in 1..Len(s)
    BY <1>2, <2>1, <2>2 DEF Has
  <2>3. CASE i \notin 1..Len(s)
    BY <1>2, <2>1, <2>3 DEF Has
  <2> QED
    BY <2>2, <2>3
<1>4. ASSUME Has(s, a, p) PROVE Has(u, a, p)
  <2>1. PICK i \in 1..Len(s) : s[i].do = a /\ s[i].peer = p
    BY <1>4 DEF Has
  <2> QED
    BY <1>2, <2>1 DEF Has
<1>5. ASSUME Has(t, a, p) PROVE Has(u, a, p)
  <2>1. PICK i \in 1..Len(t) : t[i].do = a /\ t[i].peer = p
    BY <1>5 DEF Has
  <2> QED
    BY <1>2, <2>1 DEF Has
<1>6. QED
  BY <1>1, <1>3, <1>4, <1>5

LEMMA OnceConcat ==
  ASSUME NEW D, NEW s \in Seq(D), NEW t \in Seq(D), Once(s), Once(t),
         \A a, p : ~ (Has(s, a, p) /\ Has(t, a, p))
  PROVE  Once(s \o t)
<1>1. PICK u : u = s \o t
  OBVIOUS
<1>2. /\ \A i \in 1..Len(s) : i \in 1..Len(u) /\ u[i] = s[i]
      /\ \A i \in 1..Len(t) : Len(s) + i \in 1..Len(u) /\ u[Len(s) + i] = t[i]
      /\ \A i \in 1..Len(u) : i \in 1..Len(s) \/ \E j \in 1..Len(t) : i = Len(s) + j
  BY <1>1, ConcatPlaces
<1>3. ASSUME NEW i \in 1..Len(s), NEW j \in 1..Len(t)
      PROVE  ~ (s[i].do = t[j].do /\ s[i].peer = t[j].peer)
  BY DEF Has
<1>4. ASSUME NEW i \in 1..Len(u), NEW j \in 1..Len(u),
             u[i].do = u[j].do, u[i].peer = u[j].peer
      PROVE  i = j
  <2>1. CASE i \in 1..Len(s) /\ j \in 1..Len(s)
    BY <1>2, <1>4, <2>1 DEF Once
  <2>2. CASE i \notin 1..Len(s) /\ j \notin 1..Len(s)
    <3>1. PICK x \in 1..Len(t), y \in 1..Len(t) : i = Len(s) + x /\ j = Len(s) + y
      BY <1>2, <2>2
    <3>2. u[i] = t[x] /\ u[j] = t[y]
      BY <1>2, <3>1
    <3>3. t[x].do = t[y].do /\ t[x].peer = t[y].peer
      BY <1>4, <3>2
    <3>4. x = y
      BY <3>3 DEF Once
    <3> QED
      BY <3>1, <3>4
  <2>3. CASE i \in 1..Len(s) /\ j \notin 1..Len(s)
    <3>1. PICK y \in 1..Len(t) : j = Len(s) + y
      BY <1>2, <2>3
    <3>2. u[i] = s[i] /\ u[j] = t[y]
      BY <1>2, <2>3, <3>1
    <3> QED
      BY <1>3, <1>4, <2>3, <3>2
  <2>4. CASE i \notin 1..Len(s) /\ j \in 1..Len(s)
    <3>1. PICK x \in 1..Len(t) : i = Len(s) + x
      BY <1>2, <2>4
    <3>2. u[i] = t[x] /\ u[j] = s[j]
      BY <1>2, <2>4, <3>1
    <3> QED
      BY <1>3, <1>4, <2>4, <3>2
  <2> QED
    BY <2>1, <2>2, <2>3, <2>4
<1>5. QED
  BY <1>1, <1>4 DEF Once

LEMMA ThenConcat ==
  ASSUME NEW D, NEW s \in Seq(D), NEW t \in Seq(D), NEW a, NEW b,
         Then(s, a, b) \/ \A p : Has(s, a, p) => Has(t, b, p),
         Then(t, a, b)
  PROVE  Then(s \o t, a, b)
<1>1. PICK u : u = s \o t
  OBVIOUS
<1>2. /\ Len(s) \in Nat
      /\ \A i \in 1..Len(s) : i \in 1..Len(u) /\ u[i] = s[i]
      /\ \A i \in 1..Len(t) : Len(s) + i \in 1..Len(u) /\ u[Len(s) + i] = t[i]
      /\ \A i \in 1..Len(u) : i \in 1..Len(s) \/ \E j \in 1..Len(t) : i = Len(s) + j
  BY <1>1, ConcatPlaces
<1>3. ASSUME NEW i \in 1..Len(u), u[i].do = a
      PROVE  \E j \in 1..Len(u) : i < j /\ u[j].do = b /\ u[j].peer = u[i].peer
  <2>1. CASE i \in 1..Len(s) /\ Then(s, a, b)
    <3>1. PICK j \in 1..Len(s) : i < j /\ s[j].do = b /\ s[j].peer = s[i].peer
      BY <1>2, <1>3, <2>1 DEF Then
    <3> QED
      BY <1>2, <2>1, <3>1
  <2>2. CASE i \in 1..Len(s) /\ \A p : Has(s, a, p) => Has(t, b, p)
    <3>1. Has(s, a, s[i].peer)
      BY <1>2, <1>3, <2>2 DEF Has
    <3>2. PICK j \in 1..Len(t) : t[j].do = b /\ t[j].peer = s[i].peer
      BY <2>2, <3>1 DEF Has
    <3>3. i < Len(s) + j
      BY <1>2, <2>2
    <3> QED
      BY <1>2, <2>2, <3>2, <3>3
  <2>3. CASE i \notin 1..Len(s)
    <3>1. PICK x \in 1..Len(t) : i = Len(s) + x
      BY <1>2, <2>3
    <3>2. t[x].do = a
      BY <1>2, <1>3, <3>1
    <3>3. PICK y \in 1..Len(t) : x < y /\ t[y].do = b /\ t[y].peer = t[x].peer
      BY <3>2 DEF Then
    <3>4. i < Len(s) + y
      BY <1>2, <3>1, <3>3
    <3>5. /\ Len(s) + y \in 1..Len(u) /\ u[Len(s) + y].do = b
          /\ u[Len(s) + y].peer = u[i].peer
      BY <1>2, <3>1, <3>3
    <3> QED
      BY <3>4, <3>5
  <2> QED
    BY <2>1, <2>2, <2>3
<1>4. QED
  BY <1>1, <1>3 DEF Then

LEMMA HasFlatten ==
  ASSUME NEW D, NEW ss \in Seq(Seq(D)), NEW a, NEW p
  PROVE  Has(FlattenSeq(ss), a, p) <=> \E i \in 1..Len(ss) : Has(ss[i], a, p)
<1>1. PICK s : s = FlattenSeq(ss)
  OBVIOUS
<1>2. s \in Seq(D) /\ \E off : Placed(off, ss, s, Len(ss))
  BY <1>1, FlattenPlaces
<1>3. PICK off : Placed(off, ss, s, Len(ss))
  BY <1>2
<1>4. /\ \A i \in 1..Len(ss) : off[i] \in Nat /\ off[i] + Len(ss[i]) <= Len(s)
      /\ \A i \in 1..Len(ss) : \A j \in 1..Len(ss[i]) : s[off[i] + j] = ss[i][j]
      /\ \A x \in 1..Len(s) : \E i \in 1..Len(ss) : \E j \in 1..Len(ss[i]) : x = off[i] + j
  BY <1>3 DEF Placed
<1>5. Len(s) \in Nat /\ \A i \in 1..Len(ss) : Len(ss[i]) \in Nat
  BY <1>2, LenProperties, ElementOfSeq
<1>6. ASSUME Has(s, a, p) PROVE \E i \in 1..Len(ss) : Has(ss[i], a, p)
  <2>1. PICK x \in 1..Len(s) : s[x].do = a /\ s[x].peer = p
    BY <1>6 DEF Has
  <2>2. PICK i \in 1..Len(ss) : \E g \in 1..Len(ss[i]) : x = off[i] + g
    BY <1>4
  <2>3. PICK j \in 1..Len(ss[i]) : x = off[i] + j
    BY <2>2
  <2>4. s[x] = ss[i][j]
    BY <1>4, <2>3
  <2> QED
    BY <2>1, <2>4 DEF Has
<1>7. ASSUME NEW i \in 1..Len(ss), Has(ss[i], a, p) PROVE Has(s, a, p)
  <2>1. PICK j \in 1..Len(ss[i]) : ss[i][j].do = a /\ ss[i][j].peer = p
    BY <1>7 DEF Has
  <2>2. off[i] + j \in 1..Len(s)
    <3>1. PICK o \in Nat, l \in Nat : /\ o = off[i] /\ l = Len(ss[i]) /\ o + l <= Len(s)
      BY <1>4, <1>5
    <3>2. PICK m \in Nat : m = Len(s)
      BY <1>5
    <3>3. j \in 1..l /\ o + l <= m
      BY <3>1, <3>2
    <3>4. o + j \in 1..m
      BY <3>3
    <3> QED
      BY <3>1, <3>2, <3>4
  <2>3. s[off[i] + j] = ss[i][j]
    BY <1>4
  <2> QED
    BY <2>1, <2>2, <2>3 DEF Has
<1>8. QED
  BY <1>1, <1>6, <1>7

LEMMA OnceFlatten ==
  ASSUME NEW D, NEW ss \in Seq(Seq(D)), \A i \in 1..Len(ss) : Once(ss[i]),
         \A h, i \in 1..Len(ss) : \A a, p : Has(ss[h], a, p) /\ Has(ss[i], a, p) => h = i
  PROVE  Once(FlattenSeq(ss))
<1>1. PICK s : s = FlattenSeq(ss)
  OBVIOUS
<1>2. s \in Seq(D) /\ \E off : Placed(off, ss, s, Len(ss))
  BY <1>1, FlattenPlaces
<1>3. PICK off : Placed(off, ss, s, Len(ss))
  BY <1>2
<1>4. /\ \A i \in 1..Len(ss) : \A j \in 1..Len(ss[i]) : s[off[i] + j] = ss[i][j]
      /\ \A x \in 1..Len(s) : \E i \in 1..Len(ss) : \E j \in 1..Len(ss[i]) : x = off[i] + j
  BY <1>3 DEF Placed
<1>5. ASSUME NEW x \in 1..Len(s), NEW y \in 1..Len(s),
             s[x].do = s[y].do, s[x].peer = s[y].peer
      PROVE  x = y
  <2>1. PICK h \in 1..Len(ss) : \E g \in 1..Len(ss[h]) : x = off[h] + g
    BY <1>4
  <2>2. PICK g \in 1..Len(ss[h]) : x = off[h] + g
    BY <2>1
  <2>3. PICK i \in 1..Len(ss) : \E j \in 1..Len(ss[i]) : y = off[i] + j
    BY <1>4
  <2>4. PICK j \in 1..Len(ss[i]) : y = off[i] + j
    BY <2>3
  <2>5. s[x] = ss[h][g] /\ s[y] = ss[i][j]
    BY <1>4, <2>2, <2>4
  <2>6. PICK a, p : a = s[x].do /\ p = s[x].peer
    OBVIOUS
  <2>7. Has(ss[h], a, p) /\ Has(ss[i], a, p)
    BY <1>5, <2>5, <2>6 DEF Has
  <2>8. h = i
    BY <2>7
  <2>9. g = j
    BY <1>5, <2>5, <2>8 DEF Once
  <2> QED
    BY <2>2, <2>4, <2>8, <2>9
<1>6. QED
  BY <1>1, <1>5 DEF Once

LEMMA ThenFlatten ==
  ASSUME NEW D, NEW ss \in Seq(Seq(D)), NEW a, NEW b,
         \A i \in 1..Len(ss) : Then(ss[i], a, b)
  PROVE  Then(FlattenSeq(ss), a, b)
<1>1. PICK s : s = FlattenSeq(ss)
  OBVIOUS
<1>2. s \in Seq(D) /\ \E off : Placed(off, ss, s, Len(ss))
  BY <1>1, FlattenPlaces
<1>3. PICK off : Placed(off, ss, s, Len(ss))
  BY <1>2
<1>4. /\ \A i \in 1..Len(ss) : off[i] \in Nat /\ off[i] + Len(ss[i]) <= Len(s)
      /\ \A i \in 1..Len(ss) : \A j \in 1..Len(ss[i]) : s[off[i] + j] = ss[i][j]
      /\ \A x \in 1..Len(s) : \E i \in 1..Len(ss) : \E j \in 1..Len(ss[i]) : x = off[i] + j
  BY <1>3 DEF Placed
<1>5. Len(s) \in Nat /\ \A i \in 1..Len(ss) : Len(ss[i]) \in Nat
  BY <1>2, LenProperties, ElementOfSeq
<1>6. ASSUME NEW x \in 1..Len(s), s[x].do = a
      PROVE  \E y \in 1..Len(s) : x < y /\ s[y].do = b /\ s[y].peer = s[x].peer
  <2>1. PICK i \in 1..Len(ss) : \E g \in 1..Len(ss[i]) : x = off[i] + g
    BY <1>4
  <2>2. PICK g \in 1..Len(ss[i]) : x = off[i] + g
    BY <2>1
  <2>3. s[x] = ss[i][g]
    BY <1>4, <2>2
  <2>4. PICK j \in 1..Len(ss[i]) : g < j /\ ss[i][j].do = b /\ ss[i][j].peer = ss[i][g].peer
    BY <1>6, <2>3 DEF Then
  <2>5. PICK o \in Nat, l \in Nat : /\ o = off[i] /\ l = Len(ss[i]) /\ o + l <= Len(s)
    BY <1>4, <1>5
  <2>6. /\ j \in 1..l /\ g \in 1..l /\ x = o + g /\ g < j
        /\ Len(s) \in Nat /\ o + l <= Len(s)
    BY <1>5, <2>2, <2>4, <2>5
  <2>7. o + j \in 1..Len(s) /\ x < o + j
    BY <2>6
  <2>8. s[o + j] = ss[i][j]
    BY <1>4, <2>5
  <2> QED
    BY <2>3, <2>4, <2>7, <2>8
<1>7. QED
  BY <1>1, <1>6 DEF Then

(***************************************************************************)
(* Short sequences.                                                        *)
(***************************************************************************)
LEMMA Nothing0 ==
  /\ \A D : << >> \in Seq(D)
  /\ \A a, p : ~ Has(<< >>, a, p)
  /\ Once(<< >>)
  /\ \A a, b : Then(<< >>, a, b)
  BY DEF Has, Once, Then

LEMMA OneStep ==
  ASSUME NEW D, NEW x \in D
  PROVE  /\ <<x>> \in Seq(D)
         /\ \A a, p : Has(<<x>>, a, p) <=> x.do = a /\ x.peer = p
         /\ Once(<<x>>)
         /\ \A a, b : a # x.do => Then(<<x>>, a, b)
<1>1. <<x>> \in Seq(D) /\ Len(<<x>>) = 1 /\ <<x>>[1] = x
  OBVIOUS
<1>2. \A i : i \in 1..1 <=> i = 1
  OBVIOUS
<1>3. QED
  BY <1>1, <1>2 DEF Has, Once, Then

LEMMA TwoSteps ==
  ASSUME NEW D, NEW x \in D, NEW y \in D, x.do # y.do
  PROVE  /\ <<x, y>> \in Seq(D)
         /\ \A a, p : Has(<<x, y>>, a, p) <=> \/ x.do = a /\ x.peer = p
                                              \/ y.do = a /\ y.peer = p
         /\ Once(<<x, y>>)
         /\ \A a, b : a \notin {x.do, y.do} => Then(<<x, y>>, a, b)
         /\ x.peer = y.peer => Then(<<x, y>>, x.do, y.do)
<1>1. PICK s : s = <<x, y>>
  OBVIOUS
<1>2. s \in Seq(D) /\ Len(s) = 2 /\ s[1] = x /\ s[2] = y
  BY <1>1
<1>3. \A i : i \in 1..2 <=> i = 1 \/ i = 2
  OBVIOUS
<1>4. \A a, p : Has(s, a, p) <=> \/ x.do = a /\ x.peer = p
                                 \/ y.do = a /\ y.peer = p
  BY <1>2, <1>3 DEF Has
<1>5. Once(s)
  BY <1>2, <1>3 DEF Once
<1>6. \A a, b : a \notin {x.do, y.do} => Then(s, a, b)
  BY <1>2, <1>3 DEF Then
<1>7. x.peer = y.peer => Then(s, x.do, y.do)
  BY <1>2, <1>3 DEF Then
<1>8. QED
  BY <1>1, <1>2, <1>4, <1>5, <1>6, <1>7

-----------------------------------------------------------------------------
(***************************************************************************)
(* Arithmetic.                                                             *)
(***************************************************************************)
LEMMA TimesMonotonic ==
  ASSUME NEW a \in Nat, NEW b \in Nat, NEW c \in Nat, a <= b
  PROVE  a * c <= b * c /\ a * c \in Nat
  OBVIOUS

LEMMA TimesCancels ==
  ASSUME NEW a \in Nat, NEW b \in Nat, NEW c \in Nat \ {0}, a < b
  PROVE  a * c + c <= b * c
<1>1. a + 1 \in Nat /\ a + 1 <= b
  OBVIOUS
<1>2. (a + 1) * c <= b * c
  BY <1>1, TimesMonotonic
<1>3. (a + 1) * c = a * c + c
  OBVIOUS
<1>4. QED
  BY <1>2, <1>3

LEMMA Remainder ==
  ASSUME NEW x \in Nat, NEW m \in Nat \ {0}
  PROVE  x % m \in 0..(m - 1) /\ \E q \in Nat : x = q * m + (x % m)
<1>1. /\ x % m \in Int /\ 0 <= x % m /\ x % m < m
      /\ x \div m \in Int /\ x = m * (x \div m) + (x % m)
  OBVIOUS
<1>2. x \div m >= 0
  OBVIOUS
<1>3. PICK q \in Nat : q = x \div m
  BY <1>1, <1>2
<1>4. PICK d \in Int : d = x % m
  BY <1>1
<1>5. d \in 0..(m - 1) /\ x = q * m + d
  BY <1>1, <1>3, <1>4
<1>6. \E h \in Nat : x = h * m + d
  BY <1>5
<1>7. QED
  BY <1>4, <1>5, <1>6

LEMMA RemainderIs ==
  ASSUME NEW q \in Nat, NEW m \in Nat \ {0}, NEW d \in 0..(m - 1)
  PROVE  (q * m + d) % m = d
<1>1. PICK x \in Nat : x = q * m + d
  OBVIOUS
<1>2. x % m \in 0..(m - 1) /\ \E h \in Nat : x = h * m + (x % m)
  BY Remainder
<1>3. PICK h \in Nat, e \in 0..(m - 1) : x = h * m + e /\ e = x % m
  BY <1>2
<1>4. ~ (q < h)
  <2> SUFFICES ASSUME q < h PROVE FALSE
    OBVIOUS
  <2>1. q * m + m <= h * m
    BY TimesCancels
  <2>2. PICK u \in Nat, v \in Nat : u = q * m /\ v = h * m
    OBVIOUS
  <2> QED
    BY <1>1, <1>3, <2>1, <2>2
<1>5. ~ (h < q)
  <2> SUFFICES ASSUME h < q PROVE FALSE
    OBVIOUS
  <2>1. h * m + m <= q * m
    BY TimesCancels
  <2>2. PICK u \in Nat, v \in Nat : u = q * m /\ v = h * m
    OBVIOUS
  <2> QED
    BY <1>1, <1>3, <2>1, <2>2
<1>6. h = q
  BY <1>4, <1>5
<1>7. PICK u \in Nat : u = q * m
  OBVIOUS
<1>8. x = u + d /\ x = u + e
  BY <1>1, <1>3, <1>6, <1>7
<1>9. d = e
  BY <1>8
<1>10. QED
  BY <1>1, <1>3, <1>9, Zenon

LEMMA RemainderSmall ==
  ASSUME NEW m \in Nat \ {0}, NEW x \in 0..(m - 1)
  PROVE  x % m = x
<1>1. (0 * m + x) % m = x
  BY RemainderIs
<1>2. 0 * m + x = x
  OBVIOUS
<1>3. QED
  BY <1>1, <1>2

(***************************************************************************)
(* Ranks wrap around once at most.                                         *)
(***************************************************************************)
LEMMA Wraps ==
  ASSUME NEW n \in Nat \ {0}, NEW x \in 0..(2 * n - 1)
  PROVE  x % n = IF x < n THEN x ELSE x - n
<1>1. CASE x < n
  BY <1>1, RemainderSmall
<1>2. CASE ~ (x < n)
  <2>1. x - n \in 0..(n - 1)
    BY <1>2
  <2>2. PICK d \in 0..(n - 1) : d = x - n
    BY <2>1
  <2>3. (1 * n + d) % n = d
    BY RemainderIs
  <2>4. 1 * n + d = x
    BY <2>2
  <2> QED
    BY <1>2, <2>2, <2>3, <2>4
<1>3. QED
  BY <1>1, <1>2

(***************************************************************************)
(* The loop variable of a schedule: 1, k, k * k and so on.                 *)
(***************************************************************************)
IsPowers(p, k, l) == p = [j \in 0..l |-> IF j = 0 THEN 1 ELSE k * p[j - 1]]

LEMMA PowersExist ==
  ASSUME NEW k
  PROVE  \A l \in Nat : \E p : IsPowers(p, k, l)
<1> DEFINE S == {l \in Nat : \E p : IsPowers(p, k, l)}
<1>1. 0 \in S
  <2>1. PICK p : p = [j \in 0..0 |-> 1]
    OBVIOUS
  <2>2. \A j : j \in 0..0 <=> j = 0
    OBVIOUS
  <2>3. p = [j \in 0..0 |-> IF j = 0 THEN 1 ELSE k * p[j - 1]]
    BY <2>1, <2>2
  <2> QED
    BY <2>3 DEF IsPowers
<1>2. ASSUME NEW l \in Nat, l \in S PROVE l + 1 \in S
  <2>1. PICK p : p = [j \in 0..l |-> IF j = 0 THEN 1 ELSE k * p[j - 1]]
    BY <1>2 DEF IsPowers
  <2>2. PICK q : q = [j \in 0..(l + 1) |-> IF j = l + 1 THEN k * p[l] ELSE p[j]]
    OBVIOUS
  <2>3. \A j \in 0..(l + 1) : q[j] = IF j = 0 THEN 1 ELSE k * q[j - 1]
    <3> SUFFICES ASSUME NEW j \in 0..(l + 1)
                 PROVE  q[j] = IF j = 0 THEN 1 ELSE k * q[j - 1]
      OBVIOUS
    <3>1. CASE j = l + 1
      <4>1. j # 0 /\ j - 1 = l /\ l \in 0..(l + 1) /\ l # l + 1
        BY <3>1
      <4>2. q[j] = k * p[l] /\ q[l] = p[l]
        BY <2>2, <3>1, <4>1
      <4> QED
        BY <4>1, <4>2
    <3>2. CASE j = 0
      <4>1. j \in 0..l /\ j # l + 1
        BY <3>2
      <4>2. q[j] = p[j] /\ p[j] = 1
        BY <2>1, <2>2, <3>2, <4>1
      <4> QED
        BY <3>2, <4>2
    <3>3. CASE j # l + 1 /\ j # 0
      <4>1. /\ j \in 0..l /\ j - 1 \in 0..l /\ j - 1 \in 0..(l + 1) /\ j - 1 # l + 1
        BY <3>3
      <4>2. q[j] = p[j] /\ q[j - 1] = p[j - 1]
        BY <2>2, <3>3, <4>1
      <4>3. p[j] = k * p[j - 1]
        BY <2>1, <3>3, <4>1
      <4> QED
        BY <4>2, <4>3, <3>3
    <3>4. QED
      BY <3>1, <3>2, <3>3
  <2>4. PICK h : h = [j \in 0..(l + 1) |-> IF j = 0 THEN 1 ELSE k * q[j - 1]]
    OBVIOUS
  <2>5. q = h
    <3>1. \A j \in 0..(l + 1) : q[j] = h[j]
      BY <2>3, <2>4
    <3>2. /\ DOMAIN q = 0..(l + 1) /\ DOMAIN h = 0..(l + 1)
          /\ q = [j \in DOMAIN q |-> q[j]] /\ h = [j \in DOMAIN h |-> h[j]]
      BY <2>2, <2>4
    <3> QED
      BY <3>1, <3>2
  <2>6. IsPowers(q, k, l + 1)
    BY <2>4, <2>5 DEF IsPowers
  <2> QED
    BY <2>6
<1> HIDE DEF S
<1>3. \A l \in Nat : l \in S
  BY <1>1, <1>2, Counting
<1>4. QED
  BY <1>3 DEF S

LEMMA StridesAre ==
  ASSUME NEW n \in Nat, NEW k
  PROVE  /\ Strides(n, k)[0] = 1
         /\ \A j \in 0..(n - 1) : Strides(n, k)[j + 1] = k * Strides(n, k)[j]
<1>1. PICK p : p = CHOOSE q : IsPowers(q, k, n)
  OBVIOUS
<1>2. IsPowers(p, k, n)
  BY <1>1, PowersExist
<1>3. p = CHOOSE q : q = [j \in 0..n |-> IF j = 0 THEN 1 ELSE k * q[j - 1]]
  BY <1>1 DEF IsPowers
<1>4. Strides(n, k) = p
  BY <1>3 DEF Strides
<1>5. p = [j \in 0..n |-> IF j = 0 THEN 1 ELSE k * p[j - 1]]
  BY <1>2 DEF IsPowers
<1>6. p[0] = 1
  <2>1. 0 \in 0..n
    OBVIOUS
  <2> QED
    BY <1>5, <2>1
<1>7. ASSUME NEW j \in 0..(n - 1) PROVE p[j + 1] = k * p[j]
  <2>1. j + 1 \in 0..n /\ j + 1 # 0 /\ j + 1 - 1 = j
    OBVIOUS
  <2> QED
    BY <1>5, <2>1
<1>8. QED
  BY <1>4, <1>6, <1>7

(***************************************************************************)
(* Divisibility.                                                           *)
(***************************************************************************)
Divides(m, x) == \E q \in Nat : x = q * m

LEMMA DividesRemainder ==
  ASSUME NEW x \in Nat, NEW m \in Nat \ {0}
  PROVE  Divides(m, x) <=> x % m = 0
<1>1. ASSUME Divides(m, x) PROVE x % m = 0
  <2>1. PICK q \in Nat : x = q * m
    BY <1>1 DEF Divides
  <2>2. PICK d \in 0..(m - 1) : d = 0
    OBVIOUS
  <2>3. (q * m + d) % m = d
    BY RemainderIs
  <2>4. q * m + d = x
    BY <2>1, <2>2
  <2> QED
    BY <2>2, <2>3, <2>4
<1>2. ASSUME x % m = 0 PROVE Divides(m, x)
  <2>1. PICK q \in Nat : x = q * m + (x % m)
    BY Remainder
  <2>2. x = q * m
    BY <1>2, <2>1
  <2> QED
    BY <2>2 DEF Divides
<1>3. QED
  BY <1>1, <1>2

LEMMA DividesFurther ==
  ASSUME NEW a \in Nat, NEW b \in Nat, NEW c \in Nat, Divides(a, b), Divides(b, c)
  PROVE  Divides(a, c)
<1>1. PICK q \in Nat : b = q * a
  BY DEF Divides
<1>2. PICK h \in Nat : c = h * b
  BY DEF Divides
<1>3. PICK g \in Nat : g = h * q
  OBVIOUS
<1>4. c = g * a
  BY <1>1, <1>2, <1>3
<1>5. QED
  BY <1>4 DEF Divides

LEMMA DividesSum ==
  ASSUME NEW m \in Nat, NEW a \in Nat, NEW b \in Nat, Divides(m, a), Divides(m, b)
  PROVE  Divides(m, a + b)
<1>1. PICK q \in Nat : a = q * m
  BY DEF Divides
<1>2. PICK h \in Nat : b = h * m
  BY DEF Divides
<1>3. PICK g \in Nat : g = q + h
  OBVIOUS
<1>4. a + b = g * m
  BY <1>1, <1>2, <1>3
<1>5. QED
  BY <1>4 DEF Divides

(***************************************************************************)
(* The strides grow, each divides the next, and they reach n.              *)
(***************************************************************************)
LEMMA StridesGrow ==
  ASSUME NEW n \in Nat, NEW k \in Nat \ {0, 1}
  PROVE  \A j \in 0..n : Strides(n, k)[j] \in Nat /\ Strides(n, k)[j] >= j + 1
<1> DEFINE p == Strides(n, k)
           S == {j \in Nat : j \in 0..n => p[j] \in Nat /\ p[j] >= j + 1}
<1>1. p[0] = 1 /\ \A j \in 0..(n - 1) : p[j + 1] = k * p[j]
  BY StridesAre
<1> HIDE DEF p
<1>2. 0 \in S
  BY <1>1
<1>3. ASSUME NEW j \in Nat, j \in S PROVE j + 1 \in S
  <2> SUFFICES ASSUME j + 1 \in 0..n
               PROVE  p[j + 1] \in Nat /\ p[j + 1] >= j + 1 + 1
    OBVIOUS
  <2>1. j \in 0..n /\ j \in 0..(n - 1)
    OBVIOUS
  <2>2. PICK x \in Nat : x = p[j] /\ x >= j + 1
    BY <1>3, <2>1
  <2>3. 2 * x <= k * x /\ k * x \in Nat
    BY TimesMonotonic
  <2>4. p[j + 1] = k * x
    BY <1>1, <2>1, <2>2
  <2> QED
    BY <2>2, <2>3, <2>4
<1> HIDE DEF S
<1>4. \A j \in Nat : j \in S
  BY <1>2, <1>3, Counting
<1>5. QED
  BY <1>4 DEF S, p

LEMMA StridesNext ==
  ASSUME NEW n \in Nat, NEW k \in Nat \ {0, 1}, NEW j \in 0..(n - 1)
  PROVE  /\ Strides(n, k)[j] \in Nat \ {0} /\ Strides(n, k)[j + 1] \in Nat \ {0}
         /\ Strides(n, k)[j + 1] = k * Strides(n, k)[j]
         /\ Strides(n, k)[j] < Strides(n, k)[j + 1]
<1>1. j \in 0..n /\ j + 1 \in 0..n
  OBVIOUS
<1>2. PICK x \in Nat \ {0}, y \in Nat \ {0} : x = Strides(n, k)[j] /\ y = Strides(n, k)[j + 1]
  <2>1. \A h \in 0..n : Strides(n, k)[h] \in Nat /\ Strides(n, k)[h] >= h + 1
    BY StridesGrow
  <2>2. Strides(n, k)[j] \in Nat \ {0}
    BY <1>1, <2>1
  <2>3. Strides(n, k)[j + 1] \in Nat \ {0}
    BY <1>1, <2>1
  <2> QED
    BY <2>2, <2>3
<1>3. y = k * x
  BY <1>2, StridesAre
<1>4. 2 * x <= k * x
  BY TimesMonotonic
<1>5. x < y
  BY <1>3, <1>4
<1>6. QED
  BY <1>2, <1>3, <1>5

LEMMA StridesDivide ==
  ASSUME NEW n \in Nat, NEW k \in Nat \ {0, 1}, NEW i \in 0..n
  PROVE  \A j \in i..n : /\ Divides(Strides(n, k)[i], Strides(n, k)[j])
                         /\ Strides(n, k)[i] <= Strides(n, k)[j]
<1> DEFINE p == Strides(n, k)
           S == {h \in Nat : i + h \in 0..n => /\ Divides(p[i], p[i + h])
                                               /\ p[i] <= p[i + h]}
<1>1. \A j \in 0..n : p[j] \in Nat
  BY StridesGrow
<1>2. \A j \in 0..(n - 1) : p[j + 1] = k * p[j] /\ p[j] < p[j + 1]
  BY StridesNext
<1> HIDE DEF p
<1>3. 0 \in S
  <2>1. p[i] = 1 * p[i] /\ i + 0 = i /\ p[i] <= p[i]
    BY <1>1
  <2>2. Divides(p[i], p[i])
    BY <2>1 DEF Divides
  <2> QED
    BY <2>1, <2>2
<1>4. ASSUME NEW h \in Nat, h \in S PROVE h + 1 \in S
  <2> SUFFICES ASSUME i + (h + 1) \in 0..n
               PROVE  /\ Divides(p[i], p[i + (h + 1)])
                      /\ p[i] <= p[i + (h + 1)]
    OBVIOUS
  <2>1. PICK j \in 0..(n - 1) : j = i + h /\ j \in 0..n /\ j + 1 = i + (h + 1)
    OBVIOUS
  <2>2. Divides(p[i], p[j]) /\ p[i] <= p[j]
    BY <1>4, <2>1
  <2>3. p[j + 1] = k * p[j] /\ p[j] < p[j + 1] /\ p[j] \in Nat
    BY <1>1, <1>2, <2>1
  <2>4. Divides(p[j], p[j + 1])
    BY <2>3 DEF Divides
  <2>5. PICK a \in Nat, b \in Nat, c \in Nat : a = p[i] /\ b = p[j] /\ c = p[j + 1]
    BY <1>1, <2>1
  <2>6. Divides(a, c)
    BY <2>2, <2>4, <2>5, DividesFurther
  <2>7. a <= c
    BY <2>2, <2>3, <2>5
  <2> QED
    BY <2>1, <2>5, <2>6, <2>7
<1> HIDE DEF S
<1>5. \A h \in Nat : h \in S
  BY <1>3, <1>4, Counting
<1>6. ASSUME NEW j \in i..n PROVE Divides(p[i], p[j]) /\ p[i] <= p[j]
  <2>1. PICK h \in Nat : h = j - i /\ i + h = j /\ j \in 0..n
    OBVIOUS
  <2> QED
    BY <1>5, <2>1 DEF S
<1>7. QED
  BY <1>6 DEF p

LEMMA TurnsAre ==
  ASSUME NEW n \in Nat \ {0, 1}, NEW k \in Nat \ {0, 1}
  PROVE  /\ Turns(n, k) \in 1..n
         /\ Strides(n, k)[Turns(n, k)] >= n
         /\ \A j \in 0..(Turns(n, k) - 1) : Strides(n, k)[j] < n
<1> DEFINE p == Strides(n, k)
           S == {j \in 0..n : p[j] >= n}
<1>1. /\ \A j \in 0..n : p[j] \in Nat /\ p[j] >= j + 1
      /\ p[0] = 1
  BY StridesGrow, StridesAre
<1> HIDE DEF p
<1>2. n \in S /\ S \in SUBSET Nat /\ 0 \notin S
  BY <1>1
<1>3. PICK m : m = Min(S)
  OBVIOUS
<1>4. m \in S /\ \A x \in S : m <= x
  BY <1>2, <1>3, MinProperties
<1>5. Turns(n, k) = m
  BY <1>3 DEF Turns, p
<1>6. m \in 1..n /\ p[m] >= n
  BY <1>2, <1>4
<1>7. ASSUME NEW j \in 0..(m - 1) PROVE p[j] < n
  <2>1. j \in 0..n /\ ~ (m <= j)
    BY <1>6
  <2>2. j \notin S
    BY <1>4, <2>1
  <2> QED
    BY <1>1, <2>1, <2>2
<1>8. QED
  BY <1>5, <1>6, <1>7 DEF p

(***************************************************************************)
(* The turn in which a rank leaves the loop: its stride still divides the  *)
(* rank, the next does not.                                                *)
(***************************************************************************)
LEMMA ReachedIs ==
  ASSUME NEW n \in Nat \ {0, 1}, NEW k \in Nat \ {0, 1}, NEW x \in 0..(n - 1)
  PROVE  LET p == Strides(n, k)
             v == Reached(n, k, x)
         IN  /\ v \in 0..n
             /\ \A j \in 0..v : Divides(p[j], x)
             /\ x = 0 <=> p[v] >= n
             /\ x # 0 => v + 1 \in 1..n /\ ~ Divides(p[v + 1], x)
<1> DEFINE p == Strides(n, k)
           S == {j \in 0..n : p[j] >= n \/ x % p[j + 1] # 0}
<1>1. /\ \A j \in 0..n : p[j] \in Nat \ {0} /\ p[j] >= j + 1
      /\ p[0] = 1
  <2>1. \A j \in 0..n : p[j] \in Nat /\ p[j] >= j + 1
    BY StridesGrow
  <2>2. p[0] = 1
    BY StridesAre
  <2> QED
    BY <2>1, <2>2
<1> HIDE DEF p
<1>2. n \in S /\ S \in SUBSET Nat
  BY <1>1
<1>3. PICK v : v = Min(S)
  OBVIOUS
<1>4. v \in S /\ \A j \in S : v <= j
  BY <1>2, <1>3, MinProperties
<1>5. Reached(n, k, x) = v
  BY <1>3 DEF Reached, p
<1>6. v \in 0..n /\ (p[v] >= n \/ x % p[v + 1] # 0)
  BY <1>4
<1>7. ASSUME NEW j \in 0..(v - 1) PROVE p[j] < n /\ x % p[j + 1] = 0
  <2>1. j \in 0..n /\ ~ (v <= j)
    BY <1>6
  <2>2. j \notin S
    BY <1>4, <2>1
  <2> QED
    BY <1>1, <2>1, <2>2
<1>8. ASSUME NEW j \in 0..v PROVE Divides(p[j], x)
  <2>1. CASE j = 0
    <3>1. x = x * p[j]
      BY <1>1, <2>1
    <3> QED
      BY <3>1 DEF Divides
  <2>2. CASE j # 0
    <3>1. PICK h \in 0..(v - 1) : h = j - 1 /\ j = h + 1
      BY <1>6, <2>2
    <3>2. x % p[j] = 0
      BY <1>7, <3>1
    <3>3. p[j] \in Nat \ {0} /\ x \in Nat
      BY <1>1, <1>6
    <3> QED
      BY <3>2, <3>3, DividesRemainder
  <2> QED
    BY <2>1, <2>2
<1>9. ASSUME x # 0 PROVE p[v] < n
  <2> SUFFICES ASSUME p[v] >= n PROVE FALSE
    BY <1>1, <1>6
  <2>1. v \in 0..v /\ p[v] \in Nat \ {0}
    BY <1>1, <1>6
  <2>2. x % p[v] = 0
    BY <1>8, <2>1, DividesRemainder
  <2>3. PICK m \in Nat \ {0} : m = p[v] /\ x \in 0..(m - 1)
    BY <2>1
  <2>4. x % m = x
    BY <2>3, RemainderSmall
  <2> QED
    BY <1>9, <2>2, <2>3, <2>4
<1>10. ASSUME x # 0 PROVE v + 1 \in 1..n /\ ~ Divides(p[v + 1], x)
  <2>1. p[v] < n /\ x % p[v + 1] # 0
    BY <1>1, <1>6, <1>9, <1>10
  <2>2. v # n
    BY <1>1, <1>6, <2>1
  <2>3. v + 1 \in 0..n /\ v + 1 \in 1..n
    BY <1>6, <2>2
  <2>4. p[v + 1] \in Nat \ {0} /\ x \in Nat
    BY <1>1, <2>3
  <2> QED
    BY <2>1, <2>3, <2>4, DividesRemainder
<1>11. ASSUME x = 0 PROVE p[v] >= n
  <2> SUFFICES ASSUME v # n PROVE p[v] >= n
    BY <1>1, <1>6
  <2>1. v + 1 \in 0..n
    BY <1>6
  <2>2. PICK m \in Nat \ {0} : m = p[v + 1] /\ 0 \in 0..(m - 1)
    BY <1>1, <2>1
  <2>3. x % m = 0
    BY <1>11, <2>2, RemainderSmall
  <2> QED
    BY <1>6, <2>2, <2>3
<1>12. x = 0 <=> p[v] >= n
  <2>1. p[v] \in Nat
    BY <1>1, <1>6
  <2> QED
    BY <1>9, <1>11, <2>1
<1>13. QED
  BY <1>5, <1>6, <1>8, <1>10, <1>12 DEF p

LEMMA ReachedUnique ==
  ASSUME NEW n \in Nat \ {0, 1}, NEW k \in Nat \ {0, 1}, NEW x \in 1..(n - 1),
         NEW j \in 0..(n - 1), Divides(Strides(n, k)[j], x),
         ~ Divides(Strides(n, k)[j + 1], x)
  PROVE  Reached(n, k, x) = j
<1> DEFINE p == Strides(n, k)
<1>1. PICK v : v = Reached(n, k, x)
  OBVIOUS
<1>2. /\ v \in 0..n /\ v + 1 \in 1..n
      /\ \A h \in 0..v : Divides(p[h], x)
      /\ ~ Divides(p[v + 1], x)
  <2>1. x \in 0..(n - 1) /\ x # 0
    OBVIOUS
  <2> QED
    BY <1>1, <2>1, ReachedIs
<1>3. \A h \in 0..n : p[h] \in Nat
  BY StridesGrow
<1>4. \A h \in 0..n : \A i \in h..n : Divides(p[h], p[i])
  BY StridesDivide
<1> HIDE DEF p
<1>5. ~ (j < v)
  <2> SUFFICES ASSUME j < v PROVE FALSE
    OBVIOUS
  <2>1. j + 1 \in 0..v
    BY <1>2
  <2> QED
    BY <1>2, <2>1 DEF p
<1>6. ~ (v < j)
  <2> SUFFICES ASSUME v < j PROVE FALSE
    OBVIOUS
  <2>1. v + 1 \in 0..n /\ j \in (v + 1)..n /\ j \in 0..n
    BY <1>2
  <2>2. PICK a \in Nat, b \in Nat, c \in Nat : a = p[v + 1] /\ b = p[j] /\ c = x
    BY <1>3, <2>1
  <2>3. Divides(a, b) /\ Divides(b, c)
    BY <1>4, <2>1, <2>2 DEF p
  <2>4. Divides(a, c)
    BY <2>3, DividesFurther
  <2> QED
    BY <1>2, <2>2, <2>4
<1>7. QED
  BY <1>1, <1>2, <1>5, <1>6

(***************************************************************************)
(* The tree.  A rank other than 0 goes up by what the next stride leaves   *)
(* of it, to a rank that is reached later; and what a rank adds to itself  *)
(* in a turn before its own leads to the ranks that go up to it.           *)
(***************************************************************************)
LEMMA GoesUp ==
  ASSUME NEW n \in Nat \ {0, 1}, NEW k \in Nat \ {0, 1}, NEW x \in 1..(n - 1)
  PROVE  LET p == Strides(n, k)
             v == Reached(n, k, x)
             y == x - (x % p[v + 1])
         IN  /\ v + 1 \in 1..n
             /\ y \in 0..(n - 1)
             /\ v + 1 <= Reached(n, k, y)
             /\ \E i \in 1..(k - 1) : x = y + i * p[v]
<1>1. PICK v : v = Reached(n, k, x)
  OBVIOUS
<1>2. /\ v \in 0..n /\ v + 1 \in 1..n
      /\ Divides(Strides(n, k)[v], x) /\ ~ Divides(Strides(n, k)[v + 1], x)
  <2>1. x \in 0..(n - 1) /\ x # 0
    OBVIOUS
  <2>2. v \in 0..n /\ v \in 0..v
    BY <1>1, <2>1, ReachedIs
  <2> QED
    BY <1>1, <2>1, <2>2, ReachedIs
<1>3. PICK a \in Nat \ {0}, b \in Nat \ {0} :
        a = Strides(n, k)[v] /\ b = Strides(n, k)[v + 1] /\ b = k * a
  <2>1. v \in 0..(n - 1)
    BY <1>2
  <2> QED
    BY <2>1, StridesNext
<1>4. PICK q \in Nat, d \in 0..(b - 1) : x = q * b + d /\ d = x % b
  <2>1. PICK d \in 0..(b - 1) : d = x % b
    BY Remainder
  <2>2. \E q \in Nat : x = q * b + (x % b)
    <3>1. x \in Nat
      OBVIOUS
    <3> QED
      BY <3>1, Remainder, Zenon
  <2>3. PICK q \in Nat : x = q * b + (x % b)
    BY <2>2
  <2>4. x = q * b + d
    BY <2>1, <2>3
  <2> QED
    BY <2>1, <2>4
<1>5. d # 0
  <2> SUFFICES ASSUME d = 0 PROVE FALSE
    OBVIOUS
  <2>1. x = q * b
    BY <1>4
  <2> QED
    BY <1>2, <1>3, <2>1 DEF Divides
<1>6. PICK h \in Nat : x = h * a
  BY <1>2, <1>3 DEF Divides
<1>7. PICK g \in Nat : g = q * k
  OBVIOUS
<1>8. q * b = g * a
  BY <1>3, <1>7
<1>9. PICK ga \in Nat, ha \in Nat : ga = g * a /\ ha = h * a /\ x = ha /\ x = ga + d
  BY <1>4, <1>6, <1>8
<1>10. g < h
  <2> SUFFICES ASSUME h <= g PROVE FALSE
    OBVIOUS
  <2>1. h * a <= g * a
    BY TimesMonotonic
  <2> QED
    BY <1>5, <1>9, <2>1
<1>11. PICK i \in Nat \ {0} : i = h - g
  BY <1>10
<1>12. d = i * a
  <2>1. h = g + i
    BY <1>11
  <2>2. (g + i) * a = g * a + i * a
    OBVIOUS
  <2>3. PICK ia \in Nat : ia = i * a
    OBVIOUS
  <2> QED
    BY <1>9, <2>1, <2>2, <2>3
<1>13. i < k
  <2> SUFFICES ASSUME k <= i PROVE FALSE
    OBVIOUS
  <2>1. k * a <= i * a
    BY TimesMonotonic
  <2> QED
    BY <1>3, <1>12, <2>1
<1>14. PICK y : y = x - d
  OBVIOUS
<1>15. y = q * b /\ y \in 0..(n - 1) /\ x = y + i * a
  <2>1. PICK qb \in Nat : qb = q * b
    OBVIOUS
  <2>2. x = qb + d
    BY <1>4, <2>1
  <2> QED
    BY <1>12, <1>14, <2>1, <2>2
<1>16. v + 1 <= Reached(n, k, y)
  <2>1. PICK w : w = Reached(n, k, y)
    OBVIOUS
  <2>2. /\ w \in 0..n
        /\ y = 0 <=> Strides(n, k)[w] >= n
        /\ y # 0 => w + 1 \in 1..n /\ ~ Divides(Strides(n, k)[w + 1], y)
    BY <1>15, <2>1, ReachedIs
  <2> SUFFICES ASSUME w <= v PROVE FALSE
    BY <1>2, <2>1, <2>2
  <2>3. Strides(n, k)[w] <= Strides(n, k)[v]
    <3>1. v \in w..n
      BY <1>2, <2>2
    <3> QED
      BY <2>2, <3>1, StridesDivide
  <2>4. a <= x
    <3>1. h # 0
      BY <1>10
    <3>2. 1 * a <= h * a
      BY <3>1, TimesMonotonic
    <3> QED
      BY <1>9, <3>2
  <2>5. ~ (Strides(n, k)[w] >= n)
    <3>1. Strides(n, k)[w] \in Nat
      BY <2>2, StridesGrow
    <3> QED
      BY <1>3, <2>3, <2>4, <3>1
  <2>6. y # 0 /\ ~ Divides(Strides(n, k)[w + 1], y)
    BY <2>2, <2>5
  <2>7. w + 1 \in 0..n /\ v + 1 \in (w + 1)..n
    BY <1>2, <2>2
  <2>8. Divides(Strides(n, k)[w + 1], Strides(n, k)[v + 1])
    BY <2>7, StridesDivide
  <2>9. PICK c \in Nat : c = Strides(n, k)[w + 1]
    BY <2>7, StridesGrow
  <2>10. Divides(b, y)
    BY <1>15 DEF Divides
  <2>11. Divides(c, y)
    BY <1>3, <1>15, <2>8, <2>9, <2>10, DividesFurther
  <2> QED
    BY <2>6, <2>9, <2>11
<1>17. i \in 1..(k - 1)
  BY <1>13
<1>18. y = x - (x % Strides(n, k)[v + 1])
  BY <1>3, <1>4, <1>14
<1>19. \E j \in 1..(k - 1) : x = y + j * Strides(n, k)[v]
  BY <1>3, <1>15, <1>17
<1>20. QED
  BY <1>1, <1>2, <1>15, <1>16, <1>18, <1>19

LEMMA GoesDown ==
  ASSUME NEW n \in Nat \ {0, 1}, NEW k \in Nat \ {0, 1}, NEW y \in 0..(n - 1),
         NEW j \in 1..Reached(n, k, y), NEW i \in 1..(k - 1),
         y + i * Strides(n, k)[j - 1] < n
  PROVE  LET p == Strides(n, k)
             x == y + i * p[j - 1]
         IN  /\ j \in 1..n
             /\ x \in 1..(n - 1) /\ y < x
             /\ Reached(n, k, x) = j - 1
             /\ x % p[j] = i * p[j - 1]
<1>1. /\ Reached(n, k, y) \in 0..n
      /\ \A h \in 0..Reached(n, k, y) : Divides(Strides(n, k)[h], y)
  BY ReachedIs
<1>2. j - 1 \in 0..(n - 1) /\ j - 1 + 1 = j /\ j \in 0..Reached(n, k, y)
  BY <1>1
<1>3. PICK a \in Nat \ {0}, b \in Nat \ {0} :
        a = Strides(n, k)[j - 1] /\ b = Strides(n, k)[j] /\ b = k * a
  <2>1. PICK h \in 0..(n - 1) : h = j - 1 /\ h + 1 = j
    BY <1>2
  <2>2. /\ Strides(n, k)[h] \in Nat \ {0} /\ Strides(n, k)[h + 1] \in Nat \ {0}
        /\ Strides(n, k)[h + 1] = k * Strides(n, k)[h]
    BY StridesNext
  <2> QED
    BY <2>1, <2>2
<1>4. PICK q \in Nat : y = q * b
  BY <1>1, <1>2, <1>3 DEF Divides
<1>5. PICK d \in Nat : d = i * a
  OBVIOUS
<1>6. 0 < d /\ d < b
  <2>1. 1 * a <= i * a
    BY TimesMonotonic
  <2>2. i * a + a <= k * a
    BY TimesCancels
  <2> QED
    BY <1>3, <1>5, <2>1, <2>2
<1>7. PICK x : x = y + d
  OBVIOUS
<1>8. x \in 1..(n - 1) /\ y < x
  BY <1>3, <1>5, <1>6, <1>7
<1>9. x % b = d
  <2>1. d \in 0..(b - 1)
    BY <1>6
  <2>2. (q * b + d) % b = d
    BY <2>1, RemainderIs
  <2> QED
    BY <1>4, <1>7, <2>2
<1>10. ~ Divides(b, x)
  BY <1>6, <1>8, <1>9, DividesRemainder
<1>11. Divides(a, x)
  <2>1. Divides(a, d)
    BY <1>5 DEF Divides
  <2>2. Divides(a, b)
    BY <1>3 DEF Divides
  <2>3. Divides(b, y)
    BY <1>4 DEF Divides
  <2>4. Divides(a, y)
    BY <2>2, <2>3, DividesFurther
  <2> QED
    BY <1>7, <2>1, <2>4, DividesSum
<1>12. Reached(n, k, x) = j - 1
  <2>1. PICK h \in 0..(n - 1) : h = j - 1 /\ h + 1 = j
    BY <1>2
  <2>2. Divides(Strides(n, k)[h], x) /\ ~ Divides(Strides(n, k)[h + 1], x)
    BY <1>3, <1>10, <1>11, <2>1
  <2> QED
    BY <1>8, <2>1, <2>2, ReachedUnique
<1>13. QED
  BY <1>1, <1>3, <1>5, <1>7, <1>8, <1>9, <1>12

-----------------------------------------------------------------------------
(***************************************************************************)
(* What the module Collectives relies on in the steps s of rank r: it      *)
(* receives from the ranks of "from" and sends to those of "to", once each *)
(* and never itself, and waits for each receive and each send.             *)
(***************************************************************************)
Parts == {"barrier", "bcast", "reduce", "gather", "scatter", "alltoall"}

StepSet(n) ==
  [do : {"post", "await", "start", "finish"}, peer : 0..(n - 1), of : Parts]

Exchange(n, r, s, from, to) ==
  /\ s \in Seq(StepSet(n))
  /\ Once(s)
  /\ Then(s, "post", "await")
  /\ Then(s, "start", "finish")
  /\ \A p : /\ Has(s, "post", p) <=> p \in from
            /\ Has(s, "await", p) <=> p \in from
            /\ Has(s, "start", p) <=> p \in to
            /\ Has(s, "finish", p) <=> p \in to
  /\ from \subseteq (0..(n - 1)) \ {r}
  /\ to \subseteq (0..(n - 1)) \ {r}

LEMMA FourKinds ==
  ASSUME NEW n, NEW s \in Seq(StepSet(n)), NEW a, NEW p, Has(s, a, p)
  PROVE  a = "post" \/ a = "await" \/ a = "start" \/ a = "finish"
<1>1. PICK i \in 1..Len(s) : s[i].do = a
  BY DEF Has
<1>2. s[i] \in StepSet(n)
  BY ElementOfSeq
<1>3. s[i].do \in {"post", "await", "start", "finish"}
  BY <1>2 DEF StepSet
<1>4. QED
  BY <1>1, <1>3

LEMMA ExchangeConcat ==
  ASSUME NEW n, NEW r, NEW s, NEW t, NEW f, NEW g, NEW u, NEW v,
         Exchange(n, r, s, f, g), Exchange(n, r, t, u, v),
         f \cap u = {}, g \cap v = {}
  PROVE  Exchange(n, r, s \o t, f \cup u, g \cup v)
<1>1. s \in Seq(StepSet(n)) /\ t \in Seq(StepSet(n))
  BY DEF Exchange
<1>2. PICK D : D = StepSet(n)
  OBVIOUS
<1>3. s \o t \in Seq(D)
  BY <1>1, <1>2, ConcatProperties
<1>4. \A a, p : Has(s \o t, a, p) <=> Has(s, a, p) \/ Has(t, a, p)
  BY <1>1, HasConcat
<1>5. \A a, p : ~ (Has(s, a, p) /\ Has(t, a, p))
  <2> SUFFICES ASSUME NEW a, NEW p, Has(s, a, p), Has(t, a, p) PROVE FALSE
    OBVIOUS
  <2>1. a = "post" \/ a = "await" \/ a = "start" \/ a = "finish"
    BY <1>1, FourKinds
  <2> QED
    BY <2>1 DEF Exchange
<1>6. Once(s \o t)
  BY <1>1, <1>5, OnceConcat DEF Exchange
<1>7. Then(s \o t, "post", "await") /\ Then(s \o t, "start", "finish")
  BY <1>1, ThenConcat DEF Exchange
<1>8. PICK w : w = s \o t
  OBVIOUS
<1>9. \A p : /\ Has(w, "post", p) <=> p \in f \cup u
             /\ Has(w, "await", p) <=> p \in f \cup u
             /\ Has(w, "start", p) <=> p \in g \cup v
             /\ Has(w, "finish", p) <=> p \in g \cup v
  BY <1>4, <1>8 DEF Exchange
<1>10. /\ f \cup u \subseteq (0..(n - 1)) \ {r}
       /\ g \cup v \subseteq (0..(n - 1)) \ {r}
  BY DEF Exchange
<1>11. QED
  BY <1>2, <1>3, <1>6, <1>7, <1>8, <1>9, <1>10 DEF Exchange

LEMMA ExchangeEmpty ==
  ASSUME NEW n, NEW r
  PROVE  Exchange(n, r, << >>, {}, {})
  BY Nothing0 DEF Exchange

LEMMA SendExchange ==
  ASSUME NEW n, NEW r, NEW p \in 0..(n - 1), p # r, NEW of \in Parts
  PROVE  Exchange(n, r, Send(p, of), {}, {p})
<1>1. PICK x, y : x = StepOf("start", p, of) /\ y = StepOf("finish", p, of)
  OBVIOUS
<1>2. /\ x \in StepSet(n) /\ y \in StepSet(n) /\ x.do = "start" /\ y.do = "finish"
      /\ x.peer = p /\ y.peer = p
  <2>1. x \in StepSet(n) /\ x.do = "start" /\ x.peer = p
    BY <1>1 DEF StepOf, StepSet
  <2>2. y \in StepSet(n) /\ y.do = "finish" /\ y.peer = p
    BY <1>1 DEF StepOf, StepSet
  <2> QED
    BY <2>1, <2>2
<1>3. Send(p, of) = <<x, y>>
  BY <1>1 DEF Send, Start, Finish
<1>4. PICK s : s = <<x, y>>
  OBVIOUS
<1>5. /\ s \in Seq(StepSet(n)) /\ Once(s)
      /\ \A a, q : Has(s, a, q) <=> \/ x.do = a /\ x.peer = q
                                    \/ y.do = a /\ y.peer = q
  BY <1>2, <1>4, TwoSteps
<1>6. Then(s, "post", "await")
  BY <1>2, <1>4, TwoSteps
<1>7. Then(s, "start", "finish")
  BY <1>2, <1>4, TwoSteps
<1>8. \A q : /\ Has(s, "post", q) <=> q \in {}
             /\ Has(s, "await", q) <=> q \in {}
             /\ Has(s, "start", q) <=> q \in {p}
             /\ Has(s, "finish", q) <=> q \in {p}
  BY <1>2, <1>5
<1>9. QED
  BY <1>3, <1>4, <1>5, <1>6, <1>7, <1>8 DEF Exchange

LEMMA RecvExchange ==
  ASSUME NEW n, NEW r, NEW p \in 0..(n - 1), p # r, NEW of \in Parts
  PROVE  Exchange(n, r, Recv(p, of), {p}, {})
<1>1. PICK x, y : x = StepOf("post", p, of) /\ y = StepOf("await", p, of)
  OBVIOUS
<1>2. /\ x \in StepSet(n) /\ y \in StepSet(n) /\ x.do = "post" /\ y.do = "await"
      /\ x.peer = p /\ y.peer = p
  <2>1. x \in StepSet(n) /\ x.do = "post" /\ x.peer = p
    BY <1>1 DEF StepOf, StepSet
  <2>2. y \in StepSet(n) /\ y.do = "await" /\ y.peer = p
    BY <1>1 DEF StepOf, StepSet
  <2> QED
    BY <2>1, <2>2
<1>3. Recv(p, of) = <<x, y>>
  BY <1>1 DEF Recv, Post, Await
<1>4. PICK s : s = <<x, y>>
  OBVIOUS
<1>5. /\ s \in Seq(StepSet(n)) /\ Once(s)
      /\ \A a, q : Has(s, a, q) <=> \/ x.do = a /\ x.peer = q
                                    \/ y.do = a /\ y.peer = q
  BY <1>2, <1>4, TwoSteps
<1>6. Then(s, "start", "finish")
  BY <1>2, <1>4, TwoSteps
<1>7. Then(s, "post", "await")
  BY <1>2, <1>4, TwoSteps
<1>8. \A q : /\ Has(s, "post", q) <=> q \in {p}
             /\ Has(s, "await", q) <=> q \in {p}
             /\ Has(s, "start", q) <=> q \in {}
             /\ Has(s, "finish", q) <=> q \in {}
  BY <1>2, <1>5
<1>9. QED
  BY <1>3, <1>4, <1>5, <1>6, <1>7, <1>8 DEF Exchange

(***************************************************************************)
(* One turn of the barrier.                                                *)
(***************************************************************************)
LEMMA SendRecvExchange ==
  ASSUME NEW n, NEW r, NEW dst \in 0..(n - 1), dst # r, NEW src \in 0..(n - 1), src # r,
         NEW of \in Parts
  PROVE  Exchange(n, r, SendRecv(dst, src, of), {src}, {dst})
<1>1. PICK w, x, y, z : /\ w = StepOf("post", src, of) /\ x = StepOf("start", dst, of)
                        /\ y = StepOf("finish", dst, of) /\ z = StepOf("await", src, of)
  OBVIOUS
<1>2. /\ {w, x, y, z} \subseteq StepSet(n)
      /\ w.do = "post" /\ x.do = "start" /\ y.do = "finish" /\ z.do = "await"
      /\ w.peer = src /\ x.peer = dst /\ y.peer = dst /\ z.peer = src
  <2>1. w \in StepSet(n) /\ w.do = "post" /\ w.peer = src
    BY <1>1 DEF StepOf, StepSet
  <2>2. x \in StepSet(n) /\ x.do = "start" /\ x.peer = dst
    BY <1>1 DEF StepOf, StepSet
  <2>3. y \in StepSet(n) /\ y.do = "finish" /\ y.peer = dst
    BY <1>1 DEF StepOf, StepSet
  <2>4. z \in StepSet(n) /\ z.do = "await" /\ z.peer = src
    BY <1>1 DEF StepOf, StepSet
  <2> QED
    BY <2>1, <2>2, <2>3, <2>4
<1>3. PICK s : s = <<w, x, y, z>>
  OBVIOUS
<1>4. SendRecv(dst, src, of) = s
  BY <1>1, <1>3 DEF SendRecv, Post, Start, Finish, Await
<1>5. /\ s \in Seq(StepSet(n)) /\ Len(s) = 4
      /\ s[1] = w /\ s[2] = x /\ s[3] = y /\ s[4] = z
  BY <1>2, <1>3
<1>6. \A i : i \in 1..4 <=> i = 1 \/ i = 2 \/ i = 3 \/ i = 4
  OBVIOUS
<1>7. \A q : /\ Has(s, "post", q) <=> q \in {src}
             /\ Has(s, "await", q) <=> q \in {src}
             /\ Has(s, "start", q) <=> q \in {dst}
             /\ Has(s, "finish", q) <=> q \in {dst}
  <2>1. \A a, q : Has(s, a, q) <=> \/ s[1].do = a /\ s[1].peer = q
                                   \/ s[2].do = a /\ s[2].peer = q
                                   \/ s[3].do = a /\ s[3].peer = q
                                   \/ s[4].do = a /\ s[4].peer = q
    BY <1>5, <1>6 DEF Has
  <2> QED
    BY <1>2, <1>5, <2>1
<1>8. Once(s)
  BY <1>2, <1>5, <1>6 DEF Once
<1>9. Then(s, "post", "await")
  BY <1>2, <1>5, <1>6 DEF Then
<1>10. Then(s, "start", "finish")
  BY <1>2, <1>5, <1>6 DEF Then
<1>11. QED
  BY <1>4, <1>5, <1>7, <1>8, <1>9, <1>10 DEF Exchange

(***************************************************************************)
(* A loop whose turns have no peer in common.                              *)
(***************************************************************************)
IsLoop(n, r, ss, l, f, g) ==
  /\ ss = [i \in 1..l |-> ss[i]]
  /\ \A i \in 1..l : Exchange(n, r, ss[i], f[i], g[i])
  /\ \A h, i \in 1..l :
       (\E p : (p \in f[h] /\ p \in f[i]) \/ (p \in g[h] /\ p \in g[i])) => h = i

Collects(F, f, l) == \A p : p \in F <=> \E i \in 1..l : p \in f[i]

Singles(f, l) == \A i \in 1..l : \A p, q \in f[i] : p = q

LEMMA ExchangeFlatten ==
  ASSUME NEW n, NEW r, NEW ss, NEW l \in Nat, NEW f, NEW g, NEW F, NEW G,
         IsLoop(n, r, ss, l, f, g), Collects(F, f, l), Collects(G, g, l)
  PROVE  Exchange(n, r, FlattenSeq(ss), F, G)
<1>0. \A h, i \in 1..l :
       (\E p : (p \in f[h] /\ p \in f[i]) \/ (p \in g[h] /\ p \in g[i])) => h = i
  BY DEF IsLoop
<1> USE DEF IsLoop, Collects
<1>1. PICK D : D = StepSet(n)
  OBVIOUS
<1>2. \A i \in 1..l : ss[i] \in Seq(D)
  BY <1>1 DEF Exchange
<1>3. ss \in Seq(Seq(D)) /\ Len(ss) = l
  BY <1>2
<1>4. PICK s : s = FlattenSeq(ss)
  OBVIOUS
<1>5. s \in Seq(D)
  BY <1>3, <1>4, FlattenPlaces
<1>6. \A a, p : Has(s, a, p) <=> \E i \in 1..l : Has(ss[i], a, p)
  BY <1>3, <1>4, HasFlatten
<1>7. Once(s)
  <2>1. \A i \in 1..Len(ss) : Once(ss[i])
    BY <1>3 DEF Exchange
  <2>2. ASSUME NEW h \in 1..l, NEW i \in 1..l, NEW a, NEW p,
               Has(ss[h], a, p), Has(ss[i], a, p)
        PROVE  h = i
    <3>1. a = "post" \/ a = "await" \/ a = "start" \/ a = "finish"
      BY <1>1, <1>2, <2>2, FourKinds
    <3>2. (p \in f[h] /\ p \in f[i]) \/ (p \in g[h] /\ p \in g[i])
      BY <2>2, <3>1 DEF Exchange
    <3> QED
      BY <1>0, <3>2
  <2> QED
    BY <1>3, <1>4, <2>1, <2>2, OnceFlatten
<1>8. Then(s, "post", "await")
  <2>1. \A i \in 1..Len(ss) : Then(ss[i], "post", "await")
    BY <1>3 DEF Exchange
  <2> QED
    BY <1>3, <1>4, <2>1, ThenFlatten
<1>9. Then(s, "start", "finish")
  <2>1. \A i \in 1..Len(ss) : Then(ss[i], "start", "finish")
    BY <1>3 DEF Exchange
  <2> QED
    BY <1>3, <1>4, <2>1, ThenFlatten
<1>10. \A i \in 1..l : f[i] \subseteq (0..(n - 1)) \ {r} /\ g[i] \subseteq (0..(n - 1)) \ {r}
  BY DEF Exchange
<1>11. F \subseteq (0..(n - 1)) \ {r} /\ G \subseteq (0..(n - 1)) \ {r}
  BY <1>10
<1>12. \A p : /\ Has(s, "post", p) <=> p \in F
              /\ Has(s, "await", p) <=> p \in F
              /\ Has(s, "start", p) <=> p \in G
              /\ Has(s, "finish", p) <=> p \in G
  <2>1. \A i \in 1..l : \A p : /\ Has(ss[i], "post", p) <=> p \in f[i]
                               /\ Has(ss[i], "await", p) <=> p \in f[i]
                               /\ Has(ss[i], "start", p) <=> p \in g[i]
                               /\ Has(ss[i], "finish", p) <=> p \in g[i]
    BY DEF Exchange
  <2> QED
    BY <1>6, <2>1
<1>13. QED
  BY <1>1, <1>4, <1>5, <1>7, <1>8, <1>9, <1>11, <1>12 DEF Exchange

(***************************************************************************)
(* A loop that takes one step of a kind, with a different peer each time,  *)
(* in some of its turns.                                                   *)
(***************************************************************************)
OneKind(n, s, do, peers) ==
  /\ s \in Seq(StepSet(n))
  /\ Once(s)
  /\ \A a, p : Has(s, a, p) <=> a = do /\ p \in peers

IsChoice(n, ss, l, do, of, e, A) ==
  /\ do \in {"post", "await", "start", "finish"}
  /\ of \in Parts
  /\ A \in SUBSET (1..l)
  /\ ss = [i \in 1..l |-> IF i \in A THEN <<StepOf(do, e[i], of)>> ELSE << >>]
  /\ \A i \in A : e[i] \in 0..(n - 1)
  /\ \A h, i \in A : e[h] = e[i] => h = i

Chosen(Q, e, A) == \A p : p \in Q <=> \E i \in A : p = e[i]

LEMMA KindFlatten ==
  ASSUME NEW n, NEW l \in Nat, NEW do, NEW of, NEW e, NEW A, NEW ss, NEW Q,
         IsChoice(n, ss, l, do, of, e, A), Chosen(Q, e, A)
  PROVE  OneKind(n, FlattenSeq(ss), do, Q)
<1> USE DEF IsChoice
<1>1. PICK D : D = StepSet(n)
  OBVIOUS
<1>2. ASSUME NEW i \in 1..l
      PROVE  /\ ss[i] \in Seq(D) /\ Once(ss[i])
             /\ \A a, p : Has(ss[i], a, p) <=> i \in A /\ a = do /\ p = e[i]
  <2>1. CASE i \in A
    <3>1. PICK x : x = StepOf(do, e[i], of)
      OBVIOUS
    <3>2. x \in D /\ x.do = do /\ x.peer = e[i]
      BY <1>1, <2>1, <3>1 DEF StepOf, StepSet
    <3>3. ss[i] = <<x>>
      BY <2>1, <3>1
    <3> QED
      BY <2>1, <3>2, <3>3, OneStep
  <2>2. CASE i \notin A
    <3>1. ss[i] = << >>
      BY <2>2
    <3> QED
      BY <2>2, <3>1, Nothing0
  <2> QED
    BY <2>1, <2>2
<1>3. ss \in Seq(Seq(D)) /\ Len(ss) = l
  BY <1>2
<1>4. PICK s : s = FlattenSeq(ss)
  OBVIOUS
<1>5. s \in Seq(D)
  BY <1>3, <1>4, FlattenPlaces
<1>6. \A a, p : Has(s, a, p) <=> \E i \in 1..l : Has(ss[i], a, p)
  BY <1>3, <1>4, HasFlatten
<1>7. Once(s)
  <2>1. \A i \in 1..Len(ss) : Once(ss[i])
    BY <1>2, <1>3
  <2>2. ASSUME NEW h \in 1..l, NEW i \in 1..l, NEW a, NEW p,
               Has(ss[h], a, p), Has(ss[i], a, p)
        PROVE  h = i
    <3>1. h \in A /\ i \in A /\ e[h] = e[i]
      BY <1>2, <2>2
    <3> QED
      BY <3>1
  <2> QED
    BY <1>3, <1>4, <2>1, <2>2, OnceFlatten
<1>8. \A p : p \in Q <=> \E i \in A : p = e[i]
  BY DEF Chosen
<1>9. \A a, p : Has(s, a, p) <=> a = do /\ p \in Q
  <2> SUFFICES ASSUME NEW a, NEW p PROVE Has(s, a, p) <=> a = do /\ p \in Q
    OBVIOUS
  <2>1. \A i \in 1..l : Has(ss[i], a, p) <=> i \in A /\ a = do /\ p = e[i]
    BY <1>2
  <2>2. Has(s, a, p) <=> \E i \in 1..l : i \in A /\ a = do /\ p = e[i]
    BY <1>6, <2>1
  <2> QED
    BY <1>8, <2>2
<1>10. QED
  BY <1>1, <1>4, <1>5, <1>7, <1>9 DEF OneKind

(***************************************************************************)
(* All receives are posted and then awaited; all sends are started and     *)
(* then finished; or the receives are posted and the sends started, and    *)
(* then all are waited for.                                                *)
(***************************************************************************)
LEMMA KindFollows ==
  ASSUME NEW n, NEW x, NEW y, NEW P, NEW Q, NEW c, NEW d,
         OneKind(n, x, c, P), OneKind(n, y, d, Q), c # d
  PROVE  /\ x \o y \in Seq(StepSet(n))
         /\ Once(x \o y)
         /\ \A a, p : Has(x \o y, a, p) <=> (a = c /\ p \in P) \/ (a = d /\ p \in Q)
         /\ \A a, b : a \notin {c, d} => Then(x \o y, a, b)
         /\ P = Q => Then(x \o y, c, d)
<1>1. /\ x \in Seq(StepSet(n)) /\ Once(x) /\ \A a, p : Has(x, a, p) <=> a = c /\ p \in P
      /\ y \in Seq(StepSet(n)) /\ Once(y) /\ \A a, p : Has(y, a, p) <=> a = d /\ p \in Q
  BY DEF OneKind
<1>2. PICK D : D = StepSet(n)
  OBVIOUS
<1>3. x \in Seq(D) /\ y \in Seq(D)
  BY <1>1, <1>2
<1>4. x \o y \in Seq(D)
  BY <1>3, ConcatProperties
<1>5. \A a, p : Has(x \o y, a, p) <=> Has(x, a, p) \/ Has(y, a, p)
  BY <1>3, HasConcat
<1>6. Once(x \o y)
  BY <1>1, <1>3, OnceConcat
<1>7. ASSUME NEW a, NEW b, a # d
      PROVE  Then(y, a, b)
  <2>1. \A i \in 1..Len(y) : y[i].do # a
    BY <1>1, <1>7 DEF Has
  <2> QED
    BY <2>1 DEF Then
<1>8. ASSUME NEW a, NEW b, a # c
      PROVE  Then(x, a, b)
  <2>1. \A i \in 1..Len(x) : x[i].do # a
    BY <1>1, <1>8 DEF Has
  <2> QED
    BY <2>1 DEF Then
<1>9. \A a, b : a \notin {c, d} => Then(x \o y, a, b)
  BY <1>3, <1>7, <1>8, ThenConcat
<1>10. P = Q => Then(x \o y, c, d)
  <2> SUFFICES ASSUME P = Q PROVE Then(x \o y, c, d)
    OBVIOUS
  <2>1. Then(y, c, d)
    BY <1>7
  <2>2. \A p : Has(x, c, p) => Has(y, d, p)
    BY <1>1
  <2> QED
    BY <1>3, <2>1, <2>2, ThenConcat
<1>11. QED
  BY <1>1, <1>2, <1>4, <1>5, <1>6, <1>9, <1>10

LEMMA ReceivesExchange ==
  ASSUME NEW n, NEW r, NEW x, NEW y, NEW Q \in SUBSET ((0..(n - 1)) \ {r}),
         OneKind(n, x, "post", Q), OneKind(n, y, "await", Q)
  PROVE  Exchange(n, r, x \o y, Q, {})
<1>1. PICK s : s = x \o y
  OBVIOUS
<1>2. /\ s \in Seq(StepSet(n))
      /\ Once(s)
      /\ \A a, p : Has(s, a, p) <=> (a = "post" /\ p \in Q) \/ (a = "await" /\ p \in Q)
      /\ \A a, b : a \notin {"post", "await"} => Then(s, a, b)
      /\ Then(s, "post", "await")
  <2>1. "post" # "await"
    OBVIOUS
  <2> QED
    BY <1>1, <2>1, KindFollows
<1>3. Then(s, "start", "finish")
  BY <1>2
<1>4. \A p : /\ Has(s, "post", p) <=> p \in Q
             /\ Has(s, "await", p) <=> p \in Q
             /\ Has(s, "start", p) <=> p \in {}
             /\ Has(s, "finish", p) <=> p \in {}
  BY <1>2
<1>5. QED
  BY <1>1, <1>2, <1>3, <1>4 DEF Exchange

LEMMA SendsExchange ==
  ASSUME NEW n, NEW r, NEW x, NEW y, NEW Q \in SUBSET ((0..(n - 1)) \ {r}),
         OneKind(n, x, "start", Q), OneKind(n, y, "finish", Q)
  PROVE  Exchange(n, r, x \o y, {}, Q)
<1>1. PICK s : s = x \o y
  OBVIOUS
<1>2. /\ s \in Seq(StepSet(n))
      /\ Once(s)
      /\ \A a, p : Has(s, a, p) <=> (a = "start" /\ p \in Q) \/ (a = "finish" /\ p \in Q)
      /\ \A a, b : a \notin {"start", "finish"} => Then(s, a, b)
      /\ Then(s, "start", "finish")
  <2>1. "start" # "finish"
    OBVIOUS
  <2> QED
    BY <1>1, <2>1, KindFollows
<1>3. Then(s, "post", "await")
  BY <1>2
<1>4. \A p : /\ Has(s, "post", p) <=> p \in {}
             /\ Has(s, "await", p) <=> p \in {}
             /\ Has(s, "start", p) <=> p \in Q
             /\ Has(s, "finish", p) <=> p \in Q
  BY <1>2
<1>5. QED
  BY <1>1, <1>2, <1>3, <1>4 DEF Exchange

LEMMA BothExchange ==
  ASSUME NEW n, NEW r, NEW w, NEW x, NEW y, NEW z, NEW Q \in SUBSET ((0..(n - 1)) \ {r}),
         OneKind(n, w, "post", Q), OneKind(n, x, "start", Q),
         OneKind(n, y, "await", Q), OneKind(n, z, "finish", Q)
  PROVE  Exchange(n, r, w \o x \o y \o z, Q, Q)
<1>1. PICK s, t, u, v : s = w \o x /\ t = y \o z /\ u = s \o y /\ v = u \o z
  OBVIOUS
<1>2. PICK D : D = StepSet(n)
  OBVIOUS
<1>3. w \in Seq(D) /\ x \in Seq(D) /\ y \in Seq(D) /\ z \in Seq(D)
  BY <1>2 DEF OneKind
<1>4. /\ s \in Seq(D) /\ Once(s)
      /\ \A a, p : Has(s, a, p) <=> (a = "post" /\ p \in Q) \/ (a = "start" /\ p \in Q)
  <2>1. "post" # "start"
    OBVIOUS
  <2>2. s \in Seq(D) /\ Once(s)
    BY <1>1, <1>2, <2>1, KindFollows
  <2>3. \A a, p : Has(s, a, p) <=> (a = "post" /\ p \in Q) \/ (a = "start" /\ p \in Q)
    BY <1>1, <2>1, KindFollows
  <2> QED
    BY <2>2, <2>3
<1>5. /\ t \in Seq(D) /\ Once(t)
      /\ \A a, p : Has(t, a, p) <=> (a = "await" /\ p \in Q) \/ (a = "finish" /\ p \in Q)
      /\ \A a, b : a \notin {"await", "finish"} => Then(t, a, b)
  <2>1. "await" # "finish"
    OBVIOUS
  <2>2. t \in Seq(D) /\ Once(t)
    BY <1>1, <1>2, <2>1, KindFollows
  <2>3. \A a, p : Has(t, a, p) <=> (a = "await" /\ p \in Q) \/ (a = "finish" /\ p \in Q)
    BY <1>1, <2>1, KindFollows
  <2>4. \A a, b : a \notin {"await", "finish"} => Then(t, a, b)
    BY <1>1, <2>1, KindFollows
  <2> QED
    BY <2>2, <2>3, <2>4
<1>6. v = s \o t
  BY <1>1, <1>3, <1>4, SMTT(30)
<1>7. v \in Seq(D)
  BY <1>4, <1>5, <1>6, ConcatProperties
<1>8. \A a, p : Has(v, a, p) <=> Has(s, a, p) \/ Has(t, a, p)
  BY <1>4, <1>5, <1>6, HasConcat
<1>9. Once(v)
  <2>1. \A a, p : ~ (Has(s, a, p) /\ Has(t, a, p))
    BY <1>4, <1>5
  <2> QED
    BY <1>4, <1>5, <1>6, <2>1, OnceConcat
<1>10. Then(v, "post", "await")
  <2>1. \A p : Has(s, "post", p) => Has(t, "await", p)
    BY <1>4, <1>5
  <2>2. Then(t, "post", "await")
    BY <1>5
  <2> QED
    BY <1>4, <1>5, <1>6, <2>1, <2>2, ThenConcat
<1>11. Then(v, "start", "finish")
  <2>1. \A p : Has(s, "start", p) => Has(t, "finish", p)
    BY <1>4, <1>5
  <2>2. Then(t, "start", "finish")
    BY <1>5
  <2> QED
    BY <1>4, <1>5, <1>6, <2>1, <2>2, ThenConcat
<1>12. \A p : /\ Has(v, "post", p) <=> p \in Q
              /\ Has(v, "await", p) <=> p \in Q
              /\ Has(v, "start", p) <=> p \in Q
              /\ Has(v, "finish", p) <=> p \in Q
  BY <1>4, <1>5, <1>8
<1>13. QED
  BY <1>1, <1>2, <1>7, <1>9, <1>10, <1>11, <1>12 DEF Exchange

-----------------------------------------------------------------------------
(***************************************************************************)
(* Barrier.                                                                *)
(***************************************************************************)
Forward(n, r, d) == (r + d) % n
Backward(n, r, d) == (r - d + n) % n

LEMMA ForwardIs ==
  ASSUME NEW n \in Nat \ {0, 1}, NEW r \in 0..(n - 1), NEW d \in 0..(n - 1)
  PROVE  Forward(n, r, d) = IF r + d < n THEN r + d ELSE r + d - n
<1>1. PICK x \in 0..(2 * n - 1) : x = r + d
  OBVIOUS
<1>2. n \in Nat \ {0}
  OBVIOUS
<1>3. x % n = IF x < n THEN x ELSE x - n
  BY <1>2, Wraps, Zenon
<1>4. Forward(n, r, d) = x % n
  BY <1>1, Zenon DEF Forward
<1>5. PICK y : y = x % n
  OBVIOUS
<1>6. QED
  BY <1>1, <1>3, <1>4, <1>5

LEMMA BackwardIs ==
  ASSUME NEW n \in Nat \ {0, 1}, NEW r \in 0..(n - 1), NEW d \in 0..(n - 1)
  PROVE  Backward(n, r, d) = IF r < d THEN r - d + n ELSE r - d
<1>1. PICK x \in 0..(2 * n - 1) : x = r - d + n
  OBVIOUS
<1>2. n \in Nat \ {0}
  OBVIOUS
<1>3. x % n = IF x < n THEN x ELSE x - n
  BY <1>2, Wraps, Zenon
<1>4. Backward(n, r, d) = x % n
  BY <1>1, Zenon DEF Backward
<1>5. PICK y : y = x % n
  OBVIOUS
<1>6. y = IF x < n THEN x ELSE x - n
  BY <1>3, <1>5, Zenon
<1>7. Backward(n, r, d) = y
  BY <1>4, <1>5, Zenon
<1>8. QED
  BY <1>1, <1>6, <1>7

(***************************************************************************)
(* Going on by d from one rank leads to another, and back by d from there. *)
(***************************************************************************)
LEMMA ThereAndBack ==
  ASSUME NEW n \in Nat \ {0, 1}, NEW r \in 0..(n - 1), NEW d \in 1..(n - 1)
  PROVE  /\ Forward(n, r, d) \in 0..(n - 1) /\ Forward(n, r, d) # r
         /\ Backward(n, r, d) \in 0..(n - 1) /\ Backward(n, r, d) # r
         /\ \A s \in 0..(n - 1) : r = Forward(n, s, d) <=> s = Backward(n, r, d)
         /\ \A e \in 1..(n - 1) : \/ Forward(n, r, d) = Forward(n, r, e)
                                  \/ Backward(n, r, d) = Backward(n, r, e)
                                  => d = e
<1>1. \A s \in 0..(n - 1) : \A e \in 1..(n - 1) :
        /\ Forward(n, s, e) = IF s + e < n THEN s + e ELSE s + e - n
        /\ Backward(n, s, e) = IF s < e THEN s - e + n ELSE s - e
  BY ForwardIs, BackwardIs
<1>2. PICK x : x = Forward(n, r, d)
  OBVIOUS
<1>3. PICK y : y = Backward(n, r, d)
  OBVIOUS
<1>4. x = IF r + d < n THEN r + d ELSE r + d - n
  BY <1>1, <1>2
<1>5. y = IF r < d THEN r - d + n ELSE r - d
  BY <1>1, <1>3
<1>6. x \in 0..(n - 1) /\ x # r
  BY <1>4
<1>7. y \in 0..(n - 1) /\ y # r
  BY <1>5
<1>8. ASSUME NEW s \in 0..(n - 1)
      PROVE  r = Forward(n, s, d) <=> s = y
  <2>1. PICK z : z = Forward(n, s, d)
    OBVIOUS
  <2>2. z = IF s + d < n THEN s + d ELSE s + d - n
    BY <1>1, <2>1
  <2>3. r = z <=> s = y
    BY <1>5, <2>2
  <2> QED
    BY <2>1, <2>3
<1>9. ASSUME NEW e \in 1..(n - 1), x = Forward(n, r, e) \/ y = Backward(n, r, e)
      PROVE  d = e
  <2>1. PICK u, v : u = Forward(n, r, e) /\ v = Backward(n, r, e)
    OBVIOUS
  <2>2. u = IF r + e < n THEN r + e ELSE r + e - n
    BY <1>1, <2>1
  <2>3. v = IF r < e THEN r - e + n ELSE r - e
    BY <1>1, <2>1
  <2>4. x = u \/ y = v
    BY <1>9, <2>1
  <2> QED
    BY <1>4, <1>5, <2>2, <2>3, <2>4
<1>10. QED
  BY <1>2, <1>3, <1>6, <1>7, <1>8, <1>9

LEMMA StrideOfTurn ==
  ASSUME NEW n \in Nat \ {0, 1}, NEW k \in Nat \ {0, 1}
  PROVE  /\ \A j \in 0..(Turns(n, k) - 1) : Strides(n, k)[j] \in 1..(n - 1)
         /\ \A h, i \in 0..(Turns(n, k) - 1) :
              h < i => Strides(n, k)[h] < Strides(n, k)[i]
<1>1. PICK t \in 1..n : t = Turns(n, k)
  BY TurnsAre
<1>2. \A j \in 0..(t - 1) : Strides(n, k)[j] < n
  BY <1>1, TurnsAre
<1>3. \A j \in 0..n : Strides(n, k)[j] \in Nat /\ Strides(n, k)[j] >= j + 1
  BY StridesGrow
<1>4. \A j \in 0..(t - 1) : Strides(n, k)[j] \in 1..(n - 1)
  <2> SUFFICES ASSUME NEW j \in 0..(t - 1) PROVE Strides(n, k)[j] \in 1..(n - 1)
    OBVIOUS
  <2>1. j \in 0..n
    OBVIOUS
  <2> QED
    BY <1>2, <1>3, <2>1
<1>5. ASSUME NEW h \in 0..(t - 1), NEW i \in 0..(t - 1), h < i
      PROVE  Strides(n, k)[h] < Strides(n, k)[i]
  <2>1. h \in 0..(n - 1) /\ h + 1 \in 0..n /\ i \in (h + 1)..n /\ i \in 0..n
    BY <1>5
  <2>2. Strides(n, k)[h] < Strides(n, k)[h + 1]
    BY <2>1, StridesNext
  <2>3. Strides(n, k)[h + 1] <= Strides(n, k)[i]
    BY <2>1, StridesDivide
  <2>4. /\ Strides(n, k)[h] \in Nat /\ Strides(n, k)[h + 1] \in Nat
        /\ Strides(n, k)[i] \in Nat
    BY <1>3, <2>1
  <2> QED
    BY <2>2, <2>3, <2>4
<1>6. QED
  BY <1>1, <1>4, <1>5

(***************************************************************************)
(* Barrier.                                                                *)
(***************************************************************************)
BarrierFrom(n, r) ==
  {Backward(n, r, Strides(n, 2)[i - 1]) : i \in 1..Turns(n, 2)}

BarrierTo(n, r) ==
  {Forward(n, r, Strides(n, 2)[i - 1]) : i \in 1..Turns(n, 2)}

LEMMA BarrierStride ==
  ASSUME NEW n \in Nat \ {0, 1}, NEW i \in 1..Turns(n, 2)
  PROVE  /\ Strides(n, 2)[i - 1] \in 1..(n - 1)
         /\ \A h \in 1..Turns(n, 2) : Strides(n, 2)[h - 1] = Strides(n, 2)[i - 1] => h = i
<1>1. PICK t, p : t = Turns(n, 2) /\ p = Strides(n, 2)
  OBVIOUS
<1>2. 2 \in Nat \ {0, 1}
  OBVIOUS
<1>3. t \in 1..n
  BY <1>1, <1>2, TurnsAre
<1>4. /\ \A j \in 0..(t - 1) : p[j] \in 1..(n - 1)
      /\ \A h, j \in 0..(t - 1) : h < j => p[h] < p[j]
  BY <1>1, <1>2, StrideOfTurn
<1>5. \A h \in 1..t : h - 1 \in 0..(t - 1)
  BY <1>3
<1>6. ASSUME NEW h \in 1..t, p[h - 1] = p[i - 1]
      PROVE  h = i
  <2>1. i \in 1..t
    BY <1>1
  <2>2. ~ (p[h - 1] < p[i - 1]) /\ ~ (p[i - 1] < p[h - 1])
    BY <1>4, <1>5, <1>6, <2>1
  <2>3. ~ (h - 1 < i - 1) /\ ~ (i - 1 < h - 1)
    BY <1>4, <1>5, <2>1, <2>2
  <2> QED
    BY <1>3, <2>1, <2>3
<1>7. QED
  BY <1>1, <1>4, <1>5, <1>6

LEMMA BarrierLoop ==
  ASSUME NEW n \in Nat \ {0, 1}, NEW r \in 0..(n - 1)
  PROVE  \E ss, f, g : /\ BarrierSteps(n, r) = FlattenSeq(ss)
                       /\ IsLoop(n, r, ss, Turns(n, 2), f, g)
                       /\ Collects(BarrierFrom(n, r), f, Turns(n, 2))
                       /\ Collects(BarrierTo(n, r), g, Turns(n, 2))
                       /\ Singles(f, Turns(n, 2))
<1>1. PICK t, p : t = Turns(n, 2) /\ p = Strides(n, 2)
  OBVIOUS
<1>2. t \in Nat
  BY <1>1, TurnsAre
<1>3. PICK f, g : /\ f = [i \in 1..t |-> {Backward(n, r, p[i - 1])}]
                  /\ g = [i \in 1..t |-> {Forward(n, r, p[i - 1])}]
  OBVIOUS
<1>4. PICK ss : ss = [i \in 1..t |->
                  SendRecv(Forward(n, r, p[i - 1]), Backward(n, r, p[i - 1]), "barrier")]
  OBVIOUS
<1>5. BarrierSteps(n, r) = FlattenSeq(ss)
  BY <1>1, <1>4 DEF BarrierSteps, Forward, Backward
<1>6. \A i \in 1..t : p[i - 1] \in 1..(n - 1)
  BY <1>1, BarrierStride
<1>7. ASSUME NEW i \in 1..t
      PROVE  Exchange(n, r, ss[i], f[i], g[i])
  <2>0. PICK d \in 1..(n - 1) : d = p[i - 1]
    BY <1>6
  <2>1. PICK dst \in 0..(n - 1) : dst = Forward(n, r, p[i - 1]) /\ dst # r
    <3>1. Forward(n, r, d) \in 0..(n - 1) /\ Forward(n, r, d) # r
      BY ThereAndBack, Zenon
    <3> QED
      BY <2>0, <3>1
  <2>2. PICK src \in 0..(n - 1) : src = Backward(n, r, p[i - 1]) /\ src # r
    <3>1. Backward(n, r, d) \in 0..(n - 1) /\ Backward(n, r, d) # r
      BY ThereAndBack, Zenon
    <3> QED
      BY <2>0, <3>1
  <2>3. "barrier" \in Parts
    BY DEF Parts
  <2>4. Exchange(n, r, SendRecv(dst, src, "barrier"), {src}, {dst})
    BY <2>1, <2>2, <2>3, SendRecvExchange
  <2>5. ss[i] = SendRecv(dst, src, "barrier") /\ f[i] = {src} /\ g[i] = {dst}
    BY <1>3, <1>4, <2>1, <2>2
  <2> QED
    BY <2>4, <2>5
<1>8. ASSUME NEW h \in 1..t, NEW i \in 1..t, NEW q,
             (q \in f[h] /\ q \in f[i]) \/ (q \in g[h] /\ q \in g[i])
      PROVE  h = i
  <2>1. PICK d \in 1..(n - 1), e \in 1..(n - 1) : d = p[h - 1] /\ e = p[i - 1]
    BY <1>6
  <2>2. \/ Forward(n, r, d) = Forward(n, r, e)
        \/ Backward(n, r, d) = Backward(n, r, e)
    BY <1>3, <1>8, <2>1
  <2>3. d = e
    BY <2>2, ThereAndBack
  <2> QED
    BY <1>1, <2>1, <2>3, BarrierStride
<1>9. ss = [i \in 1..t |-> ss[i]]
  BY <1>4
<1>10. PICK F, G : F = BarrierFrom(n, r) /\ G = BarrierTo(n, r)
  OBVIOUS
<1>11. Collects(F, f, t)
  BY <1>1, <1>3, <1>10 DEF BarrierFrom, Collects
<1>12. Collects(G, g, t)
  BY <1>1, <1>3, <1>10 DEF BarrierTo, Collects
<1>13. IsLoop(n, r, ss, t, f, g)
  <2>1. \A h, i \in 1..t :
       (\E q : (q \in f[h] /\ q \in f[i]) \/ (q \in g[h] /\ q \in g[i])) => h = i
    BY <1>8
  <2>2. \A i \in 1..t : Exchange(n, r, ss[i], f[i], g[i])
    BY <1>7
  <2> QED
    BY <1>9, <2>1, <2>2 DEF IsLoop
<1>14. Singles(f, t)
  BY <1>3 DEF Singles
<1>15. QED
  BY <1>1, <1>5, <1>10, <1>11, <1>12, <1>13, <1>14

LEMMA BarrierExchange ==
  ASSUME NEW n \in Nat \ {0, 1}, NEW r \in 0..(n - 1)
  PROVE  Exchange(n, r, BarrierSteps(n, r), BarrierFrom(n, r), BarrierTo(n, r))
<1>1. PICK t, F, G : t = Turns(n, 2) /\ F = BarrierFrom(n, r) /\ G = BarrierTo(n, r)
  OBVIOUS
<1>2. t \in Nat
  BY <1>1, TurnsAre
<1>3. PICK ss, f, g : /\ BarrierSteps(n, r) = FlattenSeq(ss)
                      /\ IsLoop(n, r, ss, t, f, g)
                      /\ Collects(F, f, t) /\ Collects(G, g, t)
  BY <1>1, BarrierLoop
<1>4. Exchange(n, r, FlattenSeq(ss), F, G)
  BY <1>2, <1>3, ExchangeFlatten
<1>5. QED
  BY <1>1, <1>3, <1>4

LEMMA BarrierPaired ==
  ASSUME NEW n \in Nat \ {0, 1}, NEW s \in 0..(n - 1), NEW r \in 0..(n - 1)
  PROVE  r \in BarrierTo(n, s) <=> s \in BarrierFrom(n, r)
<1>1. PICK t, p : t = Turns(n, 2) /\ p = Strides(n, 2)
  OBVIOUS
<1>2. \A i \in 1..t : p[i - 1] \in 1..(n - 1)
  BY <1>1, BarrierStride
<1>3. \A d \in 1..(n - 1) : r = Forward(n, s, d) <=> s = Backward(n, r, d)
  BY ThereAndBack
<1>4. \A i \in 1..t : r = Forward(n, s, p[i - 1]) <=> s = Backward(n, r, p[i - 1])
  BY <1>2, <1>3
<1>5. r \in BarrierTo(n, s) <=> \E i \in 1..t : r = Forward(n, s, p[i - 1])
  BY <1>1 DEF BarrierTo
<1>6. s \in BarrierFrom(n, r) <=> \E i \in 1..t : s = Backward(n, r, p[i - 1])
  BY <1>1 DEF BarrierFrom
<1>7. QED
  BY <1>4, <1>5, <1>6

-----------------------------------------------------------------------------
(***************************************************************************)
(* Ranks counted from the root.                                            *)
(***************************************************************************)
LEMMA RelativeValue ==
  ASSUME NEW n \in Nat \ {0, 1}, NEW r \in 0..(n - 1), NEW root \in 0..(n - 1)
  PROVE  Relative(n, r, root) = IF r < root THEN r - root + n ELSE r - root
  BY BackwardIs DEF Relative, Backward

LEMMA RelativeIs ==
  ASSUME NEW n \in Nat \ {0, 1}, NEW r \in 0..(n - 1), NEW root \in 0..(n - 1)
  PROVE  /\ Relative(n, r, root) \in 0..(n - 1)
         /\ Relative(n, r, root) = 0 <=> r = root
         /\ Forward(n, root, Relative(n, r, root)) = r
<1>1. PICK x : x = Relative(n, r, root)
  OBVIOUS
<1>2. x = IF r < root THEN r - root + n ELSE r - root
  BY <1>1, RelativeValue
<1>3. x \in 0..(n - 1) /\ (x = 0 <=> r = root)
  BY <1>2
<1>4. PICK y : y = Forward(n, root, x)
  OBVIOUS
<1>5. y = IF root + x < n THEN root + x ELSE root + x - n
  BY <1>3, <1>4, ForwardIs
<1>6. y = r
  BY <1>2, <1>5
<1>7. QED
  BY <1>1, <1>2, <1>3, <1>4, <1>6

LEMMA RelativeOf ==
  ASSUME NEW n \in Nat \ {0, 1}, NEW root \in 0..(n - 1), NEW x \in 0..(n - 1)
  PROVE  /\ Forward(n, root, x) \in 0..(n - 1)
         /\ Relative(n, Forward(n, root, x), root) = x
<1>1. PICK y : y = Forward(n, root, x)
  OBVIOUS
<1>2. y = IF root + x < n THEN root + x ELSE root + x - n
  BY <1>1, ForwardIs
<1>3. y \in 0..(n - 1)
  BY <1>2
<1>4. PICK z : z = Relative(n, y, root)
  OBVIOUS
<1>5. z = IF y < root THEN y - root + n ELSE y - root
  BY <1>3, <1>4, RelativeValue
<1>6. z = x
  BY <1>2, <1>5
<1>7. QED
  BY <1>1, <1>3, <1>4, <1>6

LEMMA RelativeMoves ==
  ASSUME NEW n \in Nat \ {0, 1}, NEW r \in 0..(n - 1), NEW root \in 0..(n - 1),
         NEW d \in 0..(n - 1)
  PROVE  /\ Relative(n, r, root) + d < n =>
              Relative(n, Forward(n, r, d), root) = Relative(n, r, root) + d
         /\ d <= Relative(n, r, root) =>
              Relative(n, Backward(n, r, d), root) = Relative(n, r, root) - d
<1>1. PICK x, y, z : /\ x = Relative(n, r, root)
                     /\ y = Forward(n, r, d) /\ z = Backward(n, r, d)
  OBVIOUS
<1>2. x = IF r < root THEN r - root + n ELSE r - root
  BY <1>1, RelativeValue
<1>3. y = IF r + d < n THEN r + d ELSE r + d - n
  BY <1>1, ForwardIs
<1>4. z = IF r < d THEN r - d + n ELSE r - d
  BY <1>1, BackwardIs
<1>5. y \in 0..(n - 1)
  BY <1>3
<1>6. z \in 0..(n - 1)
  BY <1>4
<1>7. PICK u, v : u = Relative(n, y, root) /\ v = Relative(n, z, root)
  OBVIOUS
<1>8. u = IF y < root THEN y - root + n ELSE y - root
  BY <1>5, <1>7, RelativeValue
<1>9. v = IF z < root THEN z - root + n ELSE z - root
  BY <1>6, <1>7, RelativeValue
<1>10. x + d < n => u = x + d
  BY <1>2, <1>3, <1>8
<1>11. d <= x => v = x - d
  BY <1>2, <1>4, <1>9
<1>12. QED
  BY <1>1, <1>7, <1>10, <1>11

(***************************************************************************)
(* Broadcast.                                                              *)
(***************************************************************************)
BcastFrom(n, r, root) ==
  IF Relative(n, r, root) = 0 THEN {} ELSE {Above(n, r, root)}

(***************************************************************************)
(* The turns in which a rank sends, from the last to the first.            *)
(***************************************************************************)
BcastTurns(n, rel) ==
  LET top == Reached(n, 2, rel) IN
  {i \in 1..top : rel + Strides(n, 2)[top - i] < n}

BcastTo(n, r, root) ==
  LET rel == Relative(n, r, root)
      top == Reached(n, 2, rel)
  IN  {Forward(n, r, Strides(n, 2)[top - i]) : i \in BcastTurns(n, rel)}

LEMMA BcastStride ==
  ASSUME NEW n \in Nat \ {0, 1}, NEW x \in 0..(n - 1), NEW i \in BcastTurns(n, x)
  PROVE  LET p == Strides(n, 2)
             v == Reached(n, 2, x)
         IN  /\ v \in 0..n /\ i \in 1..v /\ v - i \in 0..(n - 1)
             /\ p[v - i] \in 1..(n - 1)
             /\ x + p[v - i] < n
             /\ \A h \in 1..v : p[v - h] = p[v - i] => h = i
<1>1. 2 \in Nat \ {0, 1}
  OBVIOUS
<1>2. PICK v, p : v = Reached(n, 2, x) /\ p = Strides(n, 2)
  OBVIOUS
<1>3. v \in 0..n
  BY <1>1, <1>2, ReachedIs
<1>4. i \in 1..v /\ x + p[v - i] < n
  BY <1>2 DEF BcastTurns
<1>5. \A j \in 0..n : p[j] \in Nat /\ p[j] >= j + 1
  BY <1>1, <1>2, StridesGrow
<1>6. \A h \in 1..v : v - h \in 0..(n - 1) /\ v - h \in 0..n
  BY <1>3
<1>7. p[v - i] \in 1..(n - 1)
  <2>1. p[v - i] \in Nat /\ p[v - i] >= v - i + 1
    BY <1>4, <1>5, <1>6
  <2> QED
    BY <1>3, <1>4, <2>1
<1>8. ASSUME NEW g \in 1..v, NEW h \in 1..v, g < h
      PROVE  p[v - h] < p[v - g]
  <2>1. v - h \in 0..(n - 1) /\ v - h + 1 \in 0..n /\ v - g \in (v - h + 1)..n
    BY <1>3, <1>8
  <2>2. p[v - h] < p[v - h + 1]
    BY <1>1, <1>2, <2>1, StridesNext
  <2>3. p[v - h + 1] <= p[v - g]
    BY <1>1, <1>2, <2>1, StridesDivide
  <2>4. p[v - h] \in Nat /\ p[v - h + 1] \in Nat /\ p[v - g] \in Nat
    BY <1>5, <1>6, <2>1
  <2> QED
    BY <2>2, <2>3, <2>4
<1>9. ASSUME NEW h \in 1..v, p[v - h] = p[v - i]
      PROVE  h = i
  <2>1. p[v - i] \in Nat
    BY <1>7
  <2>2. ~ (h < i) /\ ~ (i < h)
    <3>1. CASE h < i
      BY <1>4, <1>8, <1>9, <2>1, <3>1
    <3>2. CASE i < h
      BY <1>4, <1>8, <1>9, <2>1, <3>2
    <3> QED
      BY <3>1, <3>2
  <2> QED
    BY <1>3, <1>4, <2>2
<1>10. QED
  BY <1>2, <1>3, <1>4, <1>6, <1>7, <1>9

LEMMA AboveIs ==
  ASSUME NEW n \in Nat \ {0, 1}, NEW r \in 0..(n - 1), NEW root \in 0..(n - 1),
         Relative(n, r, root) # 0
  PROVE  LET x == Relative(n, r, root)
             v == Reached(n, 2, x)
             d == Strides(n, 2)[v]
         IN  /\ Above(n, r, root) = Backward(n, r, d)
             /\ d \in 1..(n - 1) /\ d <= x
             /\ v + 1 <= Reached(n, 2, x - d)
             /\ Relative(n, Above(n, r, root), root) = x - d
<1>1. PICK x \in 1..(n - 1) : x = Relative(n, r, root)
  BY RelativeIs
<1>2. 2 \in Nat \ {0, 1}
  OBVIOUS
<1>3. PICK p, v, m : p = Strides(n, 2) /\ v = Reached(n, 2, x) /\ m = x % p[v + 1]
  OBVIOUS
<1>4. PICK y : y = x - m
  OBVIOUS
<1>5. /\ v + 1 \in 1..n
      /\ y \in 0..(n - 1)
      /\ v + 1 <= Reached(n, 2, y)
      /\ \E i \in 1..(2 - 1) : x = y + i * p[v]
  BY <1>2, <1>3, <1>4, GoesUp
<1>6. PICK d : d = p[v]
  OBVIOUS
<1>7. v \in 0..n
  BY <1>2, <1>3, ReachedIs
<1>8. d \in Nat /\ d >= v + 1
  BY <1>2, <1>3, <1>6, <1>7, StridesGrow
<1>9. x = y + d
  BY <1>5, <1>6, <1>8
<1>10. d \in 1..(n - 1) /\ d <= x /\ y = x - d
  BY <1>5, <1>7, <1>8, <1>9
<1>11. Above(n, r, root) = Backward(n, r, d)
  BY <1>1, <1>3, <1>6 DEF Above, Backward
<1>12. Relative(n, Backward(n, r, d), root) = x - d
  BY <1>1, <1>10, RelativeMoves
<1>13. QED
  BY <1>1, <1>3, <1>5, <1>6, <1>10, <1>11, <1>12

LEMMA ReceiveExchange ==
  ASSUME NEW n \in Nat \ {0, 1}, NEW r \in 0..(n - 1), NEW root \in 0..(n - 1)
  PROVE  Exchange(n, r, Receive(n, r, root), BcastFrom(n, r, root), {})
<1>1. CASE Relative(n, r, root) = 0
  BY <1>1, ExchangeEmpty DEF Receive, BcastFrom
<1>2. CASE Relative(n, r, root) # 0
  <2>1. PICK v : v = Reached(n, 2, Relative(n, r, root))
    OBVIOUS
  <2>2. PICK d \in 1..(n - 1) : Above(n, r, root) = Backward(n, r, d)
    BY <1>2, AboveIs
  <2>3. PICK q \in 0..(n - 1) : q = Above(n, r, root) /\ q # r
    BY <2>2, ThereAndBack
  <2>4. "bcast" \in Parts
    BY DEF Parts
  <2>5. Exchange(n, r, Recv(q, "bcast"), {q}, {})
    BY <2>3, <2>4, RecvExchange
  <2> QED
    BY <1>2, <2>3, <2>5 DEF Receive, BcastFrom
<1>3. QED
  BY <1>1, <1>2

LEMMA BcastExchange ==
  ASSUME NEW n \in Nat \ {0, 1}, NEW r \in 0..(n - 1), NEW root \in 0..(n - 1)
  PROVE  Exchange(n, r, BcastSteps(n, r, root), BcastFrom(n, r, root), BcastTo(n, r, root))
<1>1. PICK x \in 0..(n - 1) : x = Relative(n, r, root)
  BY RelativeIs
<1>2. PICK p, v : p = Strides(n, 2) /\ v = Reached(n, 2, x)
  OBVIOUS
<1>3. PICK A : A = BcastTurns(n, x)
  OBVIOUS
<1>4. A = {i \in 1..v : x + p[v - i] < n}
  BY <1>2, <1>3 DEF BcastTurns
<1>5. PICK e : e = [i \in 1..v |-> Forward(n, r, p[v - i])]
  OBVIOUS
<1>6. PICK ss : ss = [i \in 1..v |-> IF x + p[v - i] < n THEN Send(e[i], "bcast") ELSE << >>]
  OBVIOUS
<1>7. BcastSteps(n, r, root) = Receive(n, r, root) \o FlattenSeq(ss)
  <2>1. ss = [i \in 1..v |-> IF x + p[v - i] < n THEN Send((r + p[v - i]) % n, "bcast")
                             ELSE << >>]
    BY <1>5, <1>6 DEF Forward
  <2> QED
    BY <1>1, <1>2, <2>1 DEF BcastSteps
<1>8. ASSUME NEW i \in A
      PROVE  /\ i \in 1..v /\ e[i] \in (0..(n - 1)) \ {r} /\ e[i] = Forward(n, r, p[v - i])
             /\ \A h \in A : e[h] = e[i] => h = i
  <2>1. i \in 1..v /\ p[v - i] \in 1..(n - 1) /\ \A h \in 1..v : p[v - h] = p[v - i] => h = i
    BY <1>2, <1>3, BcastStride
  <2>2. PICK d \in 1..(n - 1) : d = p[v - i]
    BY <2>1
  <2>3. Forward(n, r, d) \in (0..(n - 1)) \ {r}
    BY ThereAndBack
  <2>4. ASSUME NEW h \in A, e[h] = e[i]
        PROVE  h = i
    <3>1. h \in 1..v /\ p[v - h] \in 1..(n - 1)
      BY <1>2, <1>3, BcastStride
    <3>2. PICK c \in 1..(n - 1) : c = p[v - h]
      BY <3>1
    <3>3. Forward(n, r, d) = Forward(n, r, c)
      BY <1>5, <2>1, <2>2, <2>4, <3>1, <3>2
    <3>4. d = c
      BY <3>3, ThereAndBack
    <3> QED
      BY <2>1, <2>2, <3>1, <3>2, <3>4
  <2> QED
    BY <1>5, <2>1, <2>2, <2>3, <2>4
<1>9. PICK f, g : /\ f = [i \in 1..v |-> {}]
                  /\ g = [i \in 1..v |-> IF i \in A THEN {e[i]} ELSE {}]
  OBVIOUS
<1>10. ASSUME NEW i \in 1..v
       PROVE  Exchange(n, r, ss[i], f[i], g[i])
  <2>1. CASE i \in A
    <3>1. "bcast" \in Parts
      BY DEF Parts
    <3>2. PICK q \in 0..(n - 1) : q = e[i] /\ q # r
      BY <1>8, <2>1
    <3>3. Exchange(n, r, Send(q, "bcast"), {}, {q})
      BY <3>1, <3>2, SendExchange
    <3>4. ss[i] = Send(q, "bcast") /\ f[i] = {} /\ g[i] = {q}
      BY <1>4, <1>6, <1>9, <2>1, <3>2
    <3> QED
      BY <3>3, <3>4
  <2>2. CASE i \notin A
    <3>1. ss[i] = << >> /\ f[i] = {} /\ g[i] = {}
      BY <1>4, <1>6, <1>9, <2>2
    <3> QED
      BY <3>1, ExchangeEmpty
  <2> QED
    BY <2>1, <2>2
<1>11. ASSUME NEW h \in 1..v, NEW i \in 1..v, NEW q,
              (q \in f[h] /\ q \in f[i]) \/ (q \in g[h] /\ q \in g[i])
       PROVE  h = i
  <2>1. h \in A /\ i \in A /\ e[h] = e[i]
    BY <1>9, <1>11
  <2> QED
    BY <1>8, <2>1
<1>12. PICK G : G = BcastTo(n, r, root)
  OBVIOUS
<1>13. Collects({}, f, v)
  BY <1>9 DEF Collects
<1>14. Collects(G, g, v)
  <2>1. G = {Forward(n, r, p[v - i]) : i \in A}
    BY <1>1, <1>2, <1>3, <1>12 DEF BcastTo
  <2>2. \A q : q \in G <=> \E i \in A : q = e[i]
    BY <1>8, <2>1
  <2>3. \A q : q \in G <=> \E i \in 1..v : i \in A /\ q = e[i]
    BY <1>8, <2>2
  <2>4. \A q : \A i \in 1..v : q \in g[i] <=> i \in A /\ q = e[i]
    BY <1>9
  <2> QED
    BY <2>3, <2>4 DEF Collects
<1>15. IsLoop(n, r, ss, v, f, g)
  <2>1. \A i \in 1..v : Exchange(n, r, ss[i], f[i], g[i])
    BY <1>10
  <2>2. \A h, i \in 1..v :
          (\E q : (q \in f[h] /\ q \in f[i]) \/ (q \in g[h] /\ q \in g[i])) => h = i
    BY <1>11
  <2>3. ss = [i \in 1..v |-> ss[i]]
    BY <1>6
  <2> QED
    BY <2>1, <2>2, <2>3 DEF IsLoop
<1>16. v \in Nat
  <2>1. 2 \in Nat \ {0, 1}
    OBVIOUS
  <2> QED
    BY <1>2, <2>1, ReachedIs
<1>17. Exchange(n, r, FlattenSeq(ss), {}, G)
  BY <1>13, <1>14, <1>15, <1>16, ExchangeFlatten
<1>18. PICK F, s, t : F = BcastFrom(n, r, root) /\ s = Receive(n, r, root) /\ t = FlattenSeq(ss)
  OBVIOUS
<1>19. Exchange(n, r, s, F, {}) /\ Exchange(n, r, t, {}, G)
  BY <1>17, <1>18, ReceiveExchange
<1>20. Exchange(n, r, s \o t, F \cup {}, {} \cup G)
  BY <1>19, ExchangeConcat
<1>21. F \cup {} = F /\ {} \cup G = G
  OBVIOUS
<1>22. Exchange(n, r, s \o t, F, G)
  BY <1>20, <1>21
<1>23. QED
  BY <1>7, <1>12, <1>18, <1>22

LEMMA BcastPaired ==
  ASSUME NEW n \in Nat \ {0, 1}, NEW s \in 0..(n - 1), NEW r \in 0..(n - 1),
         NEW root \in 0..(n - 1)
  PROVE  r \in BcastTo(n, s, root) <=> s \in BcastFrom(n, r, root)
<1>1. 2 \in Nat \ {0, 1} /\ 1 \in 1..(2 - 1)
  OBVIOUS
<1>2. PICK p : p = Strides(n, 2)
  OBVIOUS
<1>3. ASSUME r \in BcastTo(n, s, root)
      PROVE  s \in BcastFrom(n, r, root)
  <2>1. PICK y, v : /\ y \in 0..(n - 1) /\ y = Relative(n, s, root)
                   /\ v = Reached(n, 2, y)
    BY RelativeIs
  <2>2. PICK i \in BcastTurns(n, y) : r = Forward(n, s, p[v - i])
    BY <1>2, <1>3, <2>1 DEF BcastTo
  <2>3. v \in 0..n /\ i \in 1..v /\ p[v - i] \in 1..(n - 1) /\ y + p[v - i] < n
    BY <1>2, <2>1, BcastStride
  <2>4. PICK j \in 1..v : j = v - i + 1 /\ v - i = j - 1
    BY <2>3
  <2>5. PICK d \in 1..(n - 1) : d = p[j - 1] /\ y + d < n /\ r = Forward(n, s, d)
    BY <2>2, <2>3, <2>4
  <2>6. PICK x : x = y + d
    OBVIOUS
  <2>7. Relative(n, r, root) = x
    BY <2>1, <2>5, <2>6, RelativeMoves
  <2>8. 1 * p[j - 1] = d
    BY <2>5
  <2>9. x # 0 /\ Reached(n, 2, x) = j - 1
    <3>1. j \in 1..Reached(n, 2, y)
      BY <2>1
    <3>2. y + 1 * Strides(n, 2)[j - 1] < n
      BY <1>2, <2>5, <2>8
    <3>3. x = y + 1 * Strides(n, 2)[j - 1]
      BY <1>2, <2>6, <2>8
    <3>4. x \in 1..(n - 1) /\ Reached(n, 2, x) = j - 1
      BY <1>1, <2>1, <3>1, <3>2, <3>3, GoesDown
    <3> QED
      BY <3>4
  <2>10. Above(n, r, root) = Backward(n, r, d)
    <3>1. Above(n, r, root) = (r - p[j - 1] + n) % n
      BY <1>2, <2>7, <2>9 DEF Above
    <3> QED
      BY <2>5, <3>1 DEF Backward
  <2>11. s = Backward(n, r, d)
    BY <2>5, ThereAndBack
  <2> QED
    BY <2>7, <2>9, <2>10, <2>11 DEF BcastFrom
<1>4. ASSUME s \in BcastFrom(n, r, root)
      PROVE  r \in BcastTo(n, s, root)
  <2>1. PICK x, v, d : /\ x \in 0..(n - 1) /\ x = Relative(n, r, root)
                      /\ v = Reached(n, 2, x) /\ d = p[v]
    BY RelativeIs
  <2>2. x # 0 /\ s = Above(n, r, root)
    BY <1>4, <2>1 DEF BcastFrom
  <2>3. /\ s = Backward(n, r, d)
        /\ d \in 1..(n - 1) /\ d <= x
        /\ v + 1 <= Reached(n, 2, x - d)
        /\ Relative(n, s, root) = x - d
    BY <1>2, <2>1, <2>2, AboveIs
  <2>4. PICK y, w : y \in 0..(n - 1) /\ y = x - d /\ w = Reached(n, 2, y)
    BY <2>1, <2>3
  <2>5. w \in 0..n /\ v \in 0..n
    BY <1>1, <2>1, <2>4, ReachedIs
  <2>6. PICK i \in 1..w : i = w - v /\ w - i = v
    BY <2>3, <2>4, <2>5
  <2>7. y + p[w - i] < n
    BY <2>1, <2>3, <2>4, <2>6
  <2>8. i \in BcastTurns(n, y)
    BY <1>2, <2>4, <2>6, <2>7 DEF BcastTurns
  <2>9. r = Forward(n, s, d)
    BY <2>3, ThereAndBack
  <2>10. r = Forward(n, s, p[w - i])
    BY <2>1, <2>6, <2>9
  <2> QED
    BY <1>2, <2>3, <2>4, <2>8, <2>10 DEF BcastTo
<1>5. QED
  BY <1>3, <1>4

(***************************************************************************)
(* Reduction.                                                              *)
(***************************************************************************)
Offsets(n, k, x, j) == {i \in 1..(k - 1) : x + i * Strides(n, k)[j - 1] < n}

Child(n, k, x, j, i) == x + i * Strides(n, k)[j - 1]

ChildRanks(n, k, r, root, j) ==
  LET x == Relative(n, r, root) IN
  {Forward(n, root, Child(n, k, x, j, i)) : i \in Offsets(n, k, x, j)}

ReduceFrom(n, k, r, root) ==
  UNION {ChildRanks(n, k, r, root, j) : j \in 1..Reached(n, k, Relative(n, r, root))}

Rest(n, k, x) == x % Strides(n, k)[Reached(n, k, x) + 1]

ReduceTo(n, k, r, root) ==
  LET x == Relative(n, r, root) IN
  IF x = 0 THEN {} ELSE {Forward(n, root, x - Rest(n, k, x))}

LEMMA ChildIs ==
  ASSUME NEW n \in Nat \ {0, 1}, NEW k \in Nat \ {0, 1}, NEW y \in 0..(n - 1),
         NEW j \in 1..Reached(n, k, y), NEW i \in Offsets(n, k, y, j)
  PROVE  LET x == Child(n, k, y, j, i) IN
         /\ i \in 1..(k - 1)
         /\ x \in 1..(n - 1) /\ y < x
         /\ Reached(n, k, x) = j - 1
         /\ x - Rest(n, k, x) = y
         /\ \A h \in Offsets(n, k, y, j) : Child(n, k, y, j, h) = x => h = i
<1>1. PICK p, x : p = Strides(n, k) /\ x = Child(n, k, y, j, i)
  OBVIOUS
<1>2. i \in 1..(k - 1) /\ y + i * p[j - 1] < n
  BY <1>1 DEF Offsets
<1>3. x = y + i * p[j - 1]
  BY <1>1 DEF Child
<1>4. /\ j \in 1..n
      /\ x \in 1..(n - 1) /\ y < x
      /\ Reached(n, k, x) = j - 1
      /\ x % p[j] = i * p[j - 1]
  BY <1>1, <1>2, <1>3, GoesDown
<1>5. PICK m : m = i * p[j - 1]
  OBVIOUS
<1>6. Rest(n, k, x) = m
  <2>1. Reached(n, k, x) + 1 = j
    BY <1>4
  <2> QED
    BY <1>1, <1>4, <1>5, <2>1 DEF Rest
<1>7. m \in Int
  BY <1>3, <1>4, <1>5, <1>2, StridesGrow, <1>1, SMTT(30)
<1>8. x - m = y
  BY <1>3, <1>5, <1>7
<1>9. ASSUME NEW h \in Offsets(n, k, y, j), Child(n, k, y, j, h) = x
      PROVE  h = i
  <2>1. PICK c \in Nat \ {0} : c = p[j - 1]
    <3>1. j - 1 \in 0..n
      BY <1>4
    <3>2. p[j - 1] \in Nat /\ p[j - 1] >= j
      BY <1>1, <3>1, StridesGrow
    <3> QED
      BY <1>4, <3>2
  <2>2. h \in 1..(k - 1)
    BY DEF Offsets
  <2>3. y + h * c = y + i * c
    BY <1>1, <1>3, <1>9, <2>1 DEF Child
  <2>4. h \in Nat /\ i \in Nat
    BY <1>2, <2>2
  <2>5. PICK u, v : u = h * c /\ v = i * c
    OBVIOUS
  <2>6. u \in Nat /\ v \in Nat /\ u = v
    BY <2>1, <2>3, <2>4, <2>5, TimesMonotonic
  <2>7. ~ (h < i)
    <3> SUFFICES ASSUME h < i PROVE FALSE
      OBVIOUS
    <3>1. h * c + c <= i * c
      BY <2>1, <2>4, TimesCancels
    <3>2. u + c <= v
      BY <2>5, <3>1
    <3> QED
      BY <2>1, <2>6, <3>2
  <2>8. ~ (i < h)
    <3> SUFFICES ASSUME i < h PROVE FALSE
      OBVIOUS
    <3>1. i * c + c <= h * c
      BY <2>1, <2>4, TimesCancels
    <3>2. v + c <= u
      BY <2>5, <3>1
    <3> QED
      BY <2>1, <2>6, <3>2
  <2> QED
    BY <2>4, <2>7, <2>8
<1>10. QED
  BY <1>1, <1>2, <1>4, <1>6, <1>8, <1>9

(***************************************************************************)
(* The receives of a turn, posted or awaited.                              *)
(***************************************************************************)
LEMMA ChildrenKind ==
  ASSUME NEW n \in Nat \ {0, 1}, NEW k \in Nat \ {0, 1}, NEW r \in 0..(n - 1),
         NEW root \in 0..(n - 1), NEW j \in 1..Reached(n, k, Relative(n, r, root)),
         NEW do \in {"post", "await", "start", "finish"}
  PROVE  OneKind(n, FromChildren(n, k, r, root, j, do), do, ChildRanks(n, k, r, root, j))
<1>1. PICK y \in 0..(n - 1) : y = Relative(n, r, root)
  BY RelativeIs
<1>2. PICK A \in SUBSET (1..(k - 1)) : A = Offsets(n, k, y, j)
  BY DEF Offsets
<1>3. PICK e : e = [i \in 1..(k - 1) |-> Forward(n, root, Child(n, k, y, j, i))]
  OBVIOUS
<1>4. PICK ss : ss = [i \in 1..(k - 1) |->
                  IF i \in A THEN <<StepOf(do, e[i], "reduce")>> ELSE << >>]
  OBVIOUS
<1>5. FromChildren(n, k, r, root, j, do) = FlattenSeq(ss)
  <2>1. PICK tt : tt = [i \in 1..(k - 1) |->
                    IF y + i * Strides(n, k)[j - 1] < n
                    THEN <<StepOf(do, (y + i * Strides(n, k)[j - 1] + root) % n, "reduce")>>
                    ELSE << >>]
    OBVIOUS
  <2>2. FromChildren(n, k, r, root, j, do) = FlattenSeq(tt)
    BY <1>1, <2>1 DEF FromChildren
  <2>3. ASSUME NEW i \in 1..(k - 1)
        PROVE  tt[i] = ss[i]
    <3>1. i \in A <=> y + i * Strides(n, k)[j - 1] < n
      BY <1>2 DEF Offsets
    <3>2. CASE i \in A
      <4>1. PICK x : x = Child(n, k, y, j, i)
        OBVIOUS
      <4>2. x \in 1..(n - 1)
        BY <1>1, <1>2, <3>2, <4>1, ChildIs
      <4>3. x = y + i * Strides(n, k)[j - 1]
        BY <4>1 DEF Child
      <4>4. tt[i] = <<StepOf(do, (x + root) % n, "reduce")>>
        BY <2>1, <3>1, <3>2, <4>3
      <4>5. ss[i] = <<StepOf(do, (root + x) % n, "reduce")>>
        BY <1>3, <1>4, <3>2, <4>1 DEF Forward
      <4>6. root + x = x + root
        BY <4>2
      <4> QED
        BY <4>4, <4>5, <4>6
    <3>3. CASE i \notin A
      <4>1. tt[i] = << >>
        BY <2>1, <3>1, <3>3
      <4>2. ss[i] = << >>
        BY <1>4, <3>3
      <4> QED
        BY <4>1, <4>2
    <3> QED
      BY <3>2, <3>3
  <2>4. tt = ss
    BY <1>4, <2>1, <2>3
  <2> QED
    BY <2>2, <2>4
<1>6. ASSUME NEW i \in A
      PROVE  /\ e[i] \in 0..(n - 1)
             /\ \A h \in A : e[h] = e[i] => h = i
  <2>1. PICK x \in 1..(n - 1) : x = Child(n, k, y, j, i)
    BY <1>1, <1>2, ChildIs
  <2>2. \A h \in A : Child(n, k, y, j, h) = x => h = i
    BY <1>1, <1>2, <2>1, ChildIs
  <2>3. e[i] = Forward(n, root, x)
    BY <1>3, <2>1
  <2>4. Forward(n, root, x) \in 0..(n - 1) /\ Relative(n, Forward(n, root, x), root) = x
    <3>1. x \in 0..(n - 1)
      OBVIOUS
    <3> QED
      BY <3>1, RelativeOf
  <2>5. ASSUME NEW h \in A, e[h] = e[i]
        PROVE  h = i
    <3>1. PICK z \in 1..(n - 1) : z = Child(n, k, y, j, h)
      BY <1>1, <1>2, ChildIs
    <3>2. Relative(n, Forward(n, root, z), root) = z
      BY RelativeOf
    <3>3. e[h] = Forward(n, root, z)
      BY <1>3, <3>1
    <3>4. z = x
      BY <2>3, <2>4, <2>5, <3>2, <3>3
    <3> QED
      BY <2>2, <3>1, <3>4
  <2> QED
    BY <2>3, <2>4, <2>5
<1>7. PICK Q : Q = {e[i] : i \in A}
  OBVIOUS
<1>8. Q = ChildRanks(n, k, r, root, j)
  <2>1. PICK R : R = ChildRanks(n, k, r, root, j)
    OBVIOUS
  <2>2. R = {Forward(n, root, Child(n, k, y, j, i)) : i \in A}
    BY <1>1, <1>2, <2>1 DEF ChildRanks
  <2>3. \A i \in A : e[i] = Forward(n, root, Child(n, k, y, j, i))
    BY <1>3
  <2>4. R = Q
    BY <1>7, <2>2, <2>3
  <2> QED
    BY <2>1, <2>4
<1>9. "reduce" \in Parts /\ k - 1 \in Nat
  BY DEF Parts
<1>10. IsChoice(n, ss, k - 1, do, "reduce", e, A)
  BY <1>4, <1>6, <1>9 DEF IsChoice
<1>11. Chosen(Q, e, A)
  BY <1>7 DEF Chosen
<1>12. OneKind(n, FlattenSeq(ss), do, Q)
  BY <1>9, <1>10, <1>11, KindFlatten
<1>13. QED
  BY <1>5, <1>8, <1>12

LEMMA ChildRankIs ==
  ASSUME NEW n \in Nat \ {0, 1}, NEW k \in Nat \ {0, 1}, NEW r \in 0..(n - 1),
         NEW root \in 0..(n - 1), NEW j \in 1..Reached(n, k, Relative(n, r, root)),
         NEW q \in ChildRanks(n, k, r, root, j)
  PROVE  LET x == Relative(n, q, root) IN
         /\ q \in 0..(n - 1)
         /\ Relative(n, r, root) < x
         /\ Reached(n, k, x) = j - 1
         /\ x - Rest(n, k, x) = Relative(n, r, root)
<1>1. PICK y \in 0..(n - 1) : y = Relative(n, r, root)
  BY RelativeIs
<1>2. PICK i \in Offsets(n, k, y, j) : q = Forward(n, root, Child(n, k, y, j, i))
  BY <1>1 DEF ChildRanks
<1>3. PICK x \in 0..(n - 1) : x = Child(n, k, y, j, i)
  BY <1>1, ChildIs
<1>4. /\ y < x /\ Reached(n, k, x) = j - 1
      /\ x - Rest(n, k, x) = y
  BY <1>1, <1>3, ChildIs
<1>5. q \in 0..(n - 1) /\ Relative(n, q, root) = x
  BY <1>2, <1>3, RelativeOf
<1>6. QED
  BY <1>1, <1>4, <1>5

LEMMA RestIs ==
  ASSUME NEW n \in Nat \ {0, 1}, NEW k \in Nat \ {0, 1}, NEW x \in 1..(n - 1)
  PROVE  LET v == Reached(n, k, x)
             y == x - Rest(n, k, x)
         IN  /\ v + 1 \in 1..n
             /\ y \in 0..(n - 1) /\ y < x
             /\ v + 1 \in 1..Reached(n, k, y)
             /\ \E i \in Offsets(n, k, y, v + 1) : x = Child(n, k, y, v + 1, i)
<1>1. LET p == Strides(n, k)
          v == Reached(n, k, x)
          y == x - (x % p[v + 1])
      IN  /\ v + 1 \in 1..n
          /\ y \in 0..(n - 1)
          /\ v + 1 <= Reached(n, k, y)
          /\ \E i \in 1..(k - 1) : x = y + i * p[v]
  BY GoesUp
<1>2. PICK v, p, m, y : /\ v = Reached(n, k, x) /\ p = Strides(n, k)
                        /\ m = Rest(n, k, x) /\ y = x - m
  OBVIOUS
<1>3. /\ v + 1 \in 1..n
      /\ y \in 0..(n - 1)
      /\ v + 1 <= Reached(n, k, y)
  BY <1>1, <1>2 DEF Rest
<1>4. PICK i \in 1..(k - 1) : x = y + i * p[v]
  <2>1. \E i \in 1..(k - 1) : x = x - (x % Strides(n, k)[Reached(n, k, x) + 1])
                                    + i * Strides(n, k)[Reached(n, k, x)]
    BY <1>1, Zenon
  <2>2. y = x - (x % Strides(n, k)[Reached(n, k, x) + 1]) /\ p[v] = Strides(n, k)[Reached(n, k, x)]
    BY <1>2 DEF Rest
  <2> QED
    BY <2>1, <2>2, Zenon
<1>5. v + 1 - 1 = v /\ v \in 0..n
  <2>1. v + 1 \in 1..n
    BY <1>3, Zenon
  <2>2. v \in 0..n
    BY <1>2, ReachedIs
  <2> QED
    BY <2>1, <2>2
<1>6. i \in Offsets(n, k, y, v + 1) /\ x = Child(n, k, y, v + 1, i)
  BY <1>2, <1>3, <1>4, <1>5 DEF Offsets, Child
<1>7. Reached(n, k, y) \in 0..n
  BY <1>3, ReachedIs
<1>8. v + 1 \in 1..Reached(n, k, y)
  BY <1>3, <1>7
<1>9. y < x
  BY <1>3, <1>6, <1>8, ChildIs
<1>10. QED
  BY <1>2, <1>3, <1>6, <1>8, <1>9

ChildSets(n, k, r, root) ==
  [j \in 1..Reached(n, k, Relative(n, r, root)) |-> ChildRanks(n, k, r, root, j)]

NoSets(n, k, r, root) == [j \in 1..Reached(n, k, Relative(n, r, root)) |-> {}]

LEMMA ReduceLoop ==
  ASSUME NEW n \in Nat \ {0, 1}, NEW k \in Nat \ {0, 1}, NEW r \in 0..(n - 1),
         NEW root \in 0..(n - 1)
  PROVE  \E ss, t : /\ ReduceSteps(n, k, r, root) = FlattenSeq(ss) \o t
                    /\ IsLoop(n, r, ss, Reached(n, k, Relative(n, r, root)),
                              ChildSets(n, k, r, root), NoSets(n, k, r, root))
                    /\ Exchange(n, r, t, {}, ReduceTo(n, k, r, root))
<1>1. PICK x \in 0..(n - 1) : x = Relative(n, r, root)
  BY RelativeIs
<1>2. PICK v, p : v = Reached(n, k, x) /\ p = Strides(n, k)
  OBVIOUS
<1>3. v \in 0..n /\ (x = 0 <=> p[v] >= n)
  BY <1>2, ReachedIs
<1>4. PICK ss : ss = [j \in 1..v |-> FromChildren(n, k, r, root, j, "post")
                                       \o FromChildren(n, k, r, root, j, "await")]
  OBVIOUS
<1>5. PICK t : t = IF p[v] >= n THEN << >> ELSE Send(Parent(n, x, x % p[v + 1], root), "reduce")
  OBVIOUS
<1>6. ReduceSteps(n, k, r, root) = FlattenSeq(ss) \o t
  BY <1>1, <1>2, <1>4, <1>5 DEF ReduceSteps
<1>7. PICK f, g : /\ f = [j \in 1..v |-> ChildRanks(n, k, r, root, j)]
                  /\ g = [j \in 1..v |-> {}]
  OBVIOUS
<1>8. ASSUME NEW j \in 1..v
      PROVE  /\ f[j] \in SUBSET ((0..(n - 1)) \ {r})
             /\ \A q \in f[j] : Reached(n, k, Relative(n, q, root)) = j - 1
  <2> SUFFICES ASSUME NEW q \in f[j]
               PROVE  /\ q \in (0..(n - 1)) \ {r}
                      /\ Reached(n, k, Relative(n, q, root)) = j - 1
    OBVIOUS
  <2>1. q \in ChildRanks(n, k, r, root, j)
    BY <1>7
  <2>2. q \in 0..(n - 1) /\ x < Relative(n, q, root) /\ Reached(n, k, Relative(n, q, root)) = j - 1
    BY <1>1, <1>2, <2>1, ChildRankIs
  <2>3. q # r
    BY <1>1, <2>2
  <2> QED
    BY <2>2, <2>3
<1>9. ASSUME NEW j \in 1..v
      PROVE  Exchange(n, r, ss[j], f[j], g[j])
  <2>1. PICK Q \in SUBSET ((0..(n - 1)) \ {r}) : Q = ChildRanks(n, k, r, root, j)
    BY <1>7, <1>8
  <2>2. PICK a, b : /\ a = FromChildren(n, k, r, root, j, "post")
                    /\ b = FromChildren(n, k, r, root, j, "await")
    OBVIOUS
  <2>3. OneKind(n, a, "post", Q) /\ OneKind(n, b, "await", Q)
    BY <1>1, <1>2, <2>1, <2>2, ChildrenKind
  <2>4. Exchange(n, r, a \o b, Q, {})
    BY <2>3, ReceivesExchange
  <2>5. ss[j] = a \o b /\ f[j] = Q /\ g[j] = {}
    BY <1>4, <1>7, <2>1, <2>2
  <2> QED
    BY <2>4, <2>5
<1>10. IsLoop(n, r, ss, v, f, g)
  <2>1. \A j \in 1..v : Exchange(n, r, ss[j], f[j], g[j])
    BY <1>9
  <2>2. ASSUME NEW h \in 1..v, NEW i \in 1..v, NEW q,
               (q \in f[h] /\ q \in f[i]) \/ (q \in g[h] /\ q \in g[i])
        PROVE  h = i
    <3>1. q \in f[h] /\ q \in f[i]
      BY <1>7, <2>2
    <3>2. h - 1 = i - 1
      BY <1>8, <3>1
    <3> QED
      BY <1>3, <3>2
  <2>3. \A h, i \in 1..v :
          (\E q : (q \in f[h] /\ q \in f[i]) \/ (q \in g[h] /\ q \in g[i])) => h = i
    BY <2>2
  <2>4. ss = [j \in 1..v |-> ss[j]]
    BY <1>4
  <2> QED
    BY <2>1, <2>3, <2>4 DEF IsLoop
<1>11. PICK G : G = ReduceTo(n, k, r, root)
  OBVIOUS
<1>12. Exchange(n, r, t, {}, G)
  <2>1. CASE x = 0
    <3>1. t = << >> /\ G = {}
      BY <1>1, <1>3, <1>5, <1>11, <2>1 DEF ReduceTo
    <3> QED
      BY <3>1, ExchangeEmpty
  <2>2. CASE x # 0
    <3>1. PICK m, y : m = Rest(n, k, x) /\ y = x - m
      OBVIOUS
    <3>2. y \in 0..(n - 1) /\ y < x
      BY <2>2, <3>1, RestIs
    <3>3. PICK q \in 0..(n - 1) : q = Forward(n, root, y) /\ Relative(n, q, root) = y
      BY <3>2, RelativeOf
    <3>4. q # r
      BY <1>1, <3>2, <3>3
    <3>5. "reduce" \in Parts
      BY DEF Parts
    <3>6. Exchange(n, r, Send(q, "reduce"), {}, {q})
      BY <3>4, <3>5, SendExchange
    <3>7. G = {q}
      BY <1>1, <1>11, <2>2, <3>1, <3>3 DEF ReduceTo
    <3>8. t = Send(q, "reduce")
      <4>1. x % p[v + 1] = m
        BY <1>2, <3>1 DEF Rest
      <4>2. Parent(n, x, m, root) = q
        <5>1. x - m + root = root + y
          BY <3>1, <3>2
        <5> QED
          BY <3>3, <5>1 DEF Parent, Forward
      <4> QED
        BY <1>3, <1>5, <2>2, <4>1, <4>2
    <3> QED
      BY <3>6, <3>7, <3>8
  <2> QED
    BY <2>1, <2>2
<1>13. f = ChildSets(n, k, r, root) /\ g = NoSets(n, k, r, root)
  BY <1>1, <1>2, <1>7 DEF ChildSets, NoSets
<1>14. QED
  BY <1>1, <1>2, <1>6, <1>10, <1>11, <1>12, <1>13

LEMMA ReduceExchange ==
  ASSUME NEW n \in Nat \ {0, 1}, NEW k \in Nat \ {0, 1}, NEW r \in 0..(n - 1),
         NEW root \in 0..(n - 1)
  PROVE  Exchange(n, r, ReduceSteps(n, k, r, root),
                  ReduceFrom(n, k, r, root), ReduceTo(n, k, r, root))
<1>1. PICK x \in 0..(n - 1) : x = Relative(n, r, root)
  BY RelativeIs
<1>2. PICK v : v = Reached(n, k, Relative(n, r, root))
  OBVIOUS
<1>3. v \in Nat
  BY <1>1, <1>2, ReachedIs
<1>4. PICK f, g : f = ChildSets(n, k, r, root) /\ g = NoSets(n, k, r, root)
  OBVIOUS
<1>5. PICK F, G : F = ReduceFrom(n, k, r, root) /\ G = ReduceTo(n, k, r, root)
  OBVIOUS
<1>6. PICK ss, t : /\ ReduceSteps(n, k, r, root) = FlattenSeq(ss) \o t
                   /\ IsLoop(n, r, ss, v, f, g)
                   /\ Exchange(n, r, t, {}, G)
  BY <1>2, <1>4, <1>5, ReduceLoop
<1>7. Collects(F, f, v)
  <2>1. F = UNION {ChildRanks(n, k, r, root, j) : j \in 1..v}
    BY <1>2, <1>5 DEF ReduceFrom
  <2>2. \A q : q \in F <=> \E j \in 1..v : q \in ChildRanks(n, k, r, root, j)
    BY <2>1
  <2> QED
    BY <1>2, <1>4, <2>2 DEF Collects, ChildSets
<1>8. Collects({}, g, v)
  BY <1>2, <1>4 DEF Collects, NoSets
<1>9. PICK s : s = FlattenSeq(ss)
  OBVIOUS
<1>10. Exchange(n, r, s, F, {})
  BY <1>3, <1>6, <1>7, <1>8, <1>9, ExchangeFlatten
<1>11. Exchange(n, r, s \o t, F \cup {}, {} \cup G)
  BY <1>6, <1>10, ExchangeConcat
<1>12. F \cup {} = F /\ {} \cup G = G
  OBVIOUS
<1>13. Exchange(n, r, s \o t, F, G)
  BY <1>11, <1>12
<1>14. QED
  BY <1>5, <1>6, <1>9, <1>13

LEMMA ReducePaired ==
  ASSUME NEW n \in Nat \ {0, 1}, NEW k \in Nat \ {0, 1}, NEW s \in 0..(n - 1),
         NEW r \in 0..(n - 1), NEW root \in 0..(n - 1)
  PROVE  r \in ReduceTo(n, k, s, root) <=> s \in ReduceFrom(n, k, r, root)
<1>1. PICK x \in 0..(n - 1), y \in 0..(n - 1) :
        x = Relative(n, s, root) /\ y = Relative(n, r, root)
  BY RelativeIs
<1>2. s = Forward(n, root, x) /\ r = Forward(n, root, y)
  BY <1>1, RelativeIs
<1>3. ASSUME r \in ReduceTo(n, k, s, root)
      PROVE  s \in ReduceFrom(n, k, r, root)
  <2>1. PICK z : z = x - Rest(n, k, x)
    OBVIOUS
  <2>2. x # 0 /\ r = Forward(n, root, z)
    BY <1>1, <1>3, <2>1 DEF ReduceTo
  <2>3. PICK j : j = Reached(n, k, x) + 1
    OBVIOUS
  <2>4. /\ z \in 0..(n - 1)
        /\ j \in 1..Reached(n, k, z)
        /\ \E i \in Offsets(n, k, z, j) : x = Child(n, k, z, j, i)
    BY <2>1, <2>2, <2>3, RestIs
  <2>5. z = y
    BY <1>1, <2>2, <2>4, RelativeOf
  <2>6. PICK i \in Offsets(n, k, y, j) : x = Child(n, k, y, j, i)
    BY <2>4, <2>5
  <2>7. s \in ChildRanks(n, k, r, root, j)
    BY <1>1, <1>2, <2>6 DEF ChildRanks
  <2>8. j \in 1..Reached(n, k, Relative(n, r, root))
    BY <1>1, <2>4, <2>5
  <2> QED
    BY <2>7, <2>8 DEF ReduceFrom
<1>4. ASSUME s \in ReduceFrom(n, k, r, root)
      PROVE  r \in ReduceTo(n, k, s, root)
  <2>1. PICK j \in 1..Reached(n, k, Relative(n, r, root)) : s \in ChildRanks(n, k, r, root, j)
    BY <1>4 DEF ReduceFrom
  <2>2. y < x /\ x - Rest(n, k, x) = y
    BY <1>1, <2>1, ChildRankIs
  <2>3. x # 0
    BY <2>2
  <2> QED
    BY <1>1, <1>2, <2>2, <2>3 DEF ReduceTo
<1>5. QED
  BY <1>3, <1>4

(***************************************************************************)
(* Loops over all ranks: gather, scatter and alltoall.                     *)
(***************************************************************************)
LEMMA EachKind ==
  ASSUME NEW n \in Nat \ {0, 1}, NEW do \in {"post", "await", "start", "finish"},
         NEW except, NEW of \in Parts
  PROVE  OneKind(n, Each(n, do, except, of), do, (0..(n - 1)) \ except)
<1>1. PICK A \in SUBSET (1..n) : A = {i \in 1..n : i - 1 \notin except}
  OBVIOUS
<1>2. PICK e : e = [i \in 1..n |-> i - 1]
  OBVIOUS
<1>3. PICK ss : ss = [i \in 1..n |-> IF i \in A THEN <<StepOf(do, e[i], of)>> ELSE << >>]
  OBVIOUS
<1>4. Each(n, do, except, of) = FlattenSeq(ss)
  <2>1. PICK tt : tt = [i \in 1..n |-> IF i - 1 \in except THEN << >>
                                       ELSE <<StepOf(do, i - 1, of)>>]
    OBVIOUS
  <2>2. \A i \in 1..n : tt[i] = ss[i]
    <3> SUFFICES ASSUME NEW i \in 1..n PROVE tt[i] = ss[i]
      OBVIOUS
    <3>1. CASE i \in A
      BY <1>1, <1>2, <1>3, <2>1, <3>1
    <3>2. CASE i \notin A
      BY <1>1, <1>3, <2>1, <3>2
    <3> QED
      BY <3>1, <3>2
  <2>3. tt = ss
    BY <1>3, <2>1, <2>2
  <2> QED
    BY <2>1, <2>3 DEF Each
<1>5. \A i \in A : e[i] \in 0..(n - 1)
  BY <1>1, <1>2
<1>6. \A h, i \in A : e[h] = e[i] => h = i
  BY <1>1, <1>2
<1>7. IsChoice(n, ss, n, do, of, e, A)
  BY <1>3, <1>5, <1>6 DEF IsChoice
<1>8. Chosen((0..(n - 1)) \ except, e, A)
  <2>1. ASSUME NEW p \in (0..(n - 1)) \ except
        PROVE  \E i \in A : p = e[i]
    <3>1. p + 1 \in 1..n /\ p + 1 - 1 = p
      OBVIOUS
    <3>2. p + 1 \in A /\ p = e[p + 1]
      BY <1>1, <1>2, <3>1
    <3> QED
      BY <3>2
  <2>2. \A i \in A : e[i] \in (0..(n - 1)) \ except
    BY <1>1, <1>2, <1>5
  <2> QED
    BY <2>1, <2>2 DEF Chosen
<1>9. QED
  BY <1>4, <1>7, <1>8, KindFlatten

Others(n, r) == (0..(n - 1)) \ {r}

GatherFrom(n, r, root, empty) == IF r = root THEN (0..(n - 1)) \ ({r} \cup empty) ELSE {}
GatherTo(n, r, root, empty)   == IF r = root \/ r \in empty THEN {} ELSE {root}

ScatterFrom(n, r, root) == IF r = root THEN {} ELSE {root}
ScatterTo(n, r, root)   == IF r = root THEN Others(n, r) ELSE {}

LEMMA GatherExchange ==
  ASSUME NEW n \in Nat \ {0, 1}, NEW r \in 0..(n - 1), NEW root \in 0..(n - 1), NEW empty
  PROVE  Exchange(n, r, GatherSteps(n, r, root, empty),
                  GatherFrom(n, r, root, empty), GatherTo(n, r, root, empty))
<1>1. "gather" \in Parts
  BY DEF Parts
<1>2. CASE r = root
  <2>1. PICK X : X = {r} \cup empty
    OBVIOUS
  <2>2. PICK Q \in SUBSET ((0..(n - 1)) \ {r}) : Q = (0..(n - 1)) \ X
    BY <2>1
  <2>3. PICK a, b : a = Each(n, "post", X, "gather") /\ b = Each(n, "await", X, "gather")
    OBVIOUS
  <2>4. OneKind(n, a, "post", Q)
    BY <1>1, <2>2, <2>3, EachKind
  <2>5. OneKind(n, b, "await", Q)
    BY <1>1, <2>2, <2>3, EachKind
  <2>6. Exchange(n, r, a \o b, Q, {})
    BY <2>4, <2>5, ReceivesExchange
  <2>7. GatherSteps(n, r, root, empty) = a \o b
    BY <1>2, <2>1, <2>3 DEF GatherSteps
  <2>8. GatherFrom(n, r, root, empty) = Q /\ GatherTo(n, r, root, empty) = {}
    BY <1>2, <2>1, <2>2 DEF GatherFrom, GatherTo
  <2> QED
    BY <2>6, <2>7, <2>8
<1>3. CASE r # root /\ r \in empty
  BY <1>3, ExchangeEmpty DEF GatherSteps, GatherFrom, GatherTo
<1>4. CASE r # root /\ r \notin empty
  <2>1. Exchange(n, r, Send(root, "gather"), {}, {root})
    BY <1>1, <1>4, SendExchange
  <2> QED
    BY <1>4, <2>1 DEF GatherSteps, GatherFrom, GatherTo
<1>5. QED
  BY <1>2, <1>3, <1>4

LEMMA ScatterExchange ==
  ASSUME NEW n \in Nat \ {0, 1}, NEW r \in 0..(n - 1), NEW root \in 0..(n - 1)
  PROVE  Exchange(n, r, ScatterSteps(n, r, root),
                  ScatterFrom(n, r, root), ScatterTo(n, r, root))
<1>1. "scatter" \in Parts
  BY DEF Parts
<1>2. CASE r = root
  <2>1. PICK Q \in SUBSET ((0..(n - 1)) \ {r}) : Q = (0..(n - 1)) \ {r}
    OBVIOUS
  <2>2. PICK a, b : a = Each(n, "start", {r}, "scatter") /\ b = Each(n, "finish", {r}, "scatter")
    OBVIOUS
  <2>3. OneKind(n, a, "start", Q)
    BY <1>1, <2>1, <2>2, EachKind
  <2>4. OneKind(n, b, "finish", Q)
    BY <1>1, <2>1, <2>2, EachKind
  <2>5. Exchange(n, r, a \o b, {}, Q)
    BY <2>3, <2>4, SendsExchange
  <2>6. ScatterSteps(n, r, root) = a \o b
    BY <1>2, <2>2 DEF ScatterSteps
  <2>7. ScatterFrom(n, r, root) = {} /\ ScatterTo(n, r, root) = Q
    BY <1>2, <2>1 DEF ScatterFrom, ScatterTo, Others
  <2> QED
    BY <2>5, <2>6, <2>7
<1>3. CASE r # root
  <2>1. Exchange(n, r, Recv(root, "scatter"), {root}, {})
    BY <1>1, <1>3, RecvExchange
  <2> QED
    BY <1>3, <2>1 DEF ScatterSteps, ScatterFrom, ScatterTo
<1>4. QED
  BY <1>2, <1>3

LEMMA AlltoallExchange ==
  ASSUME NEW n \in Nat \ {0, 1}, NEW r \in 0..(n - 1)
  PROVE  Exchange(n, r, AlltoallSteps(n, r), Others(n, r), Others(n, r))
<1>1. "alltoall" \in Parts
  BY DEF Parts
<1>2. PICK Q \in SUBSET ((0..(n - 1)) \ {r}) : Q = (0..(n - 1)) \ {r}
  OBVIOUS
<1>3. PICK a, b, c, d : /\ a = Each(n, "post", {r}, "alltoall")
                        /\ b = Each(n, "start", {r}, "alltoall")
                        /\ c = Each(n, "await", {r}, "alltoall")
                        /\ d = Each(n, "finish", {r}, "alltoall")
  OBVIOUS
<1>4. OneKind(n, a, "post", Q)
  BY <1>1, <1>2, <1>3, EachKind
<1>5. OneKind(n, b, "start", Q)
  BY <1>1, <1>2, <1>3, EachKind
<1>6. OneKind(n, c, "await", Q)
  BY <1>1, <1>2, <1>3, EachKind
<1>7. OneKind(n, d, "finish", Q)
  BY <1>1, <1>2, <1>3, EachKind
<1>8. Exchange(n, r, a \o b \o c \o d, Q, Q)
  BY <1>4, <1>5, <1>6, <1>7, BothExchange
<1>9. AlltoallSteps(n, r) = a \o b \o c \o d /\ Others(n, r) = Q
  BY <1>2, <1>3 DEF AlltoallSteps, Others
<1>10. QED
  BY <1>8, <1>9

(***************************************************************************)
(* A reduction goes to smaller ranks and a broadcast to larger ones, both  *)
(* counted from the root.                                                  *)
(***************************************************************************)
LEMMA RelativeToZero ==
  ASSUME NEW n \in Nat \ {0, 1}, NEW r \in 0..(n - 1)
  PROVE  Relative(n, r, 0) = r
<1>1. 0 \in 0..(n - 1)
  OBVIOUS
<1>2. Relative(n, r, 0) = IF r < 0 THEN r - 0 + n ELSE r - 0
  BY <1>1, RelativeValue
<1>3. QED
  BY <1>2

LEMMA BcastGoesUp ==
  ASSUME NEW n \in Nat \ {0, 1}, NEW r \in 0..(n - 1)
  PROVE  /\ \A q \in BcastFrom(n, r, 0) : q < r
         /\ \A q \in BcastTo(n, r, 0) : r < q
<1>1. 0 \in 0..(n - 1) /\ Relative(n, r, 0) = r
  BY RelativeToZero
<1>2. ASSUME NEW q \in BcastFrom(n, r, 0)
      PROVE  q < r
  <2>1. r # 0 /\ q = Above(n, r, 0)
    BY <1>1, <1>2 DEF BcastFrom
  <2>2. PICK d : d = Strides(n, 2)[Reached(n, 2, r)]
    OBVIOUS
  <2>3. d \in 1..(n - 1) /\ d <= r /\ q = Backward(n, r, d) /\ Relative(n, q, 0) = r - d
    BY <1>1, <2>1, <2>2, AboveIs
  <2>4. q \in 0..(n - 1)
    BY <2>3, ThereAndBack
  <2>5. q = r - d
    BY <2>3, <2>4, RelativeToZero
  <2> QED
    BY <2>3, <2>5
<1>3. ASSUME NEW q \in BcastTo(n, r, 0)
      PROVE  r < q
  <2>1. PICK p, v : p = Strides(n, 2) /\ v = Reached(n, 2, r)
    OBVIOUS
  <2>2. PICK i \in BcastTurns(n, r) : q = Forward(n, r, p[v - i])
    BY <1>1, <1>3, <2>1 DEF BcastTo
  <2>3. p[v - i] \in 1..(n - 1) /\ r + p[v - i] < n
    BY <2>1, BcastStride
  <2>4. PICK d \in 1..(n - 1) : d = p[v - i] /\ r + d < n /\ q = Forward(n, r, d)
    BY <2>2, <2>3
  <2>5. q = IF r + d < n THEN r + d ELSE r + d - n
    BY <2>4, ForwardIs
  <2> QED
    BY <2>4, <2>5
<1>4. QED
  BY <1>2, <1>3

LEMMA ReduceGoesDown ==
  ASSUME NEW n \in Nat \ {0, 1}, NEW k \in Nat \ {0, 1}, NEW r \in 0..(n - 1)
  PROVE  /\ \A q \in ReduceFrom(n, k, r, 0) : r < q
         /\ \A q \in ReduceTo(n, k, r, 0) : q < r
<1>1. 0 \in 0..(n - 1) /\ Relative(n, r, 0) = r
  BY RelativeToZero
<1>2. ASSUME NEW q \in ReduceFrom(n, k, r, 0)
      PROVE  r < q
  <2>1. PICK j \in 1..Reached(n, k, r) : q \in ChildRanks(n, k, r, 0, j)
    BY <1>1, <1>2 DEF ReduceFrom
  <2>2. q \in 0..(n - 1) /\ r < Relative(n, q, 0)
    BY <1>1, <2>1, ChildRankIs
  <2> QED
    BY <2>2, RelativeToZero
<1>3. ASSUME NEW q \in ReduceTo(n, k, r, 0)
      PROVE  q < r
  <2>1. PICK y : y = r - Rest(n, k, r)
    OBVIOUS
  <2>2. r # 0 /\ q = Forward(n, 0, y)
    BY <1>1, <1>3, <2>1 DEF ReduceTo
  <2>3. y \in 0..(n - 1) /\ y < r
    BY <2>1, <2>2, RestIs
  <2>4. q \in 0..(n - 1) /\ Relative(n, q, 0) = y
    BY <1>1, <2>2, <2>3, RelativeOf
  <2>5. q = y
    BY <2>4, RelativeToZero
  <2> QED
    BY <2>3, <2>5
<1>4. QED
  BY <1>2, <1>3

LEMMA AllreduceExchange ==
  ASSUME NEW n \in Nat \ {0, 1}, NEW k \in Nat \ {0, 1}, NEW r \in 0..(n - 1)
  PROVE  Exchange(n, r, ReduceSteps(n, k, r, 0) \o BcastSteps(n, r, 0),
                  ReduceFrom(n, k, r, 0) \cup BcastFrom(n, r, 0),
                  ReduceTo(n, k, r, 0) \cup BcastTo(n, r, 0))
<1>1. PICK s, t, f, g, u, v :
        /\ s = ReduceSteps(n, k, r, 0) /\ t = BcastSteps(n, r, 0)
        /\ f = ReduceFrom(n, k, r, 0) /\ g = ReduceTo(n, k, r, 0)
        /\ u = BcastFrom(n, r, 0) /\ v = BcastTo(n, r, 0)
  OBVIOUS
<1>2. 0 \in 0..(n - 1)
  OBVIOUS
<1>3. Exchange(n, r, s, f, g)
  BY <1>1, <1>2, ReduceExchange
<1>4. Exchange(n, r, t, u, v)
  BY <1>1, <1>2, BcastExchange
<1>5. /\ \A q \in f : q \in 0..(n - 1) /\ r < q
      /\ \A q \in g : q \in 0..(n - 1) /\ q < r
      /\ \A q \in u : q < r
      /\ \A q \in v : r < q
  <2>1. f \subseteq 0..(n - 1) /\ g \subseteq 0..(n - 1)
    BY <1>3 DEF Exchange
  <2>2. (\A q \in f : r < q) /\ (\A q \in g : q < r)
    BY <1>1, ReduceGoesDown
  <2>3. (\A q \in u : q < r) /\ (\A q \in v : r < q)
    BY <1>1, BcastGoesUp
  <2> QED
    BY <2>1, <2>2, <2>3
<1>6. f \cap u = {}
  BY <1>5
<1>7. g \cap v = {}
  BY <1>5
<1>8. Exchange(n, r, s \o t, f \cup u, g \cup v)
  BY <1>3, <1>4, <1>6, <1>7, ExchangeConcat
<1>9. QED
  BY <1>1, <1>8

LEMMA AllgatherExchange ==
  ASSUME NEW n \in Nat \ {0, 1}, NEW r \in 0..(n - 1), NEW empty
  PROVE  Exchange(n, r, GatherSteps(n, r, 0, empty) \o BcastSteps(n, r, 0),
                  GatherFrom(n, r, 0, empty) \cup BcastFrom(n, r, 0),
                  GatherTo(n, r, 0, empty) \cup BcastTo(n, r, 0))
<1>1. PICK s, t, f, g, u, v :
        /\ s = GatherSteps(n, r, 0, empty) /\ t = BcastSteps(n, r, 0)
        /\ f = GatherFrom(n, r, 0, empty) /\ g = GatherTo(n, r, 0, empty)
        /\ u = BcastFrom(n, r, 0) /\ v = BcastTo(n, r, 0)
  OBVIOUS
<1>2. 0 \in 0..(n - 1)
  OBVIOUS
<1>3. Exchange(n, r, s, f, g)
  BY <1>1, <1>2, GatherExchange
<1>4. Exchange(n, r, t, u, v)
  BY <1>1, <1>2, BcastExchange
<1>5. /\ u \subseteq 0..(n - 1) /\ v \subseteq 0..(n - 1)
      /\ \A q \in u : q < r
      /\ \A q \in v : r < q
  <2>1. u \subseteq 0..(n - 1) /\ v \subseteq 0..(n - 1)
    BY <1>4 DEF Exchange
  <2> QED
    BY <1>1, <2>1, BcastGoesUp
<1>6. f \cap u = {}
  <2>1. r # 0 => f = {}
    BY <1>1 DEF GatherFrom
  <2>2. r = 0 => u = {}
    BY <1>5
  <2> QED
    BY <2>1, <2>2
<1>7. g \cap v = {}
  <2>1. g \subseteq {0}
    BY <1>1 DEF GatherTo
  <2>2. 0 \notin v
    BY <1>5
  <2> QED
    BY <2>1, <2>2
<1>8. Exchange(n, r, s \o t, f \cup u, g \cup v)
  BY <1>3, <1>4, <1>6, <1>7, ExchangeConcat
<1>9. QED
  BY <1>1, <1>8

(***************************************************************************)
(* The ranks that rank r receives from and sends to in a call.             *)
(***************************************************************************)
IsCall(n, c) ==
  /\ c.kind \in {"barrier", "bcast", "reduce", "allreduce", "gather", "allgather",
                 "scatter", "alltoall"}
  /\ c.root \in 0..(n - 1)

From(n, k, r, c) ==
  CASE c.kind = "barrier"   -> BarrierFrom(n, r)
    [] c.kind = "bcast"     -> BcastFrom(n, r, c.root)
    [] c.kind = "reduce"    -> ReduceFrom(n, k, r, c.root)
    [] c.kind = "allreduce" -> ReduceFrom(n, k, r, 0) \cup BcastFrom(n, r, 0)
    [] c.kind = "gather"    -> GatherFrom(n, r, c.root, c.empty)
    [] c.kind = "allgather" -> GatherFrom(n, r, 0, c.empty) \cup BcastFrom(n, r, 0)
    [] c.kind = "scatter"   -> ScatterFrom(n, r, c.root)
    [] c.kind = "alltoall"  -> Others(n, r)

To(n, k, r, c) ==
  CASE c.kind = "barrier"   -> BarrierTo(n, r)
    [] c.kind = "bcast"     -> BcastTo(n, r, c.root)
    [] c.kind = "reduce"    -> ReduceTo(n, k, r, c.root)
    [] c.kind = "allreduce" -> ReduceTo(n, k, r, 0) \cup BcastTo(n, r, 0)
    [] c.kind = "gather"    -> GatherTo(n, r, c.root, c.empty)
    [] c.kind = "allgather" -> GatherTo(n, r, 0, c.empty) \cup BcastTo(n, r, 0)
    [] c.kind = "scatter"   -> ScatterTo(n, r, c.root)
    [] c.kind = "alltoall"  -> Others(n, r)

(***************************************************************************)
(* In every call a rank sends to and receives from other ranks, at most    *)
(* once each, and waits for all it started.                                *)
(***************************************************************************)
THEOREM ScheduleExchange ==
  ASSUME NEW n \in Nat \ {0, 1}, NEW k \in Nat \ {0, 1}, NEW r \in 0..(n - 1),
         NEW c, IsCall(n, c)
  PROVE  Exchange(n, r, Schedule(n, k, r, c), From(n, k, r, c), To(n, k, r, c))
<1>1. c.root \in 0..(n - 1)
  BY DEF IsCall
<1>2. CASE c.kind = "barrier"
  <2>1. /\ Schedule(n, k, r, c) = BarrierSteps(n, r)
        /\ From(n, k, r, c) = BarrierFrom(n, r) /\ To(n, k, r, c) = BarrierTo(n, r)
    BY <1>2 DEF Schedule, From, To
  <2> QED
    BY <2>1, BarrierExchange
<1>3. CASE c.kind = "bcast"
  <2>1. /\ Schedule(n, k, r, c) = BcastSteps(n, r, c.root)
        /\ From(n, k, r, c) = BcastFrom(n, r, c.root) /\ To(n, k, r, c) = BcastTo(n, r, c.root)
    BY <1>3 DEF Schedule, From, To
  <2> QED
    BY <1>1, <2>1, BcastExchange
<1>4. CASE c.kind = "reduce"
  <2>1. /\ Schedule(n, k, r, c) = ReduceSteps(n, k, r, c.root)
        /\ From(n, k, r, c) = ReduceFrom(n, k, r, c.root)
        /\ To(n, k, r, c) = ReduceTo(n, k, r, c.root)
    BY <1>4 DEF Schedule, From, To
  <2> QED
    BY <1>1, <2>1, ReduceExchange
<1>5. CASE c.kind = "allreduce"
  <2>1. /\ Schedule(n, k, r, c) = ReduceSteps(n, k, r, 0) \o BcastSteps(n, r, 0)
        /\ From(n, k, r, c) = ReduceFrom(n, k, r, 0) \cup BcastFrom(n, r, 0)
        /\ To(n, k, r, c) = ReduceTo(n, k, r, 0) \cup BcastTo(n, r, 0)
    BY <1>5 DEF Schedule, From, To
  <2> QED
    BY <2>1, AllreduceExchange
<1>6. CASE c.kind = "gather"
  <2>1. /\ Schedule(n, k, r, c) = GatherSteps(n, r, c.root, c.empty)
        /\ From(n, k, r, c) = GatherFrom(n, r, c.root, c.empty)
        /\ To(n, k, r, c) = GatherTo(n, r, c.root, c.empty)
    BY <1>6 DEF Schedule, From, To
  <2> QED
    BY <1>1, <2>1, GatherExchange
<1>7. CASE c.kind = "allgather"
  <2>1. /\ Schedule(n, k, r, c) = GatherSteps(n, r, 0, c.empty) \o BcastSteps(n, r, 0)
        /\ From(n, k, r, c) = GatherFrom(n, r, 0, c.empty) \cup BcastFrom(n, r, 0)
        /\ To(n, k, r, c) = GatherTo(n, r, 0, c.empty) \cup BcastTo(n, r, 0)
    BY <1>7 DEF Schedule, From, To
  <2> QED
    BY <2>1, AllgatherExchange
<1>8. CASE c.kind = "scatter"
  <2>1. /\ Schedule(n, k, r, c) = ScatterSteps(n, r, c.root)
        /\ From(n, k, r, c) = ScatterFrom(n, r, c.root)
        /\ To(n, k, r, c) = ScatterTo(n, r, c.root)
    BY <1>8 DEF Schedule, From, To
  <2> QED
    BY <1>1, <2>1, ScatterExchange
<1>9. CASE c.kind = "alltoall"
  <2>1. /\ Schedule(n, k, r, c) = AlltoallSteps(n, r)
        /\ From(n, k, r, c) = Others(n, r) /\ To(n, k, r, c) = Others(n, r)
    BY <1>9 DEF Schedule, From, To
  <2> QED
    BY <2>1, AlltoallExchange
<1>10. QED
  BY <1>2, <1>3, <1>4, <1>5, <1>6, <1>7, <1>8, <1>9 DEF IsCall

(***************************************************************************)
(* One rank sends to another in a call exactly if the other receives from  *)
(* it, for every size, root and radix.                                     *)
(***************************************************************************)
THEOREM SchedulePaired ==
  ASSUME NEW n \in Nat \ {0, 1}, NEW k \in Nat \ {0, 1}, NEW s \in 0..(n - 1),
         NEW r \in 0..(n - 1), NEW c, IsCall(n, c)
  PROVE  r \in To(n, k, s, c) <=> s \in From(n, k, r, c)
<1>1. c.root \in 0..(n - 1) /\ 0 \in 0..(n - 1)
  BY DEF IsCall
<1>2. \A root \in 0..(n - 1) :
        /\ r \in BcastTo(n, s, root) <=> s \in BcastFrom(n, r, root)
        /\ r \in ReduceTo(n, k, s, root) <=> s \in ReduceFrom(n, k, r, root)
  BY BcastPaired, ReducePaired
<1>3. \A root \in 0..(n - 1) : \A empty :
        r \in GatherTo(n, s, root, empty) <=> s \in GatherFrom(n, r, root, empty)
  BY DEF GatherTo, GatherFrom
<1>4. CASE c.kind = "barrier"
  BY <1>4, BarrierPaired DEF From, To
<1>5. CASE c.kind = "bcast"
  BY <1>1, <1>2, <1>5 DEF From, To
<1>6. CASE c.kind = "reduce"
  BY <1>1, <1>2, <1>6 DEF From, To
<1>7. CASE c.kind = "allreduce"
  BY <1>1, <1>2, <1>7 DEF From, To
<1>8. CASE c.kind = "gather"
  BY <1>1, <1>3, <1>8 DEF From, To
<1>9. CASE c.kind = "allgather"
  BY <1>1, <1>2, <1>3, <1>9 DEF From, To
<1>10. CASE c.kind = "scatter"
  BY <1>1, <1>10 DEF From, To, ScatterFrom, ScatterTo, Others
<1>11. CASE c.kind = "alltoall"
  BY <1>11 DEF From, To, Others
<1>12. QED
  BY <1>4, <1>5, <1>6, <1>7, <1>8, <1>9, <1>10, <1>11 DEF IsCall

-----------------------------------------------------------------------------
(***************************************************************************)
(* Each step of one kind with one peer has one of another kind with        *)
(* another peer after it.                                                  *)
(***************************************************************************)
Follows(s, a, p, b, q) ==
  \A i \in 1..Len(s) : s[i].do = a /\ s[i].peer = p =>
    \E j \in 1..Len(s) : i < j /\ s[j].do = b /\ s[j].peer = q

LEMMA FollowsFlatten ==
  ASSUME NEW D, NEW ss \in Seq(Seq(D)), NEW a, NEW p, NEW b, NEW q,
         NEW h \in 1..Len(ss), NEW i \in 1..Len(ss), h < i,
         \A j \in 1..Len(ss) : Has(ss[j], a, p) => j = h,
         Has(ss[i], b, q)
  PROVE  Follows(FlattenSeq(ss), a, p, b, q)
<1>1. PICK s : s = FlattenSeq(ss)
  OBVIOUS
<1>2. s \in Seq(D) /\ \E off : Placed(off, ss, s, Len(ss))
  BY <1>1, FlattenPlaces
<1>3. PICK off : Placed(off, ss, s, Len(ss))
  BY <1>2
<1>4. /\ \A j \in 1..Len(ss) : off[j] \in Nat /\ off[j] + Len(ss[j]) <= Len(s)
      /\ \A j \in 1..Len(ss) : \A g \in 1..Len(ss[j]) : s[off[j] + g] = ss[j][g]
      /\ \A x \in 1..Len(s) : \E j \in 1..Len(ss) : \E g \in 1..Len(ss[j]) : x = off[j] + g
      /\ off[h] + Len(ss[h]) <= off[i]
  BY <1>3 DEF Placed
<1>5. Len(s) \in Nat /\ \A j \in 1..Len(ss) : Len(ss[j]) \in Nat
  BY <1>2, LenProperties, ElementOfSeq
<1>6. PICK g \in 1..Len(ss[i]) : ss[i][g].do = b /\ ss[i][g].peer = q
  BY DEF Has
<1>7. ASSUME NEW x \in 1..Len(s), s[x].do = a, s[x].peer = p
      PROVE  \E y \in 1..Len(s) : x < y /\ s[y].do = b /\ s[y].peer = q
  <2>1. PICK j \in 1..Len(ss) : \E f \in 1..Len(ss[j]) : x = off[j] + f
    BY <1>4
  <2>2. PICK f \in 1..Len(ss[j]) : x = off[j] + f
    BY <2>1
  <2>3. s[x] = ss[j][f]
    BY <1>4, <2>2
  <2>4. j = h
    BY <1>7, <2>3 DEF Has
  <2>5. PICK o \in Nat, l \in Nat, u \in Nat, v \in Nat :
          o = off[h] /\ l = Len(ss[h]) /\ u = off[i] /\ v = Len(ss[i])
    BY <1>4, <1>5
  <2>6. /\ f \in 1..l /\ x = o + f /\ o + l <= u /\ g \in 1..v /\ u + v <= Len(s)
        /\ Len(s) \in Nat
    BY <1>4, <1>5, <1>6, <2>2, <2>4, <2>5
  <2>7. u + g \in 1..Len(s) /\ x < u + g
    BY <2>6
  <2>8. s[u + g] = ss[i][g]
    BY <1>4, <2>5
  <2> QED
    BY <1>6, <2>7, <2>8
<1>8. QED
  BY <1>1, <1>7 DEF Follows

LEMMA FollowsTail ==
  ASSUME NEW D, NEW s \in Seq(D), s # << >>, NEW a, NEW p, NEW b, NEW q,
         Follows(s, a, p, b, q), NEW t, t = Tail(s)
  PROVE  Follows(t, a, p, b, q)
<1>1. /\ Len(t) \in Nat /\ Len(s) = Len(t) + 1
      /\ \A i \in 1..Len(t) : t[i] = s[i + 1]
  BY HeadTailProperties, LenProperties
<1>2. ASSUME NEW i \in 1..Len(t), t[i].do = a, t[i].peer = p
      PROVE  \E j \in 1..Len(t) : i < j /\ t[j].do = b /\ t[j].peer = q
  <2>1. s[i + 1].do = a /\ s[i + 1].peer = p /\ i + 1 \in 1..Len(s)
    BY <1>1, <1>2
  <2>2. PICK g \in 1..Len(s) : i + 1 < g /\ s[g].do = b /\ s[g].peer = q
    BY <2>1 DEF Follows
  <2>3. g - 1 \in 1..Len(t) /\ i < g - 1 /\ g = g - 1 + 1
    BY <1>1, <2>2
  <2>4. t[g - 1] = s[g]
    BY <1>1, <2>3
  <2> QED
    BY <2>2, <2>3, <2>4
<1>3. QED
  BY <1>2 DEF Follows

LEMMA FollowsHas ==
  ASSUME NEW s, NEW a, NEW p, NEW b, NEW q, Follows(s, a, p, b, q), Has(s, a, p)
  PROVE  Has(s, b, q)
  BY DEF Follows, Has

(***************************************************************************)
(* No receive is posted before the last has been waited for.               *)
(***************************************************************************)
OneAtATime(s) ==
  \A i, j \in 1..Len(s) : i < j /\ s[i].do = "post" /\ s[j].do = "post" =>
    \E h \in 1..Len(s) : i < h /\ h < j /\ s[h].do = "await" /\ s[h].peer = s[i].peer

LEMMA OneReceive ==
  ASSUME NEW n, NEW r, NEW s, NEW from, NEW to, Exchange(n, r, s, from, to),
         \A p, q \in from : p = q
  PROVE  OneAtATime(s)
<1> SUFFICES ASSUME NEW i \in 1..Len(s), NEW j \in 1..Len(s), i < j,
                    s[i].do = "post", s[j].do = "post"
             PROVE  FALSE
  BY DEF OneAtATime
<1>1. Has(s, "post", s[i].peer) /\ Has(s, "post", s[j].peer)
  BY DEF Has
<1>2. s[i].peer = s[j].peer
  BY <1>1 DEF Exchange
<1>3. i = j
  BY <1>2 DEF Exchange, Once
<1>4. i \in Nat
  OBVIOUS
<1>5. QED
  BY <1>3, <1>4

LEMMA OneAtATimeConcat ==
  ASSUME NEW D, NEW s \in Seq(D), NEW t \in Seq(D), Then(s, "post", "await"),
         OneAtATime(s), OneAtATime(t)
  PROVE  OneAtATime(s \o t)
<1>1. PICK u : u = s \o t
  OBVIOUS
<1>2. /\ Len(s) \in Nat
      /\ \A i \in 1..Len(s) : i \in 1..Len(u) /\ u[i] = s[i]
      /\ \A i \in 1..Len(t) : Len(s) + i \in 1..Len(u) /\ u[Len(s) + i] = t[i]
      /\ \A i \in 1..Len(u) : i \in 1..Len(s) \/ \E j \in 1..Len(t) : i = Len(s) + j
  BY <1>1, ConcatPlaces
<1>3. ASSUME NEW i \in 1..Len(u), NEW j \in 1..Len(u), i < j,
             u[i].do = "post", u[j].do = "post"
      PROVE  \E h \in 1..Len(u) :
               i < h /\ h < j /\ u[h].do = "await" /\ u[h].peer = u[i].peer
  <2>1. CASE i \in 1..Len(s) /\ j \in 1..Len(s)
    <3>1. PICK h \in 1..Len(s) :
            i < h /\ h < j /\ s[h].do = "await" /\ s[h].peer = s[i].peer
      BY <1>2, <1>3, <2>1 DEF OneAtATime
    <3> QED
      BY <1>2, <2>1, <3>1
  <2>2. CASE i \in 1..Len(s) /\ j \notin 1..Len(s)
    <3>1. PICK h \in 1..Len(s) : i < h /\ s[h].do = "await" /\ s[h].peer = s[i].peer
      BY <1>2, <1>3, <2>2 DEF Then
    <3>2. PICK y \in 1..Len(t) : j = Len(s) + y
      BY <1>2, <2>2
    <3>3. h < j
      BY <1>2, <3>2
    <3> QED
      BY <1>2, <2>2, <3>1, <3>3
  <2>3. CASE i \notin 1..Len(s)
    <3>1. PICK x \in 1..Len(t) : i = Len(s) + x
      BY <1>2, <2>3
    <3>2. PICK y \in 1..Len(t) : j = Len(s) + y
      <4>1. j \notin 1..Len(s)
        BY <1>2, <1>3, <2>3
      <4> QED
        BY <1>2, <4>1
    <3>3. x < y /\ t[x].do = "post" /\ t[y].do = "post"
      BY <1>2, <1>3, <3>1, <3>2
    <3>4. PICK h \in 1..Len(t) :
            x < h /\ h < y /\ t[h].do = "await" /\ t[h].peer = t[x].peer
      BY <3>3 DEF OneAtATime
    <3>5. i < Len(s) + h /\ Len(s) + h < j
      BY <1>2, <3>1, <3>2, <3>4
    <3>6. /\ Len(s) + h \in 1..Len(u) /\ u[Len(s) + h].do = "await"
          /\ u[Len(s) + h].peer = u[i].peer
      BY <1>2, <3>1, <3>4
    <3> QED
      BY <3>5, <3>6
  <2>4. i \in 1..Len(s) \/ i \notin 1..Len(s)
    OBVIOUS
  <2> QED
    BY <2>1, <2>2, <2>3, <2>4
<1>4. OneAtATime(u)
  BY <1>3, Zenon DEF OneAtATime
<1>5. QED
  BY <1>1, <1>4

LEMMA OneAtATimeFlatten ==
  ASSUME NEW D, NEW ss \in Seq(Seq(D)),
         \A i \in 1..Len(ss) : Then(ss[i], "post", "await") /\ OneAtATime(ss[i])
  PROVE  OneAtATime(FlattenSeq(ss))
<1>1. PICK s : s = FlattenSeq(ss)
  OBVIOUS
<1>2. s \in Seq(D) /\ \E off : Placed(off, ss, s, Len(ss))
  BY <1>1, FlattenPlaces
<1>3. PICK off : Placed(off, ss, s, Len(ss))
  BY <1>2
<1>4. /\ \A i \in 1..Len(ss) : off[i] \in Nat /\ off[i] + Len(ss[i]) <= Len(s)
      /\ \A i \in 1..Len(ss) : \A j \in 1..Len(ss[i]) : s[off[i] + j] = ss[i][j]
      /\ \A x \in 1..Len(s) : \E i \in 1..Len(ss) : \E j \in 1..Len(ss[i]) : x = off[i] + j
      /\ \A h, i \in 1..Len(ss) : h < i => off[h] + Len(ss[h]) <= off[i]
  BY <1>3 DEF Placed
<1>5. /\ Len(s) \in Nat /\ Len(ss) \in Nat
      /\ \A i \in 1..Len(ss) : Len(ss[i]) \in Nat
  BY <1>2, LenProperties, ElementOfSeq
<1>6. ASSUME NEW x \in 1..Len(s), NEW y \in 1..Len(s), x < y,
             s[x].do = "post", s[y].do = "post"
      PROVE  \E z \in 1..Len(s) :
               x < z /\ z < y /\ s[z].do = "await" /\ s[z].peer = s[x].peer
  <2>1. PICK i \in 1..Len(ss) : \E g \in 1..Len(ss[i]) : x = off[i] + g
    BY <1>4
  <2>2. PICK g \in 1..Len(ss[i]) : x = off[i] + g
    BY <2>1
  <2>3. PICK j \in 1..Len(ss) : \E h \in 1..Len(ss[j]) : y = off[j] + h
    BY <1>4
  <2>4. PICK h \in 1..Len(ss[j]) : y = off[j] + h
    BY <2>3
  <2>5. s[x] = ss[i][g] /\ s[y] = ss[j][h]
    BY <1>4, <2>2, <2>4
  <2>6. PICK o \in Nat, l \in Nat, u \in Nat, v \in Nat, m \in Nat :
          /\ o = off[i] /\ l = Len(ss[i]) /\ u = off[j] /\ v = Len(ss[j])
          /\ m = Len(s)
    BY <1>4, <1>5
  <2>7. /\ g \in 1..l /\ h \in 1..v /\ x = o + g /\ y = u + h /\ o + l <= m
        /\ o \in Nat /\ l \in Nat /\ u \in Nat /\ v \in Nat /\ m \in Nat
    BY <1>4, <2>2, <2>4, <2>6
  <2>13. /\ Then(ss[i], "post", "await") /\ OneAtATime(ss[i])
         /\ ss[i][g].do = "post" /\ ss[j][h].do = "post"
    BY <1>6, <2>5
  <2>8. ASSUME NEW f \in 1..l, g < f, o + f < y,
               ss[i][f].do = "await", ss[i][f].peer = ss[i][g].peer
        PROVE  \E z \in 1..Len(s) :
                 x < z /\ z < y /\ s[z].do = "await" /\ s[z].peer = s[x].peer
    <3>3. o + f \in 1..m /\ x < o + f
      BY <2>7, <2>8
    <3>1. o + f \in 1..Len(s) /\ x < o + f
      BY <2>6, <3>3
    <3>2. s[o + f] = ss[i][f]
      BY <1>4, <2>6
    <3> QED
      BY <2>5, <2>8, <3>1, <3>2
  <2>9. CASE i = j
    <3>4. o = u /\ l = v
      BY <2>6, <2>9
    <3>1. g < h
      BY <1>6, <2>7, <3>4
    <3>2. PICK f \in 1..Len(ss[i]) :
            g < f /\ f < h /\ ss[i][f].do = "await" /\ ss[i][f].peer = ss[i][g].peer
      BY <2>9, <2>13, <3>1 DEF OneAtATime
    <3>5. f \in 1..l
      BY <2>6
    <3>3. o + f < y
      BY <2>7, <3>2, <3>4, <3>5
    <3> QED
      BY <2>8, <3>2, <3>3, <3>5
  <2>10. CASE i < j
    <3>1. PICK f \in 1..Len(ss[i]) :
            g < f /\ ss[i][f].do = "await" /\ ss[i][f].peer = ss[i][g].peer
      BY <2>13 DEF Then
    <3>2. o + l <= u
      BY <1>4, <2>6, <2>10
    <3>3. f \in 1..l
      BY <2>6
    <3>4. o + f < y
      BY <2>7, <3>2, <3>3
    <3> QED
      BY <2>8, <3>1, <3>3, <3>4
  <2>11. CASE j < i
    <3>1. u + v <= o
      BY <1>4, <2>6, <2>11
    <3> QED
      BY <1>6, <2>7, <3>1
  <2>12. i = j \/ i < j \/ j < i
    BY <1>5
  <2> QED
    BY <2>9, <2>10, <2>11, <2>12
<1>7. QED
  BY <1>1, <1>6 DEF OneAtATime

LEMMA OneAtATimeLoop ==
  ASSUME NEW n, NEW r, NEW ss, NEW l \in Nat, NEW f, NEW g, IsLoop(n, r, ss, l, f, g),
         Singles(f, l)
  PROVE  OneAtATime(FlattenSeq(ss))
<1>1. ss = [i \in 1..l |-> ss[i]] /\ \A i \in 1..l : Exchange(n, r, ss[i], f[i], g[i])
  BY DEF IsLoop
<1>2. PICK D : D = StepSet(n)
  OBVIOUS
<1>3. \A i \in 1..l : ss[i] \in Seq(D) /\ Then(ss[i], "post", "await")
  BY <1>1, <1>2 DEF Exchange
<1>4. ss \in Seq(Seq(D)) /\ Len(ss) = l
  BY <1>1, <1>3
<1>5. ASSUME NEW i \in 1..l
      PROVE  OneAtATime(ss[i])
  BY <1>1, OneReceive DEF Singles
<1>6. QED
  BY <1>3, <1>4, <1>5, OneAtATimeFlatten

(***************************************************************************)
(* Reductions on a binary tree: one child in each turn.                    *)
(***************************************************************************)
LEMMA BinaryReduce ==
  ASSUME NEW n \in Nat \ {0, 1}, NEW r \in 0..(n - 1), NEW root \in 0..(n - 1)
  PROVE  OneAtATime(ReduceSteps(n, 2, r, root))
<1>1. PICK x \in 0..(n - 1) : x = Relative(n, r, root)
  BY RelativeIs
<1>2. 2 \in Nat \ {0, 1}
  OBVIOUS
<1>3. PICK v : v = Reached(n, 2, Relative(n, r, root))
  OBVIOUS
<1>4. v \in Nat
  BY <1>1, <1>2, <1>3, ReachedIs
<1>5. PICK f, g : f = ChildSets(n, 2, r, root) /\ g = NoSets(n, 2, r, root)
  OBVIOUS
<1>6. PICK ss, t : /\ ReduceSteps(n, 2, r, root) = FlattenSeq(ss) \o t
                   /\ IsLoop(n, r, ss, v, f, g)
                   /\ Exchange(n, r, t, {}, ReduceTo(n, 2, r, root))
  BY <1>2, <1>3, <1>5, ReduceLoop
<1>7. ASSUME NEW j \in 1..v, NEW p \in f[j], NEW q \in f[j]
      PROVE  p = q
  <2>1. \A i \in Offsets(n, 2, x, j) : i = 1
    BY DEF Offsets
  <2>2. p \in ChildRanks(n, 2, r, root, j) /\ q \in ChildRanks(n, 2, r, root, j)
    BY <1>3, <1>5 DEF ChildSets
  <2>3. PICK h \in Offsets(n, 2, x, j), i \in Offsets(n, 2, x, j) :
          /\ p = Forward(n, root, Child(n, 2, x, j, h))
          /\ q = Forward(n, root, Child(n, 2, x, j, i))
    BY <1>1, <2>2 DEF ChildRanks
  <2> QED
    BY <2>1, <2>3
<1>8. PICK s : s = FlattenSeq(ss)
  OBVIOUS
<1>16. Singles(f, v)
  BY <1>7 DEF Singles
<1>9. OneAtATime(s)
  BY <1>4, <1>6, <1>8, <1>16, OneAtATimeLoop
<1>10. OneAtATime(t)
  BY <1>6, OneReceive
<1>11. PICK F, G : Collects(F, f, v) /\ Collects(G, g, v)
  <2>1. PICK F, G : F = UNION {f[i] : i \in 1..v} /\ G = UNION {g[i] : i \in 1..v}
    OBVIOUS
  <2>2. /\ \A p : p \in F <=> \E i \in 1..v : p \in f[i]
        /\ \A p : p \in G <=> \E i \in 1..v : p \in g[i]
    BY <2>1
  <2> QED
    BY <2>2 DEF Collects
<1>12. Exchange(n, r, s, F, G)
  BY <1>4, <1>6, <1>8, <1>11, ExchangeFlatten
<1>13. s \in Seq(StepSet(n)) /\ Then(s, "post", "await") /\ t \in Seq(StepSet(n))
  BY <1>6, <1>12 DEF Exchange
<1>14. OneAtATime(s \o t)
  BY <1>9, <1>10, <1>13, OneAtATimeConcat
<1>15. QED
  BY <1>6, <1>8, <1>14

(***************************************************************************)
(* In a bcast a rank has one message to receive.                           *)
(***************************************************************************)
LEMMA OneFromAbove ==
  ASSUME NEW n \in Nat \ {0, 1}, NEW r \in 0..(n - 1), NEW root \in 0..(n - 1)
  PROVE  OneAtATime(BcastSteps(n, r, root))
<1>1. Exchange(n, r, BcastSteps(n, r, root), BcastFrom(n, r, root), BcastTo(n, r, root))
  BY BcastExchange
<1>2. \A p, q \in BcastFrom(n, r, root) : p = q
  BY DEF BcastFrom
<1>3. QED
  BY <1>1, <1>2, OneReceive

(***************************************************************************)
(* The calls that wait for one receive before they post another: a barrier, *)
(* a bcast and a scatter for every size, a reduce and an allreduce if the  *)
(* radix is 2.  These share the queue of mona_urecv with nobody.           *)
(***************************************************************************)
THEOREM ScheduleInTurn ==
  ASSUME NEW n \in Nat \ {0, 1}, NEW k \in Nat \ {0, 1}, NEW r \in 0..(n - 1),
         NEW c, IsCall(n, c),
         \/ c.kind \in {"barrier", "bcast", "scatter"}
         \/ c.kind \in {"reduce", "allreduce"} /\ k = 2
  PROVE  OneAtATime(Schedule(n, k, r, c))
<1>1. c.root \in 0..(n - 1) /\ 0 \in 0..(n - 1)
  BY DEF IsCall
<1>2. CASE c.kind = "barrier"
  <2>1. Schedule(n, k, r, c) = BarrierSteps(n, r)
    BY <1>2 DEF Schedule
  <2>2. PICK t : t = Turns(n, 2)
    OBVIOUS
  <2>6. t \in Nat
    <3>1. 2 \in Nat \ {0, 1}
      OBVIOUS
    <3> QED
      BY <2>2, <3>1, TurnsAre
  <2>3. PICK ss, f, g : /\ BarrierSteps(n, r) = FlattenSeq(ss)
                        /\ IsLoop(n, r, ss, t, f, g)
                        /\ Collects(BarrierFrom(n, r), f, t)
                        /\ Collects(BarrierTo(n, r), g, t)
                        /\ Singles(f, t)
    BY <2>2, BarrierLoop
  <2>5. OneAtATime(FlattenSeq(ss))
    BY <2>3, <2>6, OneAtATimeLoop
  <2> QED
    BY <2>1, <2>3, <2>5
<1>3. CASE c.kind = "bcast"
  <2>1. Schedule(n, k, r, c) = BcastSteps(n, r, c.root)
    BY <1>3 DEF Schedule
  <2> QED
    BY <1>1, <2>1, OneFromAbove
<1>4. CASE c.kind = "scatter"
  <2>1. Schedule(n, k, r, c) = ScatterSteps(n, r, c.root)
    BY <1>4 DEF Schedule
  <2>2. Exchange(n, r, ScatterSteps(n, r, c.root), ScatterFrom(n, r, c.root),
                 ScatterTo(n, r, c.root))
    BY <1>1, ScatterExchange
  <2>3. \A p, q \in ScatterFrom(n, r, c.root) : p = q
    BY DEF ScatterFrom
  <2>4. OneAtATime(ScatterSteps(n, r, c.root))
    BY <2>2, <2>3, OneReceive
  <2> QED
    BY <2>1, <2>4
<1>5. CASE c.kind = "reduce" /\ k = 2
  <2>1. Schedule(n, k, r, c) = ReduceSteps(n, 2, r, c.root)
    BY <1>5 DEF Schedule
  <2> QED
    BY <1>1, <2>1, BinaryReduce
<1>6. CASE c.kind = "allreduce" /\ k = 2
  <2>1. PICK s, t : s = ReduceSteps(n, 2, r, 0) /\ t = BcastSteps(n, r, 0)
    OBVIOUS
  <2>2. Schedule(n, k, r, c) = s \o t
    BY <1>6, <2>1 DEF Schedule
  <2>3. 2 \in Nat \ {0, 1}
    OBVIOUS
  <2>4. Exchange(n, r, s, ReduceFrom(n, 2, r, 0), ReduceTo(n, 2, r, 0))
    BY <1>1, <2>1, <2>3, ReduceExchange
  <2>5. Exchange(n, r, t, BcastFrom(n, r, 0), BcastTo(n, r, 0))
    BY <1>1, <2>1, BcastExchange
  <2>6. /\ s \in Seq(StepSet(n)) /\ t \in Seq(StepSet(n)) /\ Then(s, "post", "await")
    BY <2>4, <2>5 DEF Exchange
  <2>7. OneAtATime(s) /\ OneAtATime(t)
    BY <1>1, <2>1, BinaryReduce, OneFromAbove
  <2> QED
    BY <2>2, <2>6, <2>7, OneAtATimeConcat
<1>7. QED
  BY <1>2, <1>3, <1>4, <1>5, <1>6

(***************************************************************************)
(* In a barrier a rank waits for the message of one turn before it sends   *)
(* that of a later one.                                                    *)
(***************************************************************************)
LEMMA BarrierFollows ==
  ASSUME NEW n \in Nat \ {0, 1}, NEW r \in 0..(n - 1),
         NEW j \in 1..Turns(n, 2), NEW i \in 1..Turns(n, 2), j < i
  PROVE  Follows(BarrierSteps(n, r),
                 "await", Backward(n, r, Strides(n, 2)[j - 1]),
                 "start", Forward(n, r, Strides(n, 2)[i - 1]))
<1>1. PICK t, p : t = Turns(n, 2) /\ p = Strides(n, 2)
  OBVIOUS
<1>2. t \in Nat
  BY <1>1, TurnsAre
<1>3. PICK ss : ss = [h \in 1..t |->
                  SendRecv(Forward(n, r, p[h - 1]), Backward(n, r, p[h - 1]), "barrier")]
  OBVIOUS
<1>4. BarrierSteps(n, r) = FlattenSeq(ss)
  BY <1>1, <1>3 DEF BarrierSteps, Forward, Backward
<1>5. \A h \in 1..t : p[h - 1] \in 1..(n - 1)
  BY <1>1, BarrierStride
<1>6. ASSUME NEW h \in 1..t
      PROVE  Exchange(n, r, ss[h], {Backward(n, r, p[h - 1])}, {Forward(n, r, p[h - 1])})
  <2>0. PICK d \in 1..(n - 1) : d = p[h - 1]
    BY <1>5
  <2>1. PICK dst \in 0..(n - 1) : dst = Forward(n, r, p[h - 1]) /\ dst # r
    <3>1. Forward(n, r, d) \in 0..(n - 1) /\ Forward(n, r, d) # r
      BY ThereAndBack, Zenon
    <3> QED
      BY <2>0, <3>1
  <2>2. PICK src \in 0..(n - 1) : src = Backward(n, r, p[h - 1]) /\ src # r
    <3>1. Backward(n, r, d) \in 0..(n - 1) /\ Backward(n, r, d) # r
      BY ThereAndBack, Zenon
    <3> QED
      BY <2>0, <3>1
  <2>3. "barrier" \in Parts
    BY DEF Parts
  <2>4. Exchange(n, r, SendRecv(dst, src, "barrier"), {src}, {dst})
    BY <2>1, <2>2, <2>3, SendRecvExchange
  <2>5. ss[h] = SendRecv(dst, src, "barrier")
    BY <1>3, <2>1, <2>2
  <2> QED
    BY <2>1, <2>2, <2>4, <2>5
<1>7. PICK x, y : x = Backward(n, r, p[j - 1]) /\ y = Forward(n, r, p[i - 1])
  OBVIOUS
<1>8. j \in 1..t /\ i \in 1..t
  BY <1>1
<1>9. ASSUME NEW h \in 1..t, Has(ss[h], "await", x)
      PROVE  h = j
  <2>1. x = Backward(n, r, p[h - 1])
    <3>1. PICK f, g : f = {Backward(n, r, p[h - 1])} /\ g = {Forward(n, r, p[h - 1])}
      OBVIOUS
    <3>2. Exchange(n, r, ss[h], f, g)
      BY <1>6, <3>1
    <3>3. x \in f
      BY <1>9, <3>2 DEF Exchange
    <3> QED
      BY <3>1, <3>3
  <2>2. PICK d \in 1..(n - 1), e \in 1..(n - 1) : d = p[h - 1] /\ e = p[j - 1]
    BY <1>5, <1>8
  <2>3. Backward(n, r, d) = Backward(n, r, e)
    BY <1>7, <2>1, <2>2
  <2>4. d = e
    BY <2>3, ThereAndBack
  <2> QED
    BY <1>1, <1>8, <2>2, <2>4, BarrierStride
<1>10. Has(ss[i], "start", y)
  BY <1>6, <1>7, <1>8 DEF Exchange
<1>11. ss \in Seq(Seq(StepSet(n))) /\ Len(ss) = t
  <2>1. \A h \in 1..t : ss[h] \in Seq(StepSet(n))
    BY <1>6 DEF Exchange
  <2>2. ss = [h \in 1..t |-> ss[h]]
    BY <1>3
  <2> QED
    BY <1>2, <2>1, <2>2
<1>12. Follows(FlattenSeq(ss), "await", x, "start", y)
  BY <1>8, <1>9, <1>10, <1>11, FollowsFlatten
<1>13. QED
  BY <1>1, <1>4, <1>7, <1>12

(***************************************************************************)
(* Steps back add up, and lead to every rank.                              *)
(***************************************************************************)
LEMMA BackAndBack ==
  ASSUME NEW n \in Nat \ {0, 1}, NEW r \in 0..(n - 1), NEW d \in 0..(n - 1),
         NEW e \in 0..(n - 1), d + e < n
  PROVE  Backward(n, Backward(n, r, d), e) = Backward(n, r, d + e)
<1>1. \A s \in 0..(n - 1) : \A x \in 0..(n - 1) :
        Backward(n, s, x) = IF s < x THEN s - x + n ELSE s - x
  BY BackwardIs
<1>2. PICK y : y = Backward(n, r, d)
  OBVIOUS
<1>3. y = IF r < d THEN r - d + n ELSE r - d
  BY <1>1, <1>2
<1>4. y \in 0..(n - 1)
  BY <1>3
<1>5. PICK z : z = Backward(n, y, e)
  OBVIOUS
<1>6. z = IF y < e THEN y - e + n ELSE y - e
  BY <1>1, <1>4, <1>5
<1>7. PICK x \in 0..(n - 1) : x = d + e
  OBVIOUS
<1>8. PICK w : w = Backward(n, r, x)
  OBVIOUS
<1>9. w = IF r < x THEN r - x + n ELSE r - x
  BY <1>1, <1>8
<1>10. z = w
  BY <1>3, <1>6, <1>7, <1>9
<1>11. QED
  BY <1>2, <1>5, <1>7, <1>8, <1>10

LEMMA BackToAll ==
  ASSUME NEW n \in Nat \ {0, 1}, NEW r \in 0..(n - 1), NEW q \in 0..(n - 1)
  PROVE  \E d \in 0..(n - 1) : q = Backward(n, r, d)
<1>1. CASE q <= r
  <2>1. r - q \in 0..(n - 1) /\ ~ (r < r - q) /\ r - (r - q) = q
    BY <1>1
  <2>2. Backward(n, r, r - q) = q
    BY <2>1, BackwardIs
  <2> QED
    BY <2>1, <2>2
<1>2. CASE ~ (q <= r)
  <2>1. r - q + n \in 0..(n - 1) /\ r < r - q + n /\ r - (r - q + n) + n = q
    BY <1>2
  <2>2. Backward(n, r, r - q + n) = q
    BY <2>1, BackwardIs
  <2> QED
    BY <2>1, <2>2
<1>3. QED
  BY <1>1, <1>2

-----------------------------------------------------------------------------
(***************************************************************************)
(* The order of the steps in all but the barrier and alltoall: what comes  *)
(* before the bcast first, and in each part the receives first.            *)
(***************************************************************************)
Phase(x) == IF x.of = "bcast" THEN (IF x.do \in {"post", "await"} THEN 3 ELSE 4)
                              ELSE (IF x.do \in {"post", "await"} THEN 1 ELSE 2)

Phased(s) == \A i, j \in 1..Len(s) : i < j => Phase(s[i]) <= Phase(s[j])

Within(s, lo, hi) == \A i \in 1..Len(s) : lo <= Phase(s[i]) /\ Phase(s[i]) <= hi

AllOf(s, of) == \A i \in 1..Len(s) : s[i].of = of

Doing(dos, P, of) == [do : dos, peer : P, of : {of}]

LEMMA PhaseIs ==
  ASSUME NEW x
  PROVE  /\ Phase(x) \in 1..4
         /\ x.of # "bcast" /\ x.do \in {"post", "await"} => Phase(x) = 1
         /\ x.of # "bcast" /\ x.do \in {"start", "finish"} => Phase(x) = 2
         /\ x.of = "bcast" /\ x.do \in {"post", "await"} => Phase(x) = 3
         /\ x.of = "bcast" /\ x.do \in {"start", "finish"} => Phase(x) = 4
<1>1. "start" \notin {"post", "await"} /\ "finish" \notin {"post", "await"}
  OBVIOUS
<1> QED
  BY <1>1 DEF Phase

LEMMA OnlyPhased ==
  ASSUME NEW dos, NEW P, NEW of, NEW s \in Seq(Doing(dos, P, of)), NEW h \in Nat,
         \A x \in Doing(dos, P, of) : Phase(x) = h
  PROVE  Phased(s) /\ Within(s, h, h) /\ AllOf(s, of)
<1>1. \A i \in 1..Len(s) : s[i] \in Doing(dos, P, of)
  BY ElementOfSeq
<1>2. \A i \in 1..Len(s) : Phase(s[i]) = h
  BY <1>1
<1>3. \A i \in 1..Len(s) : s[i].of = of
  BY <1>1 DEF Doing
<1> QED
  BY <1>2, <1>3 DEF Phased, Within, AllOf

LEMMA PhasedConcat ==
  ASSUME NEW D, NEW s \in Seq(D), NEW t \in Seq(D), Phased(s), Phased(t),
         NEW a \in Nat, NEW b \in Nat, NEW c \in Nat, NEW d \in Nat,
         Within(s, a, b), Within(t, c, d), a <= b, b <= c, c <= d
  PROVE  Phased(s \o t) /\ Within(s \o t, a, d)
<1>1. PICK u : u = s \o t
  OBVIOUS
<1>2. /\ Len(s) \in Nat /\ Len(t) \in Nat
      /\ \A i \in 1..Len(s) : u[i] = s[i]
      /\ \A i \in 1..Len(t) : u[Len(s) + i] = t[i]
      /\ \A i \in 1..Len(u) : i \in 1..Len(s) \/ \E j \in 1..Len(t) : i = Len(s) + j
  BY <1>1, ConcatPlaces
<1>3. \A x : Phase(x) \in Nat
  BY PhaseIs
<1>4. ASSUME NEW i \in 1..Len(u)
      PROVE  \/ i \in 1..Len(s) /\ u[i] = s[i]
             \/ \E j \in 1..Len(t) : i = Len(s) + j /\ u[i] = t[j]
  BY <1>2
<1>5. Within(u, a, d)
  <2> SUFFICES ASSUME NEW i \in 1..Len(u)
               PROVE  a <= Phase(u[i]) /\ Phase(u[i]) <= d
    BY DEF Within
  <2>1. PICK h \in Nat : h = Phase(u[i])
    BY <1>3
  <2>2. \/ a <= h /\ h <= b
        \/ c <= h /\ h <= d
    BY <1>4, <2>1 DEF Within
  <2> QED
    BY <2>1, <2>2
<1>6. ASSUME NEW i \in 1..Len(u), NEW j \in 1..Len(u), i < j
      PROVE  Phase(u[i]) <= Phase(u[j])
  <2>1. PICK h \in Nat, g \in Nat : h = Phase(u[i]) /\ g = Phase(u[j])
    BY <1>3
  <2>2. CASE i \in 1..Len(s) /\ j \in 1..Len(s)
    <3>1. u[i] = s[i] /\ u[j] = s[j]
      BY <1>2, <2>2
    <3> QED
      BY <1>6, <2>2, <3>1 DEF Phased
  <2>3. CASE i \in 1..Len(s) /\ j \notin 1..Len(s)
    <3>1. h <= b
      BY <1>2, <2>1, <2>3 DEF Within
    <3>2. c <= g
      BY <1>4, <2>1, <2>3 DEF Within
    <3> QED
      BY <2>1, <3>1, <3>2
  <2>4. CASE i \notin 1..Len(s)
    <3>1. PICK x \in 1..Len(t) : i = Len(s) + x /\ u[i] = t[x]
      BY <1>4, <2>4
    <3>2. j \notin 1..Len(s)
      BY <1>2, <1>6, <2>4
    <3>3. PICK y \in 1..Len(t) : j = Len(s) + y /\ u[j] = t[y]
      BY <1>4, <3>2
    <3>4. x < y
      BY <1>2, <1>6, <3>1, <3>3
    <3> QED
      BY <3>1, <3>3, <3>4 DEF Phased
  <2> QED
    BY <2>2, <2>3, <2>4
<1>7. QED
  BY <1>1, <1>5, <1>6 DEF Phased

LEMMA AllOfConcat ==
  ASSUME NEW D, NEW s \in Seq(D), NEW t \in Seq(D), NEW of, AllOf(s, of), AllOf(t, of)
  PROVE  AllOf(s \o t, of)
<1>1. PICK u : u = s \o t
  OBVIOUS
<1>2. /\ \A i \in 1..Len(s) : u[i] = s[i]
      /\ \A i \in 1..Len(t) : u[Len(s) + i] = t[i]
      /\ \A i \in 1..Len(u) : i \in 1..Len(s) \/ \E j \in 1..Len(t) : i = Len(s) + j
  BY <1>1, ConcatPlaces
<1>3. ASSUME NEW i \in 1..Len(u)
      PROVE  u[i].of = of
  <2>1. CASE i \in 1..Len(s)
    BY <1>2, <2>1 DEF AllOf
  <2>2. ASSUME NEW j \in 1..Len(t), i = Len(s) + j
        PROVE  u[i].of = of
    BY <1>2, <2>2 DEF AllOf
  <2> QED
    BY <1>2, <2>1, <2>2
<1>4. QED
  BY <1>1, <1>3 DEF AllOf

(***************************************************************************)
(* A part of a schedule: its receives come before its sends.               *)
(***************************************************************************)
ReceivesThenSends(s, of) ==
  \E P : \E x \in Seq(Doing({"post", "await"}, P, of)),
            y \in Seq(Doing({"start", "finish"}, P, of)) : s = x \o y

LEMMA OnlyWider ==
  ASSUME NEW dos, NEW P, NEW of, NEW s \in Seq(Doing(dos, P, of)),
         NEW Q, P \subseteq Q, NEW more, dos \subseteq more
  PROVE  s \in Seq(Doing(more, Q, of))
<1>1. Doing(dos, P, of) \subseteq Doing(more, Q, of)
  BY DEF Doing
<1>2. \A i \in 1..Len(s) : s[i] \in Doing(more, Q, of)
  BY <1>1, ElementOfSeq
<1> QED
  BY <1>2, SeqMonotonic

LEMMA PartPhased ==
  ASSUME NEW s, NEW of, ReceivesThenSends(s, of)
  PROVE  /\ AllOf(s, of)
         /\ Phased(s)
         /\ of # "bcast" => Within(s, 1, 2)
         /\ of = "bcast" => Within(s, 3, 4)
<1>1. PICK P : \E x \in Seq(Doing({"post", "await"}, P, of)),
                  y \in Seq(Doing({"start", "finish"}, P, of)) : s = x \o y
  BY DEF ReceivesThenSends
<1>2. PICK x, y : /\ x \in Seq(Doing({"post", "await"}, P, of))
                  /\ y \in Seq(Doing({"start", "finish"}, P, of))
                  /\ s = x \o y
  BY <1>1
<1>3. PICK D : D = Doing({"post", "await", "start", "finish"}, P, of)
  OBVIOUS
<1>4. x \in Seq(D) /\ y \in Seq(D)
  BY <1>2, <1>3, OnlyWider
<1>5. PICK h \in Nat : h = IF of = "bcast" THEN 3 ELSE 1
  OBVIOUS
<1>6. \A z \in Doing({"post", "await"}, P, of) : Phase(z) = h
  <2> SUFFICES ASSUME NEW z \in Doing({"post", "await"}, P, of)
               PROVE  Phase(z) = h
    OBVIOUS
  <2>1. z.of = of /\ z.do \in {"post", "await"}
    BY DEF Doing
  <2> QED
    BY <1>5, <2>1, PhaseIs
<1>7. \A z \in Doing({"start", "finish"}, P, of) : Phase(z) = h + 1
  <2> SUFFICES ASSUME NEW z \in Doing({"start", "finish"}, P, of)
               PROVE  Phase(z) = h + 1
    OBVIOUS
  <2>1. z.of = of /\ z.do \in {"start", "finish"}
    BY DEF Doing
  <2> QED
    BY <1>5, <2>1, PhaseIs
<1>8. Phased(x) /\ Within(x, h, h) /\ AllOf(x, of)
  BY <1>2, <1>6, OnlyPhased
<1>9. Phased(y) /\ Within(y, h + 1, h + 1) /\ AllOf(y, of)
  <2>1. PICK g \in Nat : g = h + 1
    OBVIOUS
  <2>2. \A z \in Doing({"start", "finish"}, P, of) : Phase(z) = g
    BY <1>7, <2>1
  <2>3. Phased(y) /\ Within(y, g, g) /\ AllOf(y, of)
    BY <1>2, <2>2, OnlyPhased
  <2> QED
    BY <2>1, <2>3
<1>10. AllOf(s, of)
  BY <1>2, <1>4, <1>8, <1>9, AllOfConcat
<1>11. Phased(s) /\ Within(s, h, h + 1)
  <2>1. PICK g \in Nat : g = h + 1 /\ h <= g
    OBVIOUS
  <2>2. Within(y, g, g) /\ h <= h /\ g <= g
    BY <1>9, <2>1
  <2>3. Phased(x \o y) /\ Within(x \o y, h, g)
    BY <1>4, <1>8, <1>9, <2>1, <2>2, PhasedConcat
  <2> QED
    BY <1>2, <2>1, <2>3
<1>12. QED
  BY <1>5, <1>10, <1>11

LEMMA SendOnly ==
  ASSUME NEW P, NEW p \in P, NEW of
  PROVE  /\ Send(p, of) \in Seq(Doing({"start", "finish"}, P, of))
         /\ Recv(p, of) \in Seq(Doing({"post", "await"}, P, of))
         /\ \A dos : << >> \in Seq(Doing(dos, P, of))
<1>1. /\ Start(p, of) \in Doing({"start", "finish"}, P, of)
      /\ Finish(p, of) \in Doing({"start", "finish"}, P, of)
      /\ Post(p, of) \in Doing({"post", "await"}, P, of)
      /\ Await(p, of) \in Doing({"post", "await"}, P, of)
  BY DEF Doing, Start, Finish, Post, Await, StepOf
<1> QED
  BY <1>1 DEF Send, Recv

LEMMA FlattenOnly ==
  ASSUME NEW dos, NEW P, NEW of, NEW l \in Nat, NEW ss, ss = [i \in 1..l |-> ss[i]],
         \A i \in 1..l : ss[i] \in Seq(Doing(dos, P, of))
  PROVE  FlattenSeq(ss) \in Seq(Doing(dos, P, of))
<1>1. PICK D : D = Doing(dos, P, of)
  OBVIOUS
<1>2. ss \in Seq(Seq(D))
  BY <1>1
<1> QED
  BY <1>1, <1>2, FlattenPlaces

LEMMA BcastParts ==
  ASSUME NEW n \in Nat \ {0, 1}, NEW r \in 0..(n - 1), NEW root \in 0..(n - 1)
  PROVE  ReceivesThenSends(BcastSteps(n, r, root), "bcast")
<1>1. PICK x, p, v : x = Relative(n, r, root) /\ p = Strides(n, 2) /\ v = Reached(n, 2, x)
  OBVIOUS
<1>2. PICK P : P = {(r + p[v - i]) % n : i \in 1..v} \cup {Above(n, r, root)}
  OBVIOUS
<1>3. PICK ss : ss = [i \in 1..v |-> IF x + p[v - i] < n THEN Send((r + p[v - i]) % n, "bcast")
                                     ELSE << >>]
  OBVIOUS
<1>4. BcastSteps(n, r, root) = Receive(n, r, root) \o FlattenSeq(ss)
  BY <1>1, <1>3 DEF BcastSteps
<1>5. \A i \in 1..v : ss[i] \in Seq(Doing({"start", "finish"}, P, "bcast"))
  <2> SUFFICES ASSUME NEW i \in 1..v
               PROVE  ss[i] \in Seq(Doing({"start", "finish"}, P, "bcast"))
    OBVIOUS
  <2>1. PICK q \in P : q = (r + p[v - i]) % n
    BY <1>2
  <2>2. ss[i] = Send(q, "bcast") \/ ss[i] = << >>
    BY <1>3, <2>1
  <2> QED
    BY <2>1, <2>2, SendOnly
<1>6. v \in Nat
  <2>1. 2 \in Nat \ {0, 1}
    OBVIOUS
  <2>2. x \in 0..(n - 1)
    BY <1>1, RelativeIs
  <2> QED
    BY <1>1, <2>1, <2>2, ReachedIs
<1>7. FlattenSeq(ss) \in Seq(Doing({"start", "finish"}, P, "bcast"))
  <2>1. ss = [i \in 1..v |-> ss[i]]
    BY <1>3
  <2> QED
    BY <1>5, <1>6, <2>1, FlattenOnly
<1>8. Receive(n, r, root) \in Seq(Doing({"post", "await"}, P, "bcast"))
  <2>1. PICK q \in P : q = Above(n, r, root)
    BY <1>2
  <2>2. Receive(n, r, root) = Recv(q, "bcast") \/ Receive(n, r, root) = << >>
    BY <2>1 DEF Receive
  <2> QED
    BY <2>1, <2>2, SendOnly
<1>9. QED
  BY <1>4, <1>7, <1>8 DEF ReceivesThenSends

LEMMA ChildrenOnly ==
  ASSUME NEW n \in Nat \ {0, 1}, NEW k \in Nat \ {0, 1}, NEW r, NEW root, NEW j,
         NEW do, NEW dos, do \in dos,
         NEW P, \A i \in 1..(k - 1) :
                  (Relative(n, r, root) + i * Strides(n, k)[j - 1] + root) % n \in P
  PROVE  FromChildren(n, k, r, root, j, do) \in Seq(Doing(dos, P, "reduce"))
<1>1. PICK x, p : x = Relative(n, r, root) /\ p = Strides(n, k)[j - 1]
  OBVIOUS
<1>2. PICK ss : ss = [i \in 1..(k - 1) |->
                        IF x + i * p < n
                        THEN <<StepOf(do, (x + i * p + root) % n, "reduce")>> ELSE << >>]
  OBVIOUS
<1>3. FromChildren(n, k, r, root, j, do) = FlattenSeq(ss)
  BY <1>1, <1>2 DEF FromChildren
<1>4. \A i \in 1..(k - 1) : ss[i] \in Seq(Doing(dos, P, "reduce"))
  <2> SUFFICES ASSUME NEW i \in 1..(k - 1)
               PROVE  ss[i] \in Seq(Doing(dos, P, "reduce"))
    OBVIOUS
  <2>1. PICK q \in P : q = (x + i * p + root) % n
    BY <1>1
  <2>2. ss[i] = <<StepOf(do, q, "reduce")>> \/ ss[i] = << >>
    BY <1>2, <2>1
  <2>3. StepOf(do, q, "reduce") \in Doing(dos, P, "reduce")
    BY <2>1 DEF Doing, StepOf
  <2>4. PICK y \in Doing(dos, P, "reduce") : y = StepOf(do, q, "reduce")
    BY <2>3
  <2>5. <<y>> \in Seq(Doing(dos, P, "reduce")) /\ << >> \in Seq(Doing(dos, P, "reduce"))
    BY OneStep, Nothing0
  <2> QED
    BY <2>2, <2>4, <2>5
<1>5. FlattenSeq(ss) \in Seq(Doing(dos, P, "reduce"))
  <2>1. ss = [i \in 1..(k - 1) |-> ss[i]]
    BY <1>2
  <2>2. k - 1 \in Nat
    OBVIOUS
  <2>3. PICK l \in Nat : l = k - 1
    BY <2>2
  <2> QED
    BY <1>4, <2>1, <2>3, FlattenOnly
<1>6. QED
  BY <1>3, <1>5

LEMMA ReduceParts ==
  ASSUME NEW n \in Nat \ {0, 1}, NEW k \in Nat \ {0, 1}, NEW r \in 0..(n - 1),
         NEW root \in 0..(n - 1)
  PROVE  ReceivesThenSends(ReduceSteps(n, k, r, root), "reduce")
<1>1. PICK x, p, v : x = Relative(n, r, root) /\ p = Strides(n, k) /\ v = Reached(n, k, x)
  OBVIOUS
<1>2. PICK q : q = Parent(n, x, x % p[v + 1], root)
  OBVIOUS
<1>3. PICK P : P = {q} \cup UNION {{(x + i * p[j - 1] + root) % n : i \in 1..(k - 1)} : j \in 1..v}
  OBVIOUS
<1>4. PICK ss : ss = [j \in 1..v |-> FromChildren(n, k, r, root, j, "post")
                                       \o FromChildren(n, k, r, root, j, "await")]
  OBVIOUS
<1>5. PICK t : t = IF p[v] >= n THEN << >> ELSE Send(q, "reduce")
  OBVIOUS
<1>6. ReduceSteps(n, k, r, root) = FlattenSeq(ss) \o t
  BY <1>1, <1>2, <1>4, <1>5 DEF ReduceSteps
<1>7. \A j \in 1..v : ss[j] \in Seq(Doing({"post", "await"}, P, "reduce"))
  <2> SUFFICES ASSUME NEW j \in 1..v
               PROVE  ss[j] \in Seq(Doing({"post", "await"}, P, "reduce"))
    OBVIOUS
  <2>1. \A i \in 1..(k - 1) :
          (Relative(n, r, root) + i * Strides(n, k)[j - 1] + root) % n \in P
    BY <1>1, <1>3
  <2>2. PICK a, b : /\ a = FromChildren(n, k, r, root, j, "post")
                    /\ b = FromChildren(n, k, r, root, j, "await")
    OBVIOUS
  <2>3. "post" \in {"post", "await"} /\ "await" \in {"post", "await"}
    OBVIOUS
  <2>4. a \in Seq(Doing({"post", "await"}, P, "reduce"))
    BY <2>1, <2>2, <2>3, ChildrenOnly
  <2>5. b \in Seq(Doing({"post", "await"}, P, "reduce"))
    BY <2>1, <2>2, <2>3, ChildrenOnly
  <2>6. ss[j] = a \o b
    BY <1>4, <2>2
  <2> QED
    BY <2>4, <2>5, <2>6, ConcatProperties
<1>8. v \in Nat
  <2>1. x \in 0..(n - 1)
    BY <1>1, RelativeIs
  <2> QED
    BY <1>1, <2>1, ReachedIs
<1>9. FlattenSeq(ss) \in Seq(Doing({"post", "await"}, P, "reduce"))
  <2>1. ss = [i \in 1..v |-> ss[i]]
    BY <1>4
  <2> QED
    BY <1>7, <1>8, <2>1, FlattenOnly
<1>10. t \in Seq(Doing({"start", "finish"}, P, "reduce"))
  <2>1. q \in P
    BY <1>3
  <2>2. t = Send(q, "reduce") \/ t = << >>
    BY <1>5
  <2> QED
    BY <2>1, <2>2, SendOnly
<1>11. QED
  BY <1>6, <1>9, <1>10 DEF ReceivesThenSends

LEMMA EachOnly ==
  ASSUME NEW n \in Nat \ {0, 1}, NEW do, NEW dos, do \in dos, NEW except, NEW of
  PROVE  Each(n, do, except, of) \in Seq(Doing(dos, 0..(n - 1), of))
<1>1. PICK ss : ss = [i \in 1..n |-> IF i - 1 \in except THEN << >>
                                     ELSE <<StepOf(do, i - 1, of)>>]
  OBVIOUS
<1>2. Each(n, do, except, of) = FlattenSeq(ss)
  BY <1>1 DEF Each
<1>3. \A i \in 1..n : ss[i] \in Seq(Doing(dos, 0..(n - 1), of))
  <2> SUFFICES ASSUME NEW i \in 1..n
               PROVE  ss[i] \in Seq(Doing(dos, 0..(n - 1), of))
    OBVIOUS
  <2>1. PICK q \in 0..(n - 1) : q = i - 1
    OBVIOUS
  <2>2. ss[i] = <<StepOf(do, q, of)>> \/ ss[i] = << >>
    BY <1>1, <2>1
  <2>3. StepOf(do, q, of) \in Doing(dos, 0..(n - 1), of)
    BY <2>1 DEF Doing, StepOf
  <2>4. PICK y \in Doing(dos, 0..(n - 1), of) : y = StepOf(do, q, of)
    BY <2>3
  <2>5. <<y>> \in Seq(Doing(dos, 0..(n - 1), of)) /\ << >> \in Seq(Doing(dos, 0..(n - 1), of))
    BY OneStep, Nothing0
  <2> QED
    BY <2>2, <2>4, <2>5
<1>4. ss = [i \in 1..n |-> ss[i]] /\ n \in Nat
  BY <1>1
<1> QED
  BY <1>2, <1>3, <1>4, FlattenOnly

LEMMA GatherParts ==
  ASSUME NEW n \in Nat \ {0, 1}, NEW r \in 0..(n - 1), NEW root \in 0..(n - 1), NEW empty
  PROVE  ReceivesThenSends(GatherSteps(n, r, root, empty), "gather")
<1>1. PICK P : P = 0..(n - 1)
  OBVIOUS
<1>2. CASE r = root
  <2>1. PICK a, b : /\ a = Each(n, "post", {r} \cup empty, "gather")
                    /\ b = Each(n, "await", {r} \cup empty, "gather")
    OBVIOUS
  <2>2. "post" \in {"post", "await"} /\ "await" \in {"post", "await"}
    OBVIOUS
  <2>3. a \in Seq(Doing({"post", "await"}, P, "gather"))
    BY <1>1, <2>1, <2>2, EachOnly
  <2>4. b \in Seq(Doing({"post", "await"}, P, "gather"))
    BY <1>1, <2>1, <2>2, EachOnly
  <2>5. PICK x \in Seq(Doing({"post", "await"}, P, "gather")) : x = a \o b
    BY <2>3, <2>4, ConcatProperties
  <2>6. x = x \o << >>
    BY <2>5, ConcatEmptySeq
  <2>7. GatherSteps(n, r, root, empty) = x \o << >>
    BY <1>2, <2>1, <2>5, <2>6 DEF GatherSteps
  <2>8. << >> \in Seq(Doing({"start", "finish"}, P, "gather"))
    OBVIOUS
  <2> QED
    BY <2>5, <2>7, <2>8 DEF ReceivesThenSends
<1>3. CASE r # root
  <2>1. PICK y : y = GatherSteps(n, r, root, empty)
    OBVIOUS
  <2>2. y = << >> \/ y = Send(root, "gather")
    BY <1>3, <2>1 DEF GatherSteps
  <2>3. root \in P
    BY <1>1
  <2>4. y \in Seq(Doing({"start", "finish"}, P, "gather"))
    BY <2>2, <2>3, SendOnly
  <2>5. y = << >> \o y
    BY <2>4, ConcatEmptySeq
  <2>6. << >> \in Seq(Doing({"post", "await"}, P, "gather"))
    OBVIOUS
  <2> QED
    BY <2>1, <2>4, <2>5, <2>6 DEF ReceivesThenSends
<1>4. QED
  BY <1>2, <1>3

LEMMA ScatterParts ==
  ASSUME NEW n \in Nat \ {0, 1}, NEW r \in 0..(n - 1), NEW root \in 0..(n - 1)
  PROVE  ReceivesThenSends(ScatterSteps(n, r, root), "scatter")
<1>1. PICK P : P = 0..(n - 1)
  OBVIOUS
<1>2. CASE r = root
  <2>1. PICK a, b : /\ a = Each(n, "start", {r}, "scatter")
                    /\ b = Each(n, "finish", {r}, "scatter")
    OBVIOUS
  <2>2. "start" \in {"start", "finish"} /\ "finish" \in {"start", "finish"}
    OBVIOUS
  <2>3. a \in Seq(Doing({"start", "finish"}, P, "scatter"))
    BY <1>1, <2>1, <2>2, EachOnly
  <2>4. b \in Seq(Doing({"start", "finish"}, P, "scatter"))
    BY <1>1, <2>1, <2>2, EachOnly
  <2>5. PICK y \in Seq(Doing({"start", "finish"}, P, "scatter")) : y = a \o b
    BY <2>3, <2>4, ConcatProperties
  <2>6. y = << >> \o y
    BY <2>5, ConcatEmptySeq
  <2>7. ScatterSteps(n, r, root) = << >> \o y
    BY <1>2, <2>1, <2>5, <2>6 DEF ScatterSteps
  <2>8. << >> \in Seq(Doing({"post", "await"}, P, "scatter"))
    OBVIOUS
  <2> QED
    BY <2>5, <2>7, <2>8 DEF ReceivesThenSends
<1>3. CASE r # root
  <2>1. root \in P
    BY <1>1
  <2>2. PICK x : x = Recv(root, "scatter")
    OBVIOUS
  <2>3. x \in Seq(Doing({"post", "await"}, P, "scatter"))
    BY <2>1, <2>2, SendOnly
  <2>4. x = x \o << >>
    BY <2>3, ConcatEmptySeq
  <2>5. ScatterSteps(n, r, root) = x \o << >>
    BY <1>3, <2>2, <2>4 DEF ScatterSteps
  <2>6. << >> \in Seq(Doing({"start", "finish"}, P, "scatter"))
    OBVIOUS
  <2> QED
    BY <2>3, <2>5, <2>6 DEF ReceivesThenSends
<1>4. QED
  BY <1>2, <1>3

LEMMA BarrierAllOf ==
  ASSUME NEW n \in Nat \ {0, 1}, NEW r \in 0..(n - 1)
  PROVE  AllOf(BarrierSteps(n, r), "barrier")
<1>1. PICK t, p : t = Turns(n, 2) /\ p = Strides(n, 2)
  OBVIOUS
<1>2. t \in Nat
  BY <1>1, TurnsAre
<1>3. PICK P : P = {(r + p[i - 1]) % n : i \in 1..t} \cup {(r - p[i - 1] + n) % n : i \in 1..t}
  OBVIOUS
<1>4. PICK ss : ss = [i \in 1..t |->
                        SendRecv((r + p[i - 1]) % n, (r - p[i - 1] + n) % n, "barrier")]
  OBVIOUS
<1>5. PICK dos : dos = {"post", "await", "start", "finish"}
  OBVIOUS
<1>6. \A i \in 1..t : ss[i] \in Seq(Doing(dos, P, "barrier"))
  <2> SUFFICES ASSUME NEW i \in 1..t
               PROVE  ss[i] \in Seq(Doing(dos, P, "barrier"))
    OBVIOUS
  <2>1. PICK a \in P, b \in P : a = (r + p[i - 1]) % n /\ b = (r - p[i - 1] + n) % n
    BY <1>3
  <2>2. /\ Post(b, "barrier") \in Doing(dos, P, "barrier")
        /\ Start(a, "barrier") \in Doing(dos, P, "barrier")
        /\ Finish(a, "barrier") \in Doing(dos, P, "barrier")
        /\ Await(b, "barrier") \in Doing(dos, P, "barrier")
    BY <1>5 DEF Doing, Post, Start, Finish, Await, StepOf
  <2>3. ss[i] = <<Post(b, "barrier"), Start(a, "barrier"), Finish(a, "barrier"),
                  Await(b, "barrier")>>
    BY <1>4, <2>1 DEF SendRecv
  <2> QED
    BY <2>2, <2>3
<1>7. PICK s : s = FlattenSeq(ss)
  OBVIOUS
<1>8. s \in Seq(Doing(dos, P, "barrier"))
  <2>1. ss = [i \in 1..t |-> ss[i]]
    BY <1>4
  <2> QED
    BY <1>2, <1>6, <1>7, <2>1, FlattenOnly
<1>9. \A i \in 1..Len(s) : s[i] \in Doing(dos, P, "barrier")
  BY <1>8, ElementOfSeq
<1>10. AllOf(s, "barrier")
  BY <1>9 DEF AllOf, Doing
<1>11. QED
  BY <1>1, <1>4, <1>7, <1>10 DEF BarrierSteps

LEMMA AlltoallAllOf ==
  ASSUME NEW n \in Nat \ {0, 1}, NEW r \in 0..(n - 1)
  PROVE  AllOf(AlltoallSteps(n, r), "alltoall")
<1>1. PICK dos : dos = {"post", "await", "start", "finish"}
  OBVIOUS
<1>2. PICK D : D = Doing(dos, 0..(n - 1), "alltoall")
  OBVIOUS
<1>3. \A do \in dos : Each(n, do, {r}, "alltoall") \in Seq(D)
  BY <1>2, EachOnly
<1>4. PICK w, x, y, z : /\ w = Each(n, "post", {r}, "alltoall")
                        /\ x = Each(n, "start", {r}, "alltoall")
                        /\ y = Each(n, "await", {r}, "alltoall")
                        /\ z = Each(n, "finish", {r}, "alltoall")
  OBVIOUS
<1>5. w \in Seq(D) /\ x \in Seq(D) /\ y \in Seq(D) /\ z \in Seq(D)
  BY <1>1, <1>3, <1>4
<1>6. PICK s : s = w \o x \o y \o z
  OBVIOUS
<1>7. s \in Seq(D)
  BY <1>5, <1>6, ConcatProperties
<1>8. \A i \in 1..Len(s) : s[i] \in D
  BY <1>7, ElementOfSeq
<1>9. AllOf(s, "alltoall")
  BY <1>2, <1>8 DEF AllOf, Doing
<1>10. QED
  BY <1>4, <1>6, <1>9 DEF AlltoallSteps

-----------------------------------------------------------------------------
(***************************************************************************)
(* The two parts of a call: Up, the barrier, reduce, gather, scatter or    *)
(* alltoall, and Down, the bcast.                                          *)
(***************************************************************************)
UpFrom(n, k, r, c) ==
  CASE c.kind = "barrier"   -> BarrierFrom(n, r)
    [] c.kind = "bcast"     -> {}
    [] c.kind = "reduce"    -> ReduceFrom(n, k, r, c.root)
    [] c.kind = "allreduce" -> ReduceFrom(n, k, r, 0)
    [] c.kind = "gather"    -> GatherFrom(n, r, c.root, c.empty)
    [] c.kind = "allgather" -> GatherFrom(n, r, 0, c.empty)
    [] c.kind = "scatter"   -> ScatterFrom(n, r, c.root)
    [] c.kind = "alltoall"  -> Others(n, r)

UpTo(n, k, r, c) ==
  CASE c.kind = "barrier"   -> BarrierTo(n, r)
    [] c.kind = "bcast"     -> {}
    [] c.kind = "reduce"    -> ReduceTo(n, k, r, c.root)
    [] c.kind = "allreduce" -> ReduceTo(n, k, r, 0)
    [] c.kind = "gather"    -> GatherTo(n, r, c.root, c.empty)
    [] c.kind = "allgather" -> GatherTo(n, r, 0, c.empty)
    [] c.kind = "scatter"   -> ScatterTo(n, r, c.root)
    [] c.kind = "alltoall"  -> Others(n, r)

DownFrom(n, r, c) ==
  CASE c.kind = "bcast"                    -> BcastFrom(n, r, c.root)
    [] c.kind \in {"allreduce", "allgather"} -> BcastFrom(n, r, 0)
    [] OTHER                               -> {}

DownTo(n, r, c) ==
  CASE c.kind = "bcast"                    -> BcastTo(n, r, c.root)
    [] c.kind \in {"allreduce", "allgather"} -> BcastTo(n, r, 0)
    [] OTHER                               -> {}

PartOf(c) == CASE c.kind = "allreduce" -> "reduce"
               [] c.kind = "allgather" -> "gather"
               [] OTHER                -> c.kind

(***************************************************************************)
(* The peers and the part of every step are those of a part of the call.   *)
(***************************************************************************)
Between(x, f, g) ==
  /\ x.do \in {"post", "await"} => x.peer \in f
  /\ x.do \in {"start", "finish"} => x.peer \in g

Fits(n, k, r, c, x) ==
  \/ x.of = "bcast" /\ Between(x, DownFrom(n, r, c), DownTo(n, r, c))
  \/ x.of = PartOf(c) /\ x.of # "bcast" /\ Between(x, UpFrom(n, k, r, c), UpTo(n, k, r, c))

LEMMA ExchangeBetween ==
  ASSUME NEW n, NEW r, NEW s, NEW f, NEW g, Exchange(n, r, s, f, g)
  PROVE  \A i \in 1..Len(s) : Between(s[i], f, g)
<1> SUFFICES ASSUME NEW i \in 1..Len(s) PROVE Between(s[i], f, g)
  OBVIOUS
<1>1. PICK a, p : a = s[i].do /\ p = s[i].peer
  OBVIOUS
<1>2. Has(s, a, p)
  BY <1>1 DEF Has
<1>3. /\ a = "post" \/ a = "await" => p \in f
      /\ a = "start" \/ a = "finish" => p \in g
  BY <1>2 DEF Exchange
<1> QED
  BY <1>1, <1>3 DEF Between

(***************************************************************************)
(* A schedule that is one part, or a part followed by a bcast.             *)
(***************************************************************************)
LEMMA TwoParts ==
  ASSUME NEW n, NEW r, NEW s, NEW t, NEW f, NEW g, NEW u, NEW v, NEW of, of # "bcast",
         Exchange(n, r, s, f, g), ReceivesThenSends(s, of),
         Exchange(n, r, t, u, v), ReceivesThenSends(t, "bcast")
  PROVE  /\ Phased(s \o t)
         /\ \A i \in 1..Len(s \o t) :
              \/ (s \o t)[i].of = of /\ Between((s \o t)[i], f, g)
              \/ (s \o t)[i].of = "bcast" /\ Between((s \o t)[i], u, v)
<1>1. PICK w, D : w = s \o t /\ D = StepSet(n)
  OBVIOUS
<1>2. s \in Seq(D) /\ t \in Seq(D)
  BY <1>1 DEF Exchange
<1>3. Phased(s) /\ Within(s, 1, 2) /\ AllOf(s, of)
  BY PartPhased
<1>4. Phased(t) /\ Within(t, 3, 4) /\ AllOf(t, "bcast")
  BY PartPhased
<1>5. Phased(w)
  <2>1. PICK a \in Nat, b \in Nat, c \in Nat, d \in Nat :
          a = 1 /\ b = 2 /\ c = 3 /\ d = 4 /\ a <= b /\ b <= c /\ c <= d
    OBVIOUS
  <2>2. Within(s, a, b) /\ Within(t, c, d)
    BY <1>3, <1>4, <2>1
  <2> QED
    BY <1>1, <1>2, <1>3, <1>4, <2>1, <2>2, PhasedConcat
<1>6. /\ \A i \in 1..Len(s) : w[i] = s[i]
      /\ \A i \in 1..Len(t) : w[Len(s) + i] = t[i]
      /\ \A i \in 1..Len(w) : i \in 1..Len(s) \/ \E j \in 1..Len(t) : i = Len(s) + j
  BY <1>1, <1>2, ConcatPlaces
<1>7. \A i \in 1..Len(s) : s[i].of = of /\ Between(s[i], f, g)
  BY <1>3, ExchangeBetween DEF AllOf
<1>8. \A i \in 1..Len(t) : t[i].of = "bcast" /\ Between(t[i], u, v)
  BY <1>4, ExchangeBetween DEF AllOf
<1>9. ASSUME NEW i \in 1..Len(w)
      PROVE  \/ w[i].of = of /\ Between(w[i], f, g)
             \/ w[i].of = "bcast" /\ Between(w[i], u, v)
  <2>1. CASE i \in 1..Len(s)
    BY <1>6, <1>7, <2>1
  <2>2. CASE \E j \in 1..Len(t) : i = Len(s) + j
    BY <1>6, <1>8, <2>2
  <2> QED
    BY <1>6, <2>1, <2>2
<1>10. QED
  BY <1>1, <1>5, <1>9

InTwo(c) == c.kind \in {"bcast", "reduce", "allreduce", "gather", "allgather", "scatter"}

LEMMA ScheduleInOrder ==
  ASSUME NEW n \in Nat \ {0, 1}, NEW k \in Nat \ {0, 1}, NEW r \in 0..(n - 1),
         NEW c, IsCall(n, c)
  PROVE  /\ InTwo(c) => Phased(Schedule(n, k, r, c))
         /\ \A i \in 1..Len(Schedule(n, k, r, c)) : Fits(n, k, r, c, Schedule(n, k, r, c)[i])
<1>1. c.root \in 0..(n - 1) /\ 0 \in 0..(n - 1)
  BY DEF IsCall
<1>2. PICK s : s = Schedule(n, k, r, c)
  OBVIOUS
<1>3. PICK f, g, u, v : /\ f = UpFrom(n, k, r, c) /\ g = UpTo(n, k, r, c)
                        /\ u = DownFrom(n, r, c) /\ v = DownTo(n, r, c)
  OBVIOUS
<1>4. SUFFICES /\ InTwo(c) => Phased(s)
               /\ \A i \in 1..Len(s) :
                    \/ s[i].of = "bcast" /\ Between(s[i], u, v)
                    \/ s[i].of = PartOf(c) /\ s[i].of # "bcast" /\ Between(s[i], f, g)
  BY <1>2, <1>3 DEF Fits
<1>5. ASSUME Exchange(n, r, s, f, g), AllOf(s, PartOf(c)), PartOf(c) # "bcast"
      PROVE  \A i \in 1..Len(s) : /\ s[i].of = PartOf(c) /\ s[i].of # "bcast"
                                  /\ Between(s[i], f, g)
  BY <1>5, ExchangeBetween DEF AllOf
<1>6. CASE c.kind = "barrier"
  <2>1. s = BarrierSteps(n, r) /\ f = BarrierFrom(n, r) /\ g = BarrierTo(n, r)
    BY <1>2, <1>3, <1>6 DEF Schedule, UpFrom, UpTo
  <2>2. PartOf(c) = "barrier" /\ ~ InTwo(c)
    BY <1>6 DEF PartOf, InTwo
  <2>3. Exchange(n, r, s, f, g) /\ AllOf(s, PartOf(c)) /\ PartOf(c) # "bcast"
    BY <2>1, <2>2, BarrierExchange, BarrierAllOf
  <2> QED
    BY <1>5, <2>2, <2>3
<1>7. CASE c.kind = "alltoall"
  <2>1. s = AlltoallSteps(n, r) /\ f = Others(n, r) /\ g = Others(n, r)
    BY <1>2, <1>3, <1>7 DEF Schedule, UpFrom, UpTo
  <2>2. PartOf(c) = "alltoall" /\ ~ InTwo(c)
    BY <1>7 DEF PartOf, InTwo
  <2>3. Exchange(n, r, s, f, g) /\ AllOf(s, PartOf(c)) /\ PartOf(c) # "bcast"
    BY <2>1, <2>2, AlltoallExchange, AlltoallAllOf
  <2> QED
    BY <1>5, <2>2, <2>3
<1>8. CASE c.kind = "reduce"
  <2>1. /\ s = ReduceSteps(n, k, r, c.root)
        /\ f = ReduceFrom(n, k, r, c.root) /\ g = ReduceTo(n, k, r, c.root)
    BY <1>2, <1>3, <1>8 DEF Schedule, UpFrom, UpTo
  <2>2. PartOf(c) = "reduce" /\ PartOf(c) # "bcast"
    BY <1>8 DEF PartOf
  <2>3. Exchange(n, r, s, f, g) /\ ReceivesThenSends(s, PartOf(c))
    BY <1>1, <2>1, <2>2, ReduceExchange, ReduceParts
  <2>4. Phased(s) /\ AllOf(s, PartOf(c))
    BY <2>3, PartPhased
  <2> QED
    BY <1>5, <2>2, <2>3, <2>4
<1>9. CASE c.kind = "gather"
  <2>1. /\ s = GatherSteps(n, r, c.root, c.empty)
        /\ f = GatherFrom(n, r, c.root, c.empty) /\ g = GatherTo(n, r, c.root, c.empty)
    BY <1>2, <1>3, <1>9 DEF Schedule, UpFrom, UpTo
  <2>2. PartOf(c) = "gather" /\ PartOf(c) # "bcast"
    BY <1>9 DEF PartOf
  <2>3. Exchange(n, r, s, f, g) /\ ReceivesThenSends(s, PartOf(c))
    BY <1>1, <2>1, <2>2, GatherExchange, GatherParts
  <2>4. Phased(s) /\ AllOf(s, PartOf(c))
    BY <2>3, PartPhased
  <2> QED
    BY <1>5, <2>2, <2>3, <2>4
<1>10. CASE c.kind = "scatter"
  <2>1. /\ s = ScatterSteps(n, r, c.root)
        /\ f = ScatterFrom(n, r, c.root) /\ g = ScatterTo(n, r, c.root)
    BY <1>2, <1>3, <1>10 DEF Schedule, UpFrom, UpTo
  <2>2. PartOf(c) = "scatter" /\ PartOf(c) # "bcast"
    BY <1>10 DEF PartOf
  <2>3. Exchange(n, r, s, f, g) /\ ReceivesThenSends(s, PartOf(c))
    BY <1>1, <2>1, <2>2, ScatterExchange, ScatterParts
  <2>4. Phased(s) /\ AllOf(s, PartOf(c))
    BY <2>3, PartPhased
  <2> QED
    BY <1>5, <2>2, <2>3, <2>4
<1>11. CASE c.kind = "bcast"
  <2>1. /\ s = BcastSteps(n, r, c.root)
        /\ u = BcastFrom(n, r, c.root) /\ v = BcastTo(n, r, c.root)
    BY <1>2, <1>3, <1>11 DEF Schedule, DownFrom, DownTo
  <2>2. Exchange(n, r, s, u, v) /\ ReceivesThenSends(s, "bcast")
    BY <1>1, <2>1, BcastExchange, BcastParts
  <2>3. Phased(s) /\ AllOf(s, "bcast")
    BY <2>2, PartPhased
  <2>4. \A i \in 1..Len(s) : s[i].of = "bcast" /\ Between(s[i], u, v)
    BY <2>2, <2>3, ExchangeBetween DEF AllOf
  <2> QED
    BY <2>3, <2>4
<1>12. CASE c.kind = "allreduce"
  <2>1. PICK a, b : a = ReduceSteps(n, k, r, 0) /\ b = BcastSteps(n, r, 0)
    OBVIOUS
  <2>2. /\ f = ReduceFrom(n, k, r, 0) /\ g = ReduceTo(n, k, r, 0)
        /\ u = BcastFrom(n, r, 0) /\ v = BcastTo(n, r, 0) /\ s = a \o b
    BY <1>2, <1>3, <1>12, <2>1 DEF Schedule, UpFrom, UpTo, DownFrom, DownTo
  <2>3. PartOf(c) = "reduce" /\ "reduce" # "bcast"
    BY <1>12 DEF PartOf
  <2>4. Exchange(n, r, a, f, g) /\ ReceivesThenSends(a, "reduce")
    BY <1>1, <2>1, <2>2, ReduceExchange, ReduceParts
  <2>5. Exchange(n, r, b, u, v) /\ ReceivesThenSends(b, "bcast")
    BY <1>1, <2>1, <2>2, BcastExchange, BcastParts
  <2>6. /\ Phased(a \o b)
        /\ \A i \in 1..Len(a \o b) :
              \/ (a \o b)[i].of = "reduce" /\ Between((a \o b)[i], f, g)
              \/ (a \o b)[i].of = "bcast" /\ Between((a \o b)[i], u, v)
    BY <2>3, <2>4, <2>5, TwoParts
  <2> QED
    BY <2>2, <2>3, <2>6
<1>13. CASE c.kind = "allgather"
  <2>1. PICK a, b : a = GatherSteps(n, r, 0, c.empty) /\ b = BcastSteps(n, r, 0)
    OBVIOUS
  <2>2. /\ f = GatherFrom(n, r, 0, c.empty) /\ g = GatherTo(n, r, 0, c.empty)
        /\ u = BcastFrom(n, r, 0) /\ v = BcastTo(n, r, 0) /\ s = a \o b
    BY <1>2, <1>3, <1>13, <2>1 DEF Schedule, UpFrom, UpTo, DownFrom, DownTo
  <2>3. PartOf(c) = "gather" /\ "gather" # "bcast"
    BY <1>13 DEF PartOf
  <2>4. Exchange(n, r, a, f, g) /\ ReceivesThenSends(a, "gather")
    BY <1>1, <2>1, <2>2, GatherExchange, GatherParts
  <2>5. Exchange(n, r, b, u, v) /\ ReceivesThenSends(b, "bcast")
    BY <1>1, <2>1, <2>2, BcastExchange, BcastParts
  <2>6. /\ Phased(a \o b)
        /\ \A i \in 1..Len(a \o b) :
              \/ (a \o b)[i].of = "gather" /\ Between((a \o b)[i], f, g)
              \/ (a \o b)[i].of = "bcast" /\ Between((a \o b)[i], u, v)
    BY <2>3, <2>4, <2>5, TwoParts
  <2> QED
    BY <2>2, <2>3, <2>6
<1>14. QED
  BY <1>6, <1>7, <1>8, <1>9, <1>10, <1>11, <1>12, <1>13 DEF IsCall

-----------------------------------------------------------------------------
(***************************************************************************)
(* The two parts of a call together are the call, and they do not meet.    *)
(***************************************************************************)
LEMMA PartsOfCall ==
  ASSUME NEW n \in Nat \ {0, 1}, NEW k \in Nat \ {0, 1}, NEW r \in 0..(n - 1),
         NEW c, IsCall(n, c)
  PROVE  /\ From(n, k, r, c) = UpFrom(n, k, r, c) \cup DownFrom(n, r, c)
         /\ UpFrom(n, k, r, c) \cap DownFrom(n, r, c) = {}
         /\ \A p, q \in DownFrom(n, r, c) : p = q
<1>1. From(n, k, r, c) = UpFrom(n, k, r, c) \cup DownFrom(n, r, c)
  BY DEF IsCall, From, UpFrom, DownFrom
<1>2. \A p, q \in DownFrom(n, r, c) : p = q
  BY DEF DownFrom, BcastFrom
<1>3. UpFrom(n, k, r, c) \cap DownFrom(n, r, c) = {}
  <2>1. CASE c.kind = "allreduce"
    <3>1. UpFrom(n, k, r, c) = ReduceFrom(n, k, r, 0) /\ DownFrom(n, r, c) = BcastFrom(n, r, 0)
      BY <2>1 DEF UpFrom, DownFrom
    <3>2. \A p \in ReduceFrom(n, k, r, 0) : r < p
      BY ReduceGoesDown
    <3>3. \A p \in BcastFrom(n, r, 0) : p < r
      BY BcastGoesUp
    <3>4. \A p \in UpFrom(n, k, r, c) : p \in 0..(n - 1)
      <4>1. \A p \in UpFrom(n, k, r, c) : p \in From(n, k, r, c)
        BY <1>1
      <4> QED
        BY <4>1, ScheduleExchange DEF Exchange
    <3> QED
      BY <3>1, <3>2, <3>3, <3>4
  <2>2. CASE c.kind = "allgather"
    <3>1. /\ UpFrom(n, k, r, c) = GatherFrom(n, r, 0, c.empty)
          /\ DownFrom(n, r, c) = BcastFrom(n, r, 0)
      BY <2>2 DEF UpFrom, DownFrom
    <3>2. r = 0 => DownFrom(n, r, c) = {}
      BY <3>1, RelativeToZero DEF BcastFrom
    <3> QED
      BY <3>1, <3>2 DEF GatherFrom
  <2>3. CASE c.kind \notin {"allreduce", "allgather"}
    BY <2>3 DEF IsCall, UpFrom, DownFrom
  <2> QED
    BY <2>1, <2>2, <2>3
<1>4. QED
  BY <1>1, <1>2, <1>3

LEMMA PartsPaired ==
  ASSUME NEW n \in Nat \ {0, 1}, NEW k \in Nat \ {0, 1}, NEW s \in 0..(n - 1),
         NEW r \in 0..(n - 1), NEW c, IsCall(n, c)
  PROVE  /\ r \in UpTo(n, k, s, c) => s \in UpFrom(n, k, r, c)
         /\ r \in DownTo(n, s, c) => s \in DownFrom(n, r, c)
<1>1. c.root \in 0..(n - 1) /\ 0 \in 0..(n - 1)
  BY DEF IsCall
<1>2. r \in DownTo(n, s, c) => s \in DownFrom(n, r, c)
  BY <1>1, BcastPaired DEF DownTo, DownFrom
<1>3. r \in UpTo(n, k, s, c) => s \in UpFrom(n, k, r, c)
  <2>1. CASE c.kind = "barrier"
    BY <2>1, BarrierPaired DEF UpTo, UpFrom
  <2>2. CASE c.kind = "bcast"
    BY <2>2 DEF UpTo
  <2>3. CASE c.kind = "reduce"
    BY <1>1, <2>3, ReducePaired DEF UpTo, UpFrom
  <2>4. CASE c.kind = "allreduce"
    BY <1>1, <2>4, ReducePaired DEF UpTo, UpFrom
  <2>5. CASE c.kind = "gather"
    BY <2>5 DEF UpTo, UpFrom, GatherTo, GatherFrom
  <2>6. CASE c.kind = "allgather"
    BY <2>6 DEF UpTo, UpFrom, GatherTo, GatherFrom
  <2>7. CASE c.kind = "scatter"
    BY <2>7 DEF UpTo, UpFrom, ScatterTo, ScatterFrom, Others
  <2>8. CASE c.kind = "alltoall"
    BY <2>8 DEF UpTo, UpFrom, Others
  <2> QED
    BY <2>1, <2>2, <2>3, <2>4, <2>5, <2>6, <2>7, <2>8 DEF IsCall
<1>4. QED
  BY <1>2, <1>3

-----------------------------------------------------------------------------
(***************************************************************************)
(* The ranks whose contributions reach a rank of the radix-k tree, itself  *)
(* among them: those of the subtree below it are next to one another.      *)
(***************************************************************************)
Subtree(n, k, x) == {z \in x..(n - 1) : z < x + Strides(n, k)[Reached(n, k, x)]}

LEMMA ChildSubtree ==
  ASSUME NEW n \in Nat \ {0, 1}, NEW k \in Nat \ {0, 1}, NEW y \in 0..(n - 1),
         NEW j \in 1..Reached(n, k, y), NEW i \in Offsets(n, k, y, j),
         NEW a, a = Strides(n, k)[j - 1], NEW x, x = Child(n, k, y, j, i)
  PROVE  /\ a \in Nat \ {0} /\ i \in 1..(k - 1) /\ x \in 1..(n - 1)
         /\ x = y + i * a
         /\ y + a <= x
         /\ Subtree(n, k, x) = {z \in x..(n - 1) : z < x + a}
         /\ x + a <= y + Strides(n, k)[j]
         /\ Strides(n, k)[j] \in Nat
         /\ Strides(n, k)[j] <= Strides(n, k)[Reached(n, k, y)]
         /\ Strides(n, k)[Reached(n, k, y)] \in Nat
<1>1. PICK p, v : p = Strides(n, k) /\ v = Reached(n, k, y)
  OBVIOUS
<1>2. v \in 0..n
  BY <1>1, ReachedIs
<1>3. j \in 1..n /\ j - 1 \in 0..(n - 1)
  BY <1>1, <1>2
<1>4. PICK h \in 0..(n - 1) : h = j - 1
  BY <1>3
<1>5. /\ p[h] \in Nat \ {0} /\ p[h + 1] \in Nat \ {0} /\ p[h + 1] = k * p[h]
  BY <1>1, StridesNext
<1>6. a \in Nat \ {0} /\ p[j] \in Nat /\ p[j] = k * a
  <2>1. h + 1 = j
    BY <1>4
  <2> QED
    BY <1>1, <1>4, <1>5, <2>1
<1>7. i \in 1..(k - 1) /\ x \in 1..(n - 1) /\ Reached(n, k, x) = j - 1
  BY ChildIs
<1>8. x = y + i * a
  BY DEF Child
<1>9. i * a \in Nat /\ a <= i * a /\ i * a + a <= p[j]
  <2>1. i \in Nat /\ k \in Nat /\ i < k /\ 1 \in Nat /\ 1 <= i
    BY <1>7
  <2>2. 1 * a <= i * a /\ i * a \in Nat
    BY <1>6, <2>1, TimesMonotonic
  <2>3. i * a + a <= k * a
    BY <1>6, <2>1, TimesCancels
  <2>4. 1 * a = a
    BY <1>6
  <2> QED
    BY <1>6, <2>2, <2>3, <2>4
<1>10. PICK m \in Nat, b \in Nat : m = i * a /\ b = p[j] /\ a <= m /\ m + a <= b
  BY <1>6, <1>9
<1>11. y + a <= x /\ x + a <= y + p[j]
  BY <1>6, <1>8, <1>10
<1>12. p[j] <= p[v] /\ p[v] \in Nat
  <2>1. j \in 0..n /\ v \in j..n /\ v \in 0..n
    BY <1>1, <1>2, <1>3
  <2>2. p[j] <= p[v]
    BY <1>1, <2>1, StridesDivide
  <2>3. p[v] \in Nat
    BY <1>1, <2>1, StridesGrow
  <2> QED
    BY <2>2, <2>3
<1>13. Subtree(n, k, x) = {z \in x..(n - 1) : z < x + a}
  BY <1>7 DEF Subtree
<1>14. QED
  BY <1>1, <1>6, <1>7, <1>8, <1>11, <1>12, <1>13

LEMMA SubtreeInside ==
  ASSUME NEW n \in Nat \ {0, 1}, NEW k \in Nat \ {0, 1}, NEW y \in 0..(n - 1),
         NEW j \in 1..Reached(n, k, y), NEW i \in Offsets(n, k, y, j),
         NEW z \in Subtree(n, k, Child(n, k, y, j, i))
  PROVE  z \in Subtree(n, k, y) /\ z # y
<1>1. PICK x, a, b, c : /\ x = Child(n, k, y, j, i) /\ a = Strides(n, k)[j - 1]
                        /\ b = Strides(n, k)[j] /\ c = Strides(n, k)[Reached(n, k, y)]
  OBVIOUS
<1>2. /\ a \in Nat \ {0} /\ x \in 1..(n - 1) /\ y + a <= x
      /\ Subtree(n, k, x) = {w \in x..(n - 1) : w < x + a}
  BY <1>1, ChildSubtree
<1>3. /\ x + a <= y + b /\ b \in Nat /\ b <= c /\ c \in Nat
  BY <1>1, ChildSubtree
<1>4. z \in x..(n - 1) /\ z < x + a
  BY <1>1, <1>2
<1>5. z \in y..(n - 1) /\ z # y /\ z < y + c
  BY <1>2, <1>3, <1>4
<1> QED
  BY <1>1, <1>5 DEF Subtree

LEMMA SubtreesApart ==
  ASSUME NEW n \in Nat \ {0, 1}, NEW k \in Nat \ {0, 1}, NEW y \in 0..(n - 1),
         NEW j \in 1..Reached(n, k, y), NEW i \in Offsets(n, k, y, j),
         NEW h \in 1..Reached(n, k, y), NEW g \in Offsets(n, k, y, h),
         NEW z, z \in Subtree(n, k, Child(n, k, y, j, i)),
         z \in Subtree(n, k, Child(n, k, y, h, g))
  PROVE  Child(n, k, y, j, i) = Child(n, k, y, h, g)
<1>1. PICK p : p = Strides(n, k)
  OBVIOUS
<1>2. PICK a, b, x, w : /\ a = p[j - 1] /\ b = p[h - 1]
                        /\ x = Child(n, k, y, j, i) /\ w = Child(n, k, y, h, g)
  OBVIOUS
<1>3. /\ a \in Nat \ {0} /\ i \in 1..(k - 1) /\ x = y + i * a /\ y + a <= x /\ x \in 1..(n - 1)
      /\ Subtree(n, k, x) = {u \in x..(n - 1) : u < x + a}
      /\ x + a <= y + p[j] /\ p[j] \in Nat
  BY <1>1, <1>2, ChildSubtree
<1>4. /\ b \in Nat \ {0} /\ g \in 1..(k - 1) /\ w = y + g * b /\ y + b <= w /\ w \in 1..(n - 1)
      /\ Subtree(n, k, w) = {u \in w..(n - 1) : u < w + b}
      /\ w + b <= y + p[h] /\ p[h] \in Nat
  BY <1>1, <1>2, ChildSubtree
<1>5. /\ z \in x..(n - 1) /\ z < x + a
      /\ z \in w..(n - 1) /\ z < w + b
  BY <1>2, <1>3, <1>4
<1>6. Reached(n, k, y) \in 0..n
  BY ReachedIs
<1>7. ASSUME NEW e \in 1..Reached(n, k, y), NEW f \in 1..Reached(n, k, y), e < f
      PROVE  p[e] <= p[f - 1]
  <2>1. e \in 0..n /\ f - 1 \in e..n
    BY <1>6, <1>7
  <2> QED
    BY <1>1, <2>1, StridesDivide
<1>8. j = h
  <2>1. CASE j < h
    <3>1. p[j] <= b
      BY <1>2, <1>7, <2>1
    <3> QED
      BY <1>3, <1>4, <1>5, <3>1
  <2>2. CASE h < j
    <3>1. p[h] <= a
      BY <1>2, <1>7, <2>2
    <3> QED
      BY <1>3, <1>4, <1>5, <3>1
  <2> QED
    BY <1>6, <2>1, <2>2
<1>9. a = b
  BY <1>2, <1>8
<1>10. PICK l \in Nat, m \in Nat : l = i * a /\ m = g * a
  <2>1. i * a \in Nat /\ g * a \in Nat
    BY <1>3, <1>4
  <2> QED
    BY <2>1
<1>11. x = y + l /\ w = y + m
  BY <1>3, <1>4, <1>9, <1>10
<1>12. i < g => l + a <= m
  BY <1>3, <1>4, <1>10, TimesCancels
<1>13. g < i => m + a <= l
  BY <1>3, <1>4, <1>10, TimesCancels
<1>14. ~ (i < g) /\ ~ (g < i)
  BY <1>3, <1>5, <1>9, <1>11, <1>12, <1>13
<1>15. i = g
  BY <1>3, <1>4, <1>14
<1>16. x = w
  BY <1>10, <1>11, <1>15
<1>17. QED
  BY <1>2, <1>16

LEMMA SubtreeCovered ==
  ASSUME NEW n \in Nat \ {0, 1}, NEW k \in Nat \ {0, 1}, NEW y \in 0..(n - 1),
         NEW z \in Subtree(n, k, y), z # y
  PROVE  \E j \in 1..Reached(n, k, y) : \E i \in Offsets(n, k, y, j) :
           z \in Subtree(n, k, Child(n, k, y, j, i))
<1>1. PICK p, v : p = Strides(n, k) /\ v = Reached(n, k, y)
  OBVIOUS
<1>2. v \in 0..n
  BY <1>1, ReachedIs
<1>3. z \in y..(n - 1) /\ z < y + p[v]
  BY <1>1 DEF Subtree
<1>4. \A j \in 0..n : p[j] \in Nat
  BY <1>1, StridesGrow
<1>5. PICK d \in Nat \ {0} : d = z - y /\ d < p[v]
  BY <1>2, <1>3, <1>4
<1>6. PICK T : T = {e \in 0..v : d < p[e]}
  OBVIOUS
<1>7. T \in SUBSET Nat /\ v \in T
  BY <1>2, <1>5, <1>6
<1>8. PICK j : j = Min(T)
  OBVIOUS
<1>9. j \in T /\ \A e \in T : j <= e
  BY <1>7, <1>8, MinProperties
<1>10. j \in 1..v
  <2>1. p[0] = 1
    BY <1>1, StridesAre
  <2> QED
    BY <1>5, <1>6, <1>9, <2>1
<1>11. PICK h \in 0..(n - 1) : h = j - 1 /\ h + 1 = j
  BY <1>2, <1>10
<1>12. PICK a \in Nat \ {0} : a = p[h]
  BY <1>1, StridesNext
<1>13. p[j] = k * a
  BY <1>1, <1>11, <1>12, StridesNext
<1>14. a <= d
  <2>1. h \notin T
    BY <1>9, <1>10, <1>11
  <2>2. h \in 0..v
    BY <1>2, <1>10, <1>11
  <2> QED
    BY <1>5, <1>6, <1>12, <2>1, <2>2
<1>15. PICK i \in Nat, c \in 0..(a - 1) : d = i * a + c
  <2>1. d \in Nat /\ a \in Nat \ {0}
    OBVIOUS
  <2>2. d % a \in 0..(a - 1) /\ \E q \in Nat : d = q * a + (d % a)
    BY <2>1, Remainder
  <2>3. PICK q \in Nat : d = q * a + (d % a)
    BY <2>2
  <2> QED
    BY <2>2, <2>3
<1>16. PICK m \in Nat : m = i * a /\ d = m + c
  <2>1. i * a \in Nat
    BY <1>15
  <2> QED
    BY <1>15, <2>1
<1>17. i \in 1..(k - 1)
  <2>1. i # 0
    <3>1. i = 0 => m = 0
      BY <1>16
    <3> QED
      BY <1>14, <1>16, <3>1
  <2>2. ~ (k <= i)
    <3>1. PICK b \in Nat : b = k * a /\ d < b
      <4>1. d < p[j] /\ p[j] \in Nat
        BY <1>2, <1>4, <1>6, <1>9, <1>10
      <4> QED
        BY <1>13, <4>1
    <3>2. k <= i => b <= m
      BY <1>16, <3>1, TimesMonotonic
    <3> QED
      BY <1>16, <3>1, <3>2
  <2> QED
    BY <2>1, <2>2
<1>18. p[j - 1] = a
  BY <1>11, <1>12
<1>19. y + m < n
  BY <1>3, <1>5, <1>16
<1>20. i \in Offsets(n, k, y, j)
  <2>1. y + i * p[j - 1] < n
    BY <1>16, <1>18, <1>19
  <2> QED
    BY <1>1, <1>17, <2>1 DEF Offsets
<1>21. PICK x : x = Child(n, k, y, j, i)
  OBVIOUS
<1>22. x = y + m
  BY <1>1, <1>16, <1>18, <1>21 DEF Child
<1>23. Subtree(n, k, x) = {u \in x..(n - 1) : u < x + a}
  BY <1>1, <1>10, <1>18, <1>20, <1>21, ChildSubtree
<1>24. z \in x..(n - 1) /\ z < x + a
  BY <1>3, <1>5, <1>15, <1>16, <1>22
<1>25. z \in Subtree(n, k, x)
  BY <1>23, <1>24
<1>26. QED
  BY <1>1, <1>10, <1>20, <1>21, <1>25

Below(n, k, r, root) ==
  {q \in 0..(n - 1) : Relative(n, q, root) \in Subtree(n, k, Relative(n, r, root))}

LEMMA ReduceFromIs ==
  ASSUME NEW n \in Nat \ {0, 1}, NEW k \in Nat \ {0, 1}, NEW r \in 0..(n - 1),
         NEW root \in 0..(n - 1), NEW y, y = Relative(n, r, root)
  PROVE  /\ y \in 0..(n - 1)
         /\ \A q \in ReduceFrom(n, k, r, root) : 
              /\ q \in 0..(n - 1)
              /\ \E j \in 1..Reached(n, k, y) : \E i \in Offsets(n, k, y, j) :
                   Relative(n, q, root) = Child(n, k, y, j, i)
         /\ \A j \in 1..Reached(n, k, y) : \A i \in Offsets(n, k, y, j) :
              \E q \in ReduceFrom(n, k, r, root) : Relative(n, q, root) = Child(n, k, y, j, i)
<1>1. y \in 0..(n - 1)
  BY RelativeIs
<1>2. ReduceFrom(n, k, r, root) = UNION {ChildRanks(n, k, r, root, j) : j \in 1..Reached(n, k, y)}
  BY DEF ReduceFrom
<1>3. \A j : ChildRanks(n, k, r, root, j) =
               {Forward(n, root, Child(n, k, y, j, i)) : i \in Offsets(n, k, y, j)}
  BY DEF ChildRanks
<1>4. ASSUME NEW j \in 1..Reached(n, k, y), NEW i \in Offsets(n, k, y, j)
      PROVE  /\ Forward(n, root, Child(n, k, y, j, i)) \in 0..(n - 1)
             /\ Relative(n, Forward(n, root, Child(n, k, y, j, i)), root) = Child(n, k, y, j, i)
  <2>1. PICK x \in 1..(n - 1) : x = Child(n, k, y, j, i)
    BY <1>1, ChildIs
  <2>2. x \in 0..(n - 1)
    OBVIOUS
  <2> QED
    BY <2>1, <2>2, RelativeOf
<1>5. ASSUME NEW q \in ReduceFrom(n, k, r, root)
      PROVE  /\ q \in 0..(n - 1)
             /\ \E j \in 1..Reached(n, k, y) : \E i \in Offsets(n, k, y, j) :
                  Relative(n, q, root) = Child(n, k, y, j, i)
  <2>1. PICK j \in 1..Reached(n, k, y) : q \in ChildRanks(n, k, r, root, j)
    BY <1>2
  <2>2. PICK i \in Offsets(n, k, y, j) : q = Forward(n, root, Child(n, k, y, j, i))
    BY <1>3, <2>1
  <2> QED
    BY <1>4, <2>2
<1>6. ASSUME NEW j \in 1..Reached(n, k, y), NEW i \in Offsets(n, k, y, j)
      PROVE  \E q \in ReduceFrom(n, k, r, root) : Relative(n, q, root) = Child(n, k, y, j, i)
  <2>1. PICK q : q = Forward(n, root, Child(n, k, y, j, i))
    OBVIOUS
  <2>2. q \in ChildRanks(n, k, r, root, j)
    BY <1>3, <2>1
  <2>3. q \in ReduceFrom(n, k, r, root)
    BY <1>2, <2>2
  <2> QED
    BY <1>4, <2>1, <2>3
<1>7. QED
  BY <1>1, <1>5, <1>6

(***************************************************************************)
(* A rank and those below its children are those below it, each once; and  *)
(* all are below the root.                                                 *)
(***************************************************************************)
LEMMA BelowSelf ==
  ASSUME NEW n \in Nat \ {0, 1}, NEW k \in Nat \ {0, 1}, NEW r \in 0..(n - 1),
         NEW root \in 0..(n - 1)
  PROVE  r \in Below(n, k, r, root)
<1>1. PICK y \in 0..(n - 1) : y = Relative(n, r, root)
  BY RelativeIs
<1>2. PICK a : a = Strides(n, k)[Reached(n, k, y)]
  OBVIOUS
<1>3. Reached(n, k, y) \in 0..n
  BY ReachedIs
<1>4. a \in Nat /\ a >= 1
  <2>1. PICK v \in 0..n : v = Reached(n, k, y)
    BY <1>3
  <2>2. a \in Nat /\ a >= v + 1
    BY <1>2, <2>1, StridesGrow
  <2> QED
    BY <2>2
<1>5. y \in Subtree(n, k, y)
  BY <1>2, <1>4 DEF Subtree
<1>6. QED
  BY <1>1, <1>5 DEF Below

LEMMA BelowChild ==
  ASSUME NEW n \in Nat \ {0, 1}, NEW k \in Nat \ {0, 1}, NEW r \in 0..(n - 1),
         NEW root \in 0..(n - 1), NEW q \in ReduceFrom(n, k, r, root),
         NEW z \in Below(n, k, q, root)
  PROVE  /\ z \in Below(n, k, r, root) /\ z # r
         /\ \A p \in ReduceFrom(n, k, r, root) : z \in Below(n, k, p, root) => p = q
<1>1. PICK y, w : y = Relative(n, r, root) /\ w = Relative(n, z, root)
  OBVIOUS
<1>2. y \in 0..(n - 1)
  BY <1>1, ReduceFromIs
<1>3. \A p \in ReduceFrom(n, k, r, root) :
        /\ p \in 0..(n - 1)
        /\ \E j \in 1..Reached(n, k, y) : \E i \in Offsets(n, k, y, j) :
             Relative(n, p, root) = Child(n, k, y, j, i)
  BY <1>1, ReduceFromIs, SMTT(30)
<1>4. PICK j \in 1..Reached(n, k, y) : \E i \in Offsets(n, k, y, j) :
            Relative(n, q, root) = Child(n, k, y, j, i)
  BY <1>3
<1>5. PICK i \in Offsets(n, k, y, j) : Relative(n, q, root) = Child(n, k, y, j, i)
  BY <1>4
<1>6. z \in 0..(n - 1) /\ w \in Subtree(n, k, Child(n, k, y, j, i))
  BY <1>1, <1>5 DEF Below
<1>7. w \in Subtree(n, k, y) /\ w # y
  BY <1>2, <1>6, SubtreeInside
<1>8. z \in Below(n, k, r, root) /\ z # r
  BY <1>1, <1>6, <1>7 DEF Below
<1>9. ASSUME NEW p \in ReduceFrom(n, k, r, root), z \in Below(n, k, p, root)
      PROVE  p = q
  <2>1. /\ p \in 0..(n - 1)
        /\ \E h \in 1..Reached(n, k, y) : \E g \in Offsets(n, k, y, h) :
              Relative(n, p, root) = Child(n, k, y, h, g)
    BY <1>3
  <2>2. PICK h \in 1..Reached(n, k, y) : \E g \in Offsets(n, k, y, h) :
              Relative(n, p, root) = Child(n, k, y, h, g)
    BY <2>1
  <2>3. PICK g \in Offsets(n, k, y, h) : Relative(n, p, root) = Child(n, k, y, h, g)
    BY <2>2
  <2>4. w \in Subtree(n, k, Child(n, k, y, h, g))
    BY <1>1, <1>9, <2>3 DEF Below
  <2>5. Child(n, k, y, j, i) = Child(n, k, y, h, g)
    BY <1>2, <1>6, <2>4, SubtreesApart
  <2>6. Relative(n, p, root) = Relative(n, q, root)
    BY <1>5, <2>3, <2>5
  <2>7. Forward(n, root, Relative(n, p, root)) = p
    BY <2>1, RelativeIs
  <2>8. Forward(n, root, Relative(n, q, root)) = q
    BY <1>3, RelativeIs
  <2> QED
    BY <2>6, <2>7, <2>8
<1>10. QED
  BY <1>8, <1>9

LEMMA BelowCovered ==
  ASSUME NEW n \in Nat \ {0, 1}, NEW k \in Nat \ {0, 1}, NEW r \in 0..(n - 1),
         NEW root \in 0..(n - 1), NEW z \in Below(n, k, r, root), z # r
  PROVE  \E q \in ReduceFrom(n, k, r, root) : z \in Below(n, k, q, root)
<1>1. PICK y, w : y = Relative(n, r, root) /\ w = Relative(n, z, root)
  OBVIOUS
<1>2. y \in 0..(n - 1) /\ Forward(n, root, y) = r
  BY <1>1, RelativeIs
<1>3. z \in 0..(n - 1) /\ w \in Subtree(n, k, y)
  BY <1>1 DEF Below
<1>4. Forward(n, root, w) = z
  BY <1>1, <1>3, RelativeIs
<1>5. w # y
  BY <1>2, <1>4
<1>6. PICK j \in 1..Reached(n, k, y) : \E i \in Offsets(n, k, y, j) :
             w \in Subtree(n, k, Child(n, k, y, j, i))
  BY <1>2, <1>3, <1>5, SubtreeCovered
<1>7. PICK i \in Offsets(n, k, y, j) : w \in Subtree(n, k, Child(n, k, y, j, i))
  BY <1>6
<1>8. PICK q \in ReduceFrom(n, k, r, root) : Relative(n, q, root) = Child(n, k, y, j, i)
  BY <1>1, ReduceFromIs
<1>9. z \in Below(n, k, q, root)
  BY <1>1, <1>3, <1>7, <1>8 DEF Below
<1>10. QED
  BY <1>9

LEMMA BelowRoot ==
  ASSUME NEW n \in Nat \ {0, 1}, NEW k \in Nat \ {0, 1}, NEW root \in 0..(n - 1)
  PROVE  Below(n, k, root, root) = 0..(n - 1)
<1>1. PICK y : y = Relative(n, root, root)
  OBVIOUS
<1>2. y = 0 /\ 0 \in 0..(n - 1)
  BY <1>1, RelativeIs
<1>3. PICK v, a : v = Reached(n, k, 0) /\ a = Strides(n, k)[v]
  OBVIOUS
<1>4. v \in 0..n /\ a >= n
  BY <1>2, <1>3, ReachedIs
<1>5. a \in Nat
  BY <1>3, <1>4, StridesGrow
<1>6. \A w \in 0..(n - 1) : w \in Subtree(n, k, 0)
  BY <1>3, <1>4, <1>5 DEF Subtree
<1>7. \A q \in 0..(n - 1) : Relative(n, q, root) \in Subtree(n, k, 0)
  BY <1>6, RelativeIs
<1>8. QED
  BY <1>1, <1>2, <1>7 DEF Below

(***************************************************************************)
(* The ranks whose contributions a rank has combined when it still waits   *)
(* for those in W.                                                         *)
(***************************************************************************)
Combined(n, k, r, root, W) ==
  {r} \cup UNION {Below(n, k, q, root) : q \in ReduceFrom(n, k, r, root) \ W}

LEMMA CombinedIs ==
  ASSUME NEW n \in Nat \ {0, 1}, NEW k \in Nat \ {0, 1}, NEW r \in 0..(n - 1),
         NEW root \in 0..(n - 1), NEW W
  PROVE  /\ ReduceFrom(n, k, r, root) \subseteq W => Combined(n, k, r, root, W) = {r}
         /\ ReduceFrom(n, k, r, root) \cap W = {} =>
              Combined(n, k, r, root, W) = Below(n, k, r, root)
<1>1. ReduceFrom(n, k, r, root) \subseteq W => Combined(n, k, r, root, W) = {r}
  BY DEF Combined
<1>2. ASSUME ReduceFrom(n, k, r, root) \cap W = {}
      PROVE  Combined(n, k, r, root, W) = Below(n, k, r, root)
  <2>1. \A q \in ReduceFrom(n, k, r, root) : q \notin W
    BY <1>2
  <2>2. ASSUME NEW z \in Combined(n, k, r, root, W)
        PROVE  z \in Below(n, k, r, root)
    <3>1. CASE z = r
      BY <3>1, BelowSelf
    <3>2. CASE \E q \in ReduceFrom(n, k, r, root) : z \in Below(n, k, q, root)
      BY <3>2, BelowChild
    <3> QED
      BY <2>2, <3>1, <3>2 DEF Combined
  <2>3. ASSUME NEW z \in Below(n, k, r, root)
        PROVE  z \in Combined(n, k, r, root, W)
    <3>1. CASE z = r
      BY <3>1 DEF Combined
    <3>2. CASE z # r
      <4>1. PICK q \in ReduceFrom(n, k, r, root) : z \in Below(n, k, q, root)
        BY <3>2, BelowCovered
      <4> QED
        BY <2>1, <4>1 DEF Combined
    <3> QED
      BY <3>1, <3>2
  <2> QED
    BY <2>2, <2>3
<1>3. QED
  BY <1>1, <1>2

LEMMA CombinedMore ==
  ASSUME NEW n \in Nat \ {0, 1}, NEW k \in Nat \ {0, 1}, NEW r \in 0..(n - 1),
         NEW root \in 0..(n - 1), NEW W, NEW p \in ReduceFrom(n, k, r, root), p \in W
  PROVE  /\ Combined(n, k, r, root, W \ {p})
              = Combined(n, k, r, root, W) \cup Below(n, k, p, root)
         /\ Combined(n, k, r, root, W) \cap Below(n, k, p, root) = {}
<1>1. Combined(n, k, r, root, W \ {p}) = Combined(n, k, r, root, W) \cup Below(n, k, p, root)
  <2>1. ReduceFrom(n, k, r, root) \ (W \ {p}) = (ReduceFrom(n, k, r, root) \ W) \cup {p}
    OBVIOUS
  <2> QED
    BY <2>1 DEF Combined
<1>2. ASSUME NEW z \in Below(n, k, p, root), z \in Combined(n, k, r, root, W)
      PROVE  FALSE
  <2>1. z # r
    BY BelowChild
  <2>2. PICK q \in ReduceFrom(n, k, r, root) \ W : z \in Below(n, k, q, root)
    BY <1>2, <2>1 DEF Combined
  <2>3. q = p
    BY <2>2, BelowChild
  <2> QED
    BY <2>2, <2>3
<1>3. QED
  BY <1>1, <1>2

=============================================================================

--------------------------- MODULE SequenceLemmas ---------------------------
(***************************************************************************)
(* Facts about sequences and sets of numbers that the proofs share.        *)
(***************************************************************************)
EXTENDS Naturals, SequencesExt, SequenceTheorems, WellFoundedInduction, TLAPS

(***************************************************************************)
(* What taking an entry out of a list does to the list: without position i *)
(* it is a sequence of the same elements, in the same order.               *)
(***************************************************************************)
LEMMA RemoveAtProperties ==
  ASSUME NEW S, NEW s \in Seq(S), NEW i \in 1..Len(s)
  PROVE  /\ RemoveAt(s, i) \in Seq(S)
         /\ Len(RemoveAt(s, i)) = Len(s) - 1
         /\ \A j \in 1..(Len(s) - 1) :
              RemoveAt(s, i)[j] = IF j < i THEN s[j] ELSE s[j + 1]
<1> DEFINE front == SubSeq(s, 1, i - 1)
           back  == SubSeq(s, i + 1, Len(s))
<1>1. /\ front \in Seq(S)
      /\ Len(front) = i - 1
      /\ \A j \in 1..(i - 1) : front[j] = s[j]
  OBVIOUS
<1>2. /\ back \in Seq(S)
      /\ Len(back) = Len(s) - i
      /\ \A j \in 1..(Len(s) - i) : back[j] = s[j + i]
  OBVIOUS
<1>3. RemoveAt(s, i) = front \o back
  BY DEF RemoveAt
<1> HIDE DEF front, back
<1>4. /\ front \o back \in Seq(S)
      /\ Len(front \o back) = Len(front) + Len(back)
      /\ \A j \in 1..(Len(front) + Len(back)) :
           (front \o back)[j] = IF j <= Len(front) THEN front[j]
                                ELSE back[j - Len(front)]
  BY <1>1, <1>2, ConcatProperties
<1>5. QED
  BY <1>1, <1>2, <1>3, <1>4

(***************************************************************************)
(* Every entry of the shorter list was another entry of the longer one,    *)
(* and not the one taken out.                                              *)
(***************************************************************************)
LEMMA RemoveAtOrigin ==
  ASSUME NEW S, NEW s \in Seq(S), NEW i \in 1..Len(s)
  PROVE  \E f \in [1..Len(RemoveAt(s, i)) -> 1..Len(s)] :
           /\ \A j \in 1..Len(RemoveAt(s, i)) : f[j] # i /\ RemoveAt(s, i)[j] = s[f[j]]
           /\ \A j, k \in 1..Len(RemoveAt(s, i)) : f[j] = f[k] => j = k
<1> DEFINE r == RemoveAt(s, i)
           f == [j \in 1..Len(r) |-> IF j < i THEN j ELSE j + 1]
<1>1. /\ Len(s) \in Nat /\ Len(r) = Len(s) - 1
      /\ \A j \in 1..Len(r) : r[j] = IF j < i THEN s[j] ELSE s[j + 1]
  <2>1. /\ Len(r) = Len(s) - 1
        /\ \A j \in 1..(Len(s) - 1) : r[j] = IF j < i THEN s[j] ELSE s[j + 1]
    BY RemoveAtProperties
  <2> QED
    BY <2>1, LenProperties
<1> HIDE DEF r
<1>2. f \in [1..Len(r) -> 1..Len(s)]
  BY <1>1
<1>3. /\ \A j \in 1..Len(r) : f[j] # i /\ r[j] = s[f[j]]
      /\ \A j, k \in 1..Len(r) : f[j] = f[k] => j = k
  BY <1>1
<1>4. QED
  BY <1>2, <1>3 DEF r

(***************************************************************************)
(* The elements of a list, and what putting one in or taking one out does. *)
(***************************************************************************)
LEMMA ElementsOf ==
  ASSUME NEW S, NEW s \in Seq(S)
  PROVE  /\ \A x : x \in ToSet(s) <=> \E j \in 1..Len(s) : x = s[j]
         /\ ToSet(s) \subseteq S
<1>1. DOMAIN s = 1..Len(s) /\ \A j \in 1..Len(s) : s[j] \in S
  OBVIOUS
<1>2. QED
  BY <1>1 DEF ToSet

LEMMA AppendElements ==
  ASSUME NEW S, NEW s \in Seq(S), NEW x \in S
  PROVE  /\ Append(s, x) \in Seq(S)
         /\ Len(Append(s, x)) = Len(s) + 1
         /\ Append(s, x)[Len(s) + 1] = x
         /\ \A j \in 1..Len(s) : Append(s, x)[j] = s[j]
         /\ ToSet(Append(s, x)) = ToSet(s) \cup {x}
<1>1. /\ Append(s, x) \in Seq(S)
      /\ Len(s) \in Nat /\ Len(Append(s, x)) = Len(s) + 1
      /\ Append(s, x)[Len(s) + 1] = x
      /\ \A j \in 1..Len(s) : Append(s, x)[j] = s[j]
  BY AppendProperties, LenProperties
<1>2. /\ \A y : y \in ToSet(s) <=> \E j \in 1..Len(s) : y = s[j]
      /\ \A y : y \in ToSet(Append(s, x)) <=>
                 \E j \in 1..(Len(s) + 1) : y = Append(s, x)[j]
  <2>1. \A y : y \in ToSet(s) <=> \E j \in 1..Len(s) : y = s[j]
    BY ElementsOf
  <2>2. \A y : y \in ToSet(Append(s, x)) <=>
               \E j \in 1..Len(Append(s, x)) : y = Append(s, x)[j]
    BY <1>1, ElementsOf
  <2>3. 1..Len(Append(s, x)) = 1..(Len(s) + 1)
    BY <1>1
  <2> QED
    BY <2>1, <2>2, <2>3, Zenon
<1>3. \A j : j \in 1..(Len(s) + 1) <=> j \in 1..Len(s) \/ j = Len(s) + 1
  BY <1>1
<1>4. \A y : y \in ToSet(Append(s, x)) <=> y \in ToSet(s) \/ y = x
  BY <1>1, <1>2, <1>3
<1>5. QED
  BY <1>1, <1>4

LEMMA RemoveAtElements ==
  ASSUME NEW S, NEW s \in Seq(S), NEW i \in 1..Len(s)
  PROVE  \A x \in ToSet(RemoveAt(s, i)) : \E j \in 1..Len(s) : j # i /\ x = s[j]
<1>1. RemoveAt(s, i) \in Seq(S)
  BY RemoveAtProperties
<1>2. PICK f \in [1..Len(RemoveAt(s, i)) -> 1..Len(s)] :
        \A j \in 1..Len(RemoveAt(s, i)) : f[j] # i /\ RemoveAt(s, i)[j] = s[f[j]]
  BY RemoveAtOrigin
<1>3. ASSUME NEW x \in ToSet(RemoveAt(s, i))
      PROVE  \E j \in 1..Len(s) : j # i /\ x = s[j]
  <2>1. PICK k \in 1..Len(RemoveAt(s, i)) : x = RemoveAt(s, i)[k]
    BY <1>1, <1>3, ElementsOf
  <2> QED
    BY <1>2, <2>1
<1>4. QED
  BY <1>3

LEMMA StillElement ==
  ASSUME NEW S, NEW s \in Seq(S), NEW i \in 1..Len(s), NEW x \in ToSet(s), x # s[i]
  PROVE  x \in ToSet(RemoveAt(s, i))
<1>1. PICK j \in 1..Len(s) : x = s[j]
  BY ElementsOf
<1>2. j # i /\ Len(s) \in Nat
  BY <1>1, LenProperties
<1>3. /\ RemoveAt(s, i) \in Seq(S) /\ Len(RemoveAt(s, i)) = Len(s) - 1
      /\ \A k \in 1..(Len(s) - 1) : RemoveAt(s, i)[k] = IF k < i THEN s[k] ELSE s[k + 1]
  BY RemoveAtProperties
<1>4. PICK r : r = RemoveAt(s, i)
  OBVIOUS
<1>5. r \in Seq(S) /\ \E k \in 1..Len(r) : r[k] = x
  <2>1. CASE j < i
    <3>1. j \in 1..(Len(s) - 1)
      BY <1>2, <2>1
    <3> QED
      BY <1>1, <1>3, <1>4, <2>1, <3>1
  <2>2. CASE j > i
    <3>1. j - 1 \in 1..(Len(s) - 1) /\ ~ (j - 1 < i) /\ (j - 1) + 1 = j
      BY <1>2, <2>2
    <3> QED
      BY <1>1, <1>3, <1>4, <3>1
  <2> QED
    BY <1>2, <2>1, <2>2
<1>6. QED
  BY <1>4, <1>5, ElementsOf

(***************************************************************************)
(* The least of a set of positions, which is how a search finds the first  *)
(* entry that matches, is one of them.                                     *)
(***************************************************************************)
LEMMA MinProperties ==
  ASSUME NEW S \in SUBSET Nat, S # {}
  PROVE  /\ Min(S) \in S
         /\ \A x \in S : Min(S) <= x
<1> DEFINE R == {ss \in Nat \X Nat : ss[1] < ss[2]}
<1>1. R = OpToRel(<, Nat)
  BY Zenon DEF OpToRel
<1>2. IsWellFoundedOn(R, Nat)
  BY <1>1, NatLessThanWellFounded, Zenon
<1> HIDE DEF R
<1>3. PICK n \in S : \A x \in S : <<x, n>> \notin R
  BY <1>2, WFMin, Zenon
<1>4. \A x, y \in Nat : x < y => <<x, y>> \in R
  BY DEF R
<1>5. ASSUME NEW x \in S PROVE n <= x
  <2>1. x \in Nat /\ n \in Nat
    OBVIOUS
  <2>2. ~ (x < n)
    BY <1>3, <1>4, <2>1, Zenon
  <2> QED
    BY <2>1, <2>2
<1>6. QED
  BY <1>5 DEF Min

(***************************************************************************)
(* Induction, in the form that says which numbers a set contains.          *)
(***************************************************************************)
LEMMA Counting ==
  ASSUME NEW S, 0 \in S, \A i \in Nat : i \in S => i + 1 \in S
  PROVE  \A i \in Nat : i \in S
<1> SUFFICES ASSUME NEW i \in Nat, i \notin S PROVE FALSE
  OBVIOUS
<1>1. PICK m \in Nat \ S : \A j \in Nat \ S : m <= j
  <2> DEFINE missing == Nat \ S
  <2>1. missing \in SUBSET Nat /\ missing # {}
    OBVIOUS
  <2> HIDE DEF missing
  <2>2. Min(missing) \in missing /\ \A j \in missing : Min(missing) <= j
    BY <2>1, MinProperties
  <2> QED
    BY <2>2 DEF missing
<1>2. m # 0 /\ m - 1 \in Nat
  BY <1>1
<1>3. m - 1 \in S
  BY <1>1, <1>2
<1>4. QED
  BY <1>1, <1>2, <1>3

=============================================================================

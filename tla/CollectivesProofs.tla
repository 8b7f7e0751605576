------------------------ MODULE CollectivesProofs ------------------------
(***************************************************************************)
(* Theorems about Collectives, for every size of communicator, every radix *)
(* and every program of calls.                                             *)
(***************************************************************************)
EXTENDS Collectives, SchedulesProofs

(***************************************************************************)
(* What a rank does in the c-th call of the program, and what it has yet   *)
(* to do in its current one.                                               *)
(***************************************************************************)
Sources(r, c) == From(size, comm.radix, r, program[c])
Targets(r, c) == To(size, comm.radix, r, program[c])

Todo(r, a, p) == Has(steps[r], a, p)

SettingInv ==
  /\ comm \in Comms
  /\ program \in Seq(Calls(size))

(***************************************************************************)
(* The steps a rank has yet to do are some of its schedule's: what is      *)
(* started is finished.                                                    *)
(***************************************************************************)
StepsOf(r) ==
  /\ steps[r] \in Seq(StepSet(size))
  /\ Once(steps[r])
  /\ Then(steps[r], "post", "await")
  /\ Then(steps[r], "start", "finish")
  /\ calls[r] = 0 => steps[r] = << >>
  /\ \A p : Todo(r, "post", p) \/ Todo(r, "await", p) => p \in Sources(r, calls[r])
  /\ \A p : Todo(r, "start", p) \/ Todo(r, "finish", p) => p \in Targets(r, calls[r])

StepsInv ==
  /\ calls \in [Ranks -> 0..Len(program)]
  /\ steps \in [Ranks -> Seq(StepSet(size))]
  /\ \A r \in Ranks : StepsOf(r)

LEMMA SettingIs ==
  ASSUME SettingInv
  PROVE  /\ size \in Nat \ {0, 1} /\ comm.radix \in Nat \ {0, 1}
         /\ Len(program) \in Nat
         /\ \A c \in 1..Len(program) : IsCall(size, program[c])
<1>1. size \in Sizes /\ comm.radix \in Radixes
  BY DEF SettingInv, Comms, size
<1>2. size \in Nat \ {0, 1} /\ comm.radix \in Nat \ {0, 1}
  BY <1>1, CollectivesAssumption
<1>3. ASSUME NEW c \in 1..Len(program)
      PROVE  IsCall(size, program[c])
  <2>1. PICK S : S = Calls(size)
    OBVIOUS
  <2>2. program[c] \in S
    BY <2>1, ElementOfSeq DEF SettingInv
  <2>3. program[c] \in [kind : Kinds, root : 0..(size - 1), large : BOOLEAN,
                        inplace : BOOLEAN, empty : SUBSET (0..(size - 1))]
    BY <2>1, <2>2 DEF Calls
  <2>4. program[c].kind \in Kinds /\ program[c].root \in 0..(size - 1)
    BY <2>3
  <2> QED
    BY <2>4 DEF IsCall, Kinds
<1>4. Len(program) \in Nat
  BY LenProperties DEF SettingInv
<1>5. QED
  BY <1>2, <1>3, <1>4

LEMMA CallExchange ==
  ASSUME SettingInv, NEW r \in Ranks, NEW c \in 1..Len(program)
  PROVE  Exchange(size, r, Steps(r, program[c]), Sources(r, c), Targets(r, c))
<1>1. /\ size \in Nat \ {0, 1} /\ comm.radix \in Nat \ {0, 1}
      /\ IsCall(size, program[c])
  BY SettingIs
<1>2. r \in 0..(size - 1)
  BY DEF Ranks
<1>3. QED
  BY <1>1, <1>2, ScheduleExchange DEF Steps, Sources, Targets

LEMMA CallPaired ==
  ASSUME SettingInv, NEW s \in Ranks, NEW r \in Ranks, NEW c \in 1..Len(program)
  PROVE  r \in Targets(s, c) <=> s \in Sources(r, c)
<1>1. /\ size \in Nat \ {0, 1} /\ comm.radix \in Nat \ {0, 1}
      /\ IsCall(size, program[c])
  BY SettingIs
<1>2. r \in 0..(size - 1) /\ s \in 0..(size - 1)
  BY DEF Ranks
<1>3. QED
  BY <1>1, <1>2, SchedulePaired DEF Sources, Targets

(***************************************************************************)
(* What doing the first step of a sequence does to it.                     *)
(***************************************************************************)
LEMMA TailSteps ==
  ASSUME NEW D, NEW s \in Seq(D), s # << >>, Once(s), NEW t, t = Tail(s)
  PROVE  /\ t \in Seq(D)
         /\ Once(t)
         /\ Has(s, Head(s).do, Head(s).peer)
         /\ \A a, p : Has(t, a, p) <=> Has(s, a, p) /\ ~ (a = Head(s).do /\ p = Head(s).peer)
         /\ \A a, b : Then(s, a, b) => Then(t, a, b)
         /\ \A a, b : Then(s, a, b) /\ Head(s).do = a /\ a # b => Has(t, b, Head(s).peer)
<1>1. /\ t \in Seq(D) /\ Len(t) \in Nat /\ Len(s) = Len(t) + 1
      /\ \A i \in 1..Len(t) : t[i] = s[i + 1]
      /\ Head(s) = s[1]
  BY HeadTailProperties, LenProperties
<1>2. /\ \A i \in 1..Len(t) : i + 1 \in 1..Len(s)
      /\ \A i \in 1..Len(s) : i = 1 \/ \E j \in 1..Len(t) : i = j + 1
      /\ 1 \in 1..Len(s)
  <2>1. ASSUME NEW i \in 1..Len(s), i # 1
        PROVE  \E j \in 1..Len(t) : i = j + 1
    <3>1. i - 1 \in 1..Len(t) /\ i = i - 1 + 1
      BY <1>1, <2>1
    <3> QED
      BY <3>1
  <2> QED
    BY <1>1, <2>1
<1>3. Once(t)
  <2> SUFFICES ASSUME NEW i \in 1..Len(t), NEW j \in 1..Len(t),
                      t[i].do = t[j].do, t[i].peer = t[j].peer
               PROVE  i = j
    BY DEF Once
  <2>1. s[i + 1].do = s[j + 1].do /\ s[i + 1].peer = s[j + 1].peer
    BY <1>1
  <2>2. i + 1 = j + 1
    BY <1>2, <2>1 DEF Once
  <2> QED
    BY <1>1, <2>2
<1>4. Has(s, Head(s).do, Head(s).peer)
  BY <1>1, <1>2 DEF Has
<1>5. ASSUME NEW a, NEW p
      PROVE  Has(t, a, p) <=> Has(s, a, p) /\ ~ (a = Head(s).do /\ p = Head(s).peer)
  <2>1. ASSUME Has(t, a, p)
        PROVE  Has(s, a, p) /\ ~ (a = Head(s).do /\ p = Head(s).peer)
    <3>1. PICK j \in 1..Len(t) : t[j].do = a /\ t[j].peer = p
      BY <2>1 DEF Has
    <3>2. s[j + 1].do = a /\ s[j + 1].peer = p /\ j + 1 \in 1..Len(s)
      BY <1>1, <1>2, <3>1
    <3>3. j + 1 # 1
      BY <1>1
    <3>4. ~ (a = s[1].do /\ p = s[1].peer)
      BY <1>2, <3>2, <3>3 DEF Once
    <3> QED
      BY <1>1, <3>2, <3>4 DEF Has
  <2>2. ASSUME Has(s, a, p), ~ (a = Head(s).do /\ p = Head(s).peer)
        PROVE  Has(t, a, p)
    <3>1. PICK i \in 1..Len(s) : s[i].do = a /\ s[i].peer = p
      BY <2>2 DEF Has
    <3>2. i # 1
      BY <1>1, <2>2, <3>1
    <3>3. PICK j \in 1..Len(t) : i = j + 1
      BY <1>2, <3>2
    <3>4. t[j].do = a /\ t[j].peer = p
      BY <1>1, <3>1, <3>3
    <3> QED
      BY <3>4 DEF Has
  <2> QED
    BY <2>1, <2>2
<1>6. ASSUME NEW a, NEW b, Then(s, a, b)
      PROVE  Then(t, a, b)
  <2> SUFFICES ASSUME NEW i \in 1..Len(t), t[i].do = a
               PROVE  \E j \in 1..Len(t) : i < j /\ t[j].do = b /\ t[j].peer = t[i].peer
    BY DEF Then
  <2>1. s[i + 1].do = a /\ i + 1 \in 1..Len(s)
    BY <1>1, <1>2
  <2>2. PICK g \in 1..Len(s) : i + 1 < g /\ s[g].do = b /\ s[g].peer = s[i + 1].peer
    BY <1>6, <2>1 DEF Then
  <2>6. g # 1
    BY <1>1, <2>2
  <2>3. PICK j \in 1..Len(t) : g = j + 1
    BY <1>2, <2>6
  <2>4. i < j
    BY <1>1, <2>2, <2>3
  <2>5. t[j].do = b /\ t[j].peer = t[i].peer
    BY <1>1, <2>2, <2>3
  <2> QED
    BY <2>4, <2>5
<1>7. ASSUME NEW a, NEW b, Then(s, a, b), Head(s).do = a, a # b
      PROVE  Has(t, b, Head(s).peer)
  <2>1. PICK g \in 1..Len(s) : 1 < g /\ s[g].do = b /\ s[g].peer = s[1].peer
    BY <1>1, <1>2, <1>7 DEF Then
  <2>2. Has(s, b, Head(s).peer)
    BY <1>1, <2>1 DEF Has
  <2> QED
    BY <1>5, <1>7, <2>2
<1>8. QED
  BY <1>1, <1>3, <1>4, <1>5, <1>6, <1>7

(***************************************************************************)
(* A receive is posted, then is with NA or has its message, and is awaited *)
(* then; the message is one of the receiver's current call.                *)
(***************************************************************************)
Receiving(r, s) ==
  /\ Todo(r, "post", s) => s \notin posted[r] /\ inbox[r][s] = NoMessage
  /\ Todo(r, "await", s) /\ ~ Todo(r, "post", s) =>
       (s \in posted[r] <=> inbox[r][s] = NoMessage)
  /\ ~ Todo(r, "await", s) => s \notin posted[r] /\ inbox[r][s] = NoMessage
  /\ inbox[r][s] = NoMessage \/ inbox[r][s].nth = calls[r]

ReceiveInv ==
  /\ posted \in [Ranks -> SUBSET Ranks]
  /\ inbox = [r \in Ranks |-> [s \in Ranks |-> inbox[r][s]]]
  /\ \A r, s \in Ranks : Receiving(r, s)

(***************************************************************************)
(* Between two ranks are the messages of those calls in which one has      *)
(* started to send and the other has not received, in the order of the     *)
(* calls.                                                                  *)
(***************************************************************************)
Started(s, r, c) ==
  r \in Targets(s, c) /\ (c < calls[s] \/ (c = calls[s] /\ ~ Todo(s, "start", r)))

Taken(s, r, c) ==
  /\ s \in Sources(r, c)
  /\ c < calls[r] \/ (c = calls[r] /\ ~ Todo(r, "post", s) /\ s \notin posted[r])

InChannel(s, r, c) == \E i \in 1..Len(chan[s][r]) : chan[s][r][i].nth = c

Ordered(m) ==
  /\ Len(m) \in Nat
  /\ m = [i \in 1..Len(m) |-> m[i]]
  /\ \A i \in 1..Len(m) : m[i].nth \in 1..Len(program)
  /\ \A i, j \in 1..Len(m) : i < j => m[i].nth < m[j].nth

ChannelInv ==
  /\ chan = [s \in Ranks |-> [r \in Ranks |-> chan[s][r]]]
  /\ \A s, r \in Ranks :
       /\ Ordered(chan[s][r])
       /\ \A c \in 1..Len(program) :
            /\ InChannel(s, r, c) <=> Started(s, r, c) /\ ~ Taken(s, r, c)
            /\ Taken(s, r, c) => Started(s, r, c)

(***************************************************************************)
(* A large message whose send is over has been taken.                      *)
(***************************************************************************)
LargeInv ==
  \A r, s \in Ranks :
    (calls[r] > 0 /\ IsLarge(Current(r)) /\ ~ Todo(r, "start", s) /\ ~ Todo(r, "finish", s))
      => ~ InChannel(r, s, calls[r])

IndInv == SettingInv /\ StepsInv /\ ReceiveInv /\ ChannelInv /\ LargeInv

LEMMA NothingToDo ==
  ASSUME NEW r, steps[r] = << >>
  PROVE  \A a, p : ~ Todo(r, a, p)
  BY Nothing0 DEF Todo

LEMMA InitInd ==
  ASSUME Init
  PROVE  IndInv
<1>1. SettingInv
  <2>1. comm \in Comms /\ program \in Programs(comm)
    BY DEF Init
  <2>3. Programs(comm) \subseteq Seq(Calls(size))
    BY <2>1, CollectivesAssumption DEF size
  <2> QED
    BY <2>1, <2>3 DEF SettingInv
<1>2. Len(program) \in Nat
  BY <1>1, SettingIs
<1>3. \A r \in Ranks : calls[r] = 0 /\ steps[r] = << >> /\ posted[r] = {}
  BY DEF Init
<1>4. \A r \in Ranks : \A a, p : ~ Todo(r, a, p)
  BY <1>3, NothingToDo
<1>5. StepsInv
  <2>1. calls \in [Ranks -> 0..Len(program)]
    BY <1>2 DEF Init
  <2>2. << >> \in Seq(StepSet(size)) /\ Once(<< >>) /\ \A a, b : Then(<< >>, a, b)
    BY Nothing0
  <2>3. steps \in [Ranks -> Seq(StepSet(size))]
    BY <2>2 DEF Init
  <2>4. \A r \in Ranks : StepsOf(r)
    BY <1>3, <1>4, <2>2 DEF StepsOf
  <2> QED
    BY <2>1, <2>3, <2>4 DEF StepsInv
<1>6. ReceiveInv
  <2>1. posted \in [Ranks -> SUBSET Ranks]
    BY DEF Init
  <2>2. inbox = [r \in Ranks |-> [s \in Ranks |-> NoMessage]]
    BY DEF Init
  <2>3. inbox = [r \in Ranks |-> [s \in Ranks |-> inbox[r][s]]]
    BY <2>2
  <2>4. \A r, s \in Ranks : inbox[r][s] = NoMessage
    BY <2>2
  <2>5. \A r, s \in Ranks : Receiving(r, s)
    BY <1>3, <1>4, <2>4 DEF Receiving
  <2> QED
    BY <2>1, <2>3, <2>5 DEF ReceiveInv
<1>7. \A s, r \in Ranks : chan[s][r] = << >>
  BY DEF Init
<1>8. \A s, r \in Ranks : \A c : ~ InChannel(s, r, c)
  BY <1>7 DEF InChannel
<1>9. ChannelInv
  <2>1. chan = [s \in Ranks |-> [r \in Ranks |-> chan[s][r]]]
    BY DEF Init
  <2>2. Ordered(<< >>)
    BY DEF Ordered
  <2>3. ASSUME NEW s \in Ranks, NEW r \in Ranks, NEW c \in 1..Len(program)
        PROVE  ~ Started(s, r, c) /\ ~ Taken(s, r, c)
    BY <1>3, <2>3 DEF Started, Taken
  <2> QED
    BY <1>7, <1>8, <2>1, <2>2, <2>3 DEF ChannelInv
<1>10. LargeInv
  BY <1>8 DEF LargeInv
<1>11. QED
  BY <1>1, <1>5, <1>6, <1>9, <1>10 DEF IndInv

(***************************************************************************)
(* A call begins with all the steps of its schedule.                       *)
(***************************************************************************)
LEMMA EnterSteps ==
  ASSUME SettingInv, StepsInv, NEW r \in Ranks, Enter(r)
  PROVE  /\ SettingInv' /\ Ranks' = Ranks /\ Len(program)' = Len(program)
         /\ StepsInv'
         /\ \A a, p : ~ Todo(r, a, p)
         /\ calls'[r] = calls[r] + 1 /\ calls'[r] \in 1..Len(program)
         /\ \A p : /\ Todo(r, "post", p)' <=> p \in Sources(r, calls'[r])
                   /\ Todo(r, "await", p)' <=> p \in Sources(r, calls'[r])
                   /\ Todo(r, "start", p)' <=> p \in Targets(r, calls'[r])
                   /\ Todo(r, "finish", p)' <=> p \in Targets(r, calls'[r])
         /\ \A q \in Ranks \ {r} : /\ calls'[q] = calls[q]
                                   /\ \A a, p : Todo(q, a, p)' <=> Todo(q, a, p)
<1>1. /\ steps[r] = << >> /\ calls[r] < Len(program)
      /\ calls' = [calls EXCEPT ![r] = @ + 1]
      /\ steps' = [steps EXCEPT ![r] = Steps(r, program[calls[r] + 1])]
      /\ comm' = comm /\ program' = program
  BY DEF Enter, setting
<1>2. size' = size /\ Ranks' = Ranks /\ Len(program)' = Len(program) /\ SettingInv'
  BY <1>1 DEF size, Ranks, SettingInv, Calls
<1>3. /\ calls \in [Ranks -> 0..Len(program)] /\ steps \in [Ranks -> Seq(StepSet(size))]
      /\ \A q \in Ranks : StepsOf(q)
  BY DEF StepsInv
<1>4. Len(program) \in Nat
  BY SettingIs
<1>5. PICK c \in 1..Len(program) : c = calls[r] + 1
  BY <1>1, <1>3, <1>4
<1>6. PICK s, f, g : s = Steps(r, program[c]) /\ f = Sources(r, c) /\ g = Targets(r, c)
  OBVIOUS
<1>7. Exchange(size, r, s, f, g)
  BY <1>6, CallExchange
<1>8. /\ s \in Seq(StepSet(size)) /\ Once(s)
      /\ Then(s, "post", "await") /\ Then(s, "start", "finish")
      /\ \A p : /\ Has(s, "post", p) <=> p \in f
                /\ Has(s, "await", p) <=> p \in f
                /\ Has(s, "start", p) <=> p \in g
                /\ Has(s, "finish", p) <=> p \in g
  BY <1>7 DEF Exchange
<1>9. /\ calls'[r] = c /\ steps'[r] = s
      /\ \A q \in Ranks \ {r} : calls'[q] = calls[q] /\ steps'[q] = steps[q]
  BY <1>1, <1>3, <1>5, <1>6
<1>10. calls' \in [Ranks -> 0..Len(program)] /\ steps' \in [Ranks -> Seq(StepSet(size))]
  BY <1>1, <1>3, <1>5, <1>6, <1>8
<1>11. \A q, d : Sources(q, d)' = Sources(q, d) /\ Targets(q, d)' = Targets(q, d)
  BY <1>1, <1>2 DEF Sources, Targets
<1>12. StepSet(size') = StepSet(size)
  BY <1>2
<1>13. ASSUME NEW q \in Ranks
       PROVE  StepsOf(q)'
  <2>1. CASE q = r
    <3>1. c # 0
      OBVIOUS
    <3>2. From(size', comm'.radix, r, program'[c]) = f /\ To(size', comm'.radix, r, program'[c]) = g
      BY <1>1, <1>2, <1>6 DEF Sources, Targets
    <3> QED
      BY <1>8, <1>9, <1>12, <2>1, <3>1, <3>2 DEF StepsOf, Todo, Sources, Targets
  <2>2. CASE q # r
    <3>1. StepsOf(q)
      BY <1>3
    <3> QED
      BY <1>1, <1>2, <1>9, <2>2, <3>1 DEF StepsOf, Todo, Sources, Targets
  <2> QED
    BY <2>1, <2>2
<1>14. StepsInv'
  BY <1>2, <1>10, <1>13 DEF StepsInv
<1>15. \A p : /\ Todo(r, "post", p)' <=> p \in Sources(r, c)
              /\ Todo(r, "await", p)' <=> p \in Sources(r, c)
              /\ Todo(r, "start", p)' <=> p \in Targets(r, c)
              /\ Todo(r, "finish", p)' <=> p \in Targets(r, c)
  BY <1>6, <1>8, <1>9 DEF Todo
<1>16. \A q \in Ranks \ {r} : \A a, p : Todo(q, a, p)' <=> Todo(q, a, p)
  BY <1>9 DEF Todo
<1>17. \A a, p : ~ Todo(r, a, p)
  BY <1>1, NothingToDo
<1>18. QED
  BY <1>2, <1>5, <1>9, <1>14, <1>15, <1>16, <1>17

(***************************************************************************)
(* A step that is done is gone; what it begins is still to be waited for.  *)
(***************************************************************************)
LEMMA DoneSteps ==
  ASSUME SettingInv, StepsInv, NEW r \in Ranks, NEW do, AtStep(r, do), Done(r),
         UNCHANGED <<setting, calls>>, NEW p, p = Peer(r)
  PROVE  /\ SettingInv' /\ Ranks' = Ranks /\ Len(program)' = Len(program)
         /\ StepsInv'
         /\ calls[r] \in 1..Len(program)
         /\ p \in Ranks
         /\ Todo(r, do, p)
         /\ \A a, x : Todo(r, a, x)' <=> Todo(r, a, x) /\ ~ (a = do /\ x = p)
         /\ do = "post" => Todo(r, "await", p)'
         /\ do = "start" => Todo(r, "finish", p)'
         /\ \A q \in Ranks \ {r} : \A a, x : Todo(q, a, x)' <=> Todo(q, a, x)
<1>1. /\ steps[r] # << >> /\ Head(steps[r]).do = do
      /\ steps' = [steps EXCEPT ![r] = Tail(@)]
      /\ comm' = comm /\ program' = program /\ calls' = calls
  BY DEF AtStep, Done, setting
<1>2. size' = size /\ Ranks' = Ranks /\ Len(program)' = Len(program) /\ SettingInv'
  BY <1>1 DEF size, Ranks, SettingInv, Calls
<1>3. /\ calls \in [Ranks -> 0..Len(program)] /\ steps \in [Ranks -> Seq(StepSet(size))]
      /\ \A q \in Ranks : StepsOf(q)
  BY DEF StepsInv
<1>4. PICK s, t : s = steps[r] /\ t = Tail(s)
  OBVIOUS
<1>5. /\ s \in Seq(StepSet(size)) /\ Once(s) /\ s # << >>
      /\ Then(s, "post", "await") /\ Then(s, "start", "finish")
      /\ calls[r] # 0
  BY <1>1, <1>3, <1>4 DEF StepsOf
<1>6. Head(s).do = do /\ Head(s).peer = p
  BY <1>1, <1>4 DEF Peer
<1>7. /\ t \in Seq(StepSet(size))
      /\ Once(t)
      /\ Has(s, do, p)
      /\ \A a, x : Has(t, a, x) <=> Has(s, a, x) /\ ~ (a = do /\ x = p)
      /\ Then(t, "post", "await") /\ Then(t, "start", "finish")
      /\ do = "post" => Has(t, "await", p)
      /\ do = "start" => Has(t, "finish", p)
  <2>1. /\ t \in Seq(StepSet(size))
        /\ Once(t)
        /\ Has(s, Head(s).do, Head(s).peer)
        /\ \A a, x : Has(t, a, x) <=> Has(s, a, x) /\ ~ (a = Head(s).do /\ x = Head(s).peer)
        /\ \A a, b : Then(s, a, b) => Then(t, a, b)
        /\ \A a, b : Then(s, a, b) /\ Head(s).do = a /\ a # b => Has(t, b, Head(s).peer)
    BY <1>4, <1>5, TailSteps, Zenon
  <2>2. Then(t, "post", "await") /\ Then(t, "start", "finish")
    BY <1>5, <2>1
  <2>3. do = "post" => Has(t, "await", p)
    <3>1. "post" # "await"
      OBVIOUS
    <3> QED
      BY <1>5, <1>6, <2>1, <3>1
  <2>4. do = "start" => Has(t, "finish", p)
    <3>1. "start" # "finish"
      OBVIOUS
    <3> QED
      BY <1>5, <1>6, <2>1, <3>1
  <2>5. \A a, x : Has(t, a, x) <=> Has(s, a, x) /\ ~ (a = do /\ x = p)
    BY <1>6, <2>1
  <2>6. Has(s, do, p)
    BY <1>6, <2>1
  <2> QED
    BY <2>1, <2>2, <2>3, <2>4, <2>5, <2>6
<1>8. /\ steps'[r] = t
      /\ \A q \in Ranks \ {r} : steps'[q] = steps[q]
  BY <1>1, <1>3, <1>4
<1>9. p \in Ranks
  <2>1. Head(s) \in StepSet(size)
    BY <1>5, HeadTailProperties
  <2>2. Head(s).peer \in 0..(size - 1)
    BY <2>1 DEF StepSet
  <2> QED
    BY <1>6, <2>2 DEF Ranks
<1>10. calls[r] \in 1..Len(program)
  <2>1. calls[r] \in 0..Len(program) /\ calls[r] # 0 /\ Len(program) \in Nat
    BY <1>3, <1>5, SettingIs
  <2> QED
    BY <2>1
<1>11. steps' \in [Ranks -> Seq(StepSet(size))]
  BY <1>1, <1>3, <1>4, <1>7
<1>12. ASSUME NEW q \in Ranks
       PROVE  StepsOf(q)'
  <2>1. StepsOf(q)
    BY <1>3
  <2>2. StepSet(size') = StepSet(size)
    BY <1>2
  <2>3. CASE q = r
    <3>1. \A x : /\ Has(t, "post", x) \/ Has(t, "await", x) => x \in Sources(r, calls[r])
                 /\ Has(t, "start", x) \/ Has(t, "finish", x) => x \in Targets(r, calls[r])
      BY <1>4, <1>7, <2>1, <2>3 DEF StepsOf, Todo
    <3> QED
      BY <1>1, <1>2, <1>5, <1>7, <1>8, <2>2, <2>3, <3>1 DEF StepsOf, Todo, Sources, Targets
  <2>4. CASE q # r
    BY <1>1, <1>2, <1>8, <2>1, <2>4 DEF StepsOf, Todo, Sources, Targets
  <2> QED
    BY <2>3, <2>4
<1>13. StepsInv'
  BY <1>1, <1>2, <1>3, <1>11, <1>12 DEF StepsInv
<1>14. \A a, x : Todo(r, a, x)' <=> Todo(r, a, x) /\ ~ (a = do /\ x = p)
  BY <1>4, <1>7, <1>8 DEF Todo
<1>15. \A q \in Ranks \ {r} : \A a, x : Todo(q, a, x)' <=> Todo(q, a, x)
  BY <1>8 DEF Todo
<1>16. /\ Todo(r, do, p)
       /\ do = "post" => Todo(r, "await", p)'
       /\ do = "start" => Todo(r, "finish", p)'
  BY <1>4, <1>7, <1>8 DEF Todo
<1>17. QED
  BY <1>2, <1>9, <1>10, <1>13, <1>14, <1>15, <1>16

(***************************************************************************)
(* Messages between two ranks.                                             *)
(***************************************************************************)
LEMMA SeqIsFunction ==
  ASSUME NEW D, NEW t \in Seq(D)
  PROVE  Len(t) \in Nat /\ t = [i \in 1..Len(t) |-> t[i]]
<1>1. Len(t) \in Nat /\ t \in [1..Len(t) -> D]
  BY LenProperties
<1> QED
  BY <1>1, Zenon

LEMMA OrderedTail ==
  ASSUME NEW m, Ordered(m), m # << >>, NEW t, t = Tail(m)
  PROVE  /\ Ordered(t)
         /\ 1 \in 1..Len(m) /\ Head(m) = m[1]
         /\ \A i \in 1..Len(t) : t[i] = m[i + 1] /\ i + 1 \in 1..Len(m)
         /\ \A i \in 1..Len(m) : i = 1 \/ \E j \in 1..Len(t) : i = j + 1
<1>1. /\ Len(m) \in Nat
      /\ m = [i \in 1..Len(m) |-> m[i]]
      /\ \A i \in 1..Len(m) : m[i].nth \in 1..Len(program)
      /\ \A i, j \in 1..Len(m) : i < j => m[i].nth < m[j].nth
  BY DEF Ordered
<1>2. PICK D : D = {m[i] : i \in 1..Len(m)}
  OBVIOUS
<1>3. m \in Seq(D)
  BY <1>1, <1>2
<1>4. /\ t \in Seq(D) /\ Len(t) \in Nat /\ Len(m) = Len(t) + 1
      /\ \A i \in 1..Len(t) : t[i] = m[i + 1]
      /\ Head(m) = m[1]
  BY <1>3, HeadTailProperties, LenProperties
<1>5. \A i \in 1..Len(t) : i + 1 \in 1..Len(m)
  BY <1>4
<1>6. 1 \in 1..Len(m)
  BY <1>4
<1>7. ASSUME NEW i \in 1..Len(m), i # 1
      PROVE  \E j \in 1..Len(t) : i = j + 1
  <2>1. i - 1 \in 1..Len(t) /\ i = i - 1 + 1
    BY <1>4, <1>7
  <2> QED
    BY <2>1
<1>8. t = [i \in 1..Len(t) |-> t[i]]
  BY <1>4, SeqIsFunction, Zenon
<1>9. \A i \in 1..Len(t) : t[i].nth \in 1..Len(program)
  BY <1>1, <1>4, <1>5
<1>10. ASSUME NEW i \in 1..Len(t), NEW j \in 1..Len(t), i < j
       PROVE  t[i].nth < t[j].nth
  <2>1. i + 1 < j + 1
    BY <1>4, <1>10
  <2>2. m[i + 1].nth < m[j + 1].nth
    BY <1>1, <1>5, <2>1
  <2> QED
    BY <1>4, <2>2
<1>11. Ordered(t)
  BY <1>4, <1>8, <1>9, <1>10 DEF Ordered
<1>12. QED
  BY <1>4, <1>5, <1>6, <1>7, <1>11

LEMMA OrderedAppend ==
  ASSUME NEW m, Ordered(m), NEW x, x.nth \in 1..Len(program),
         \A i \in 1..Len(m) : m[i].nth < x.nth, NEW t, t = Append(m, x)
  PROVE  /\ Ordered(t)
         /\ Len(m) + 1 \in 1..Len(t) /\ t[Len(m) + 1] = x
         /\ \A i \in 1..Len(m) : i \in 1..Len(t) /\ t[i] = m[i]
         /\ \A i \in 1..Len(t) : i \in 1..Len(m) \/ i = Len(m) + 1
<1>1. /\ Len(m) \in Nat
      /\ m = [i \in 1..Len(m) |-> m[i]]
      /\ \A i \in 1..Len(m) : m[i].nth \in 1..Len(program)
      /\ \A i, j \in 1..Len(m) : i < j => m[i].nth < m[j].nth
  BY DEF Ordered
<1>2. PICK D : D = {m[i] : i \in 1..Len(m)} \cup {x}
  OBVIOUS
<1>3. m \in Seq(D) /\ x \in D
  BY <1>1, <1>2
<1>4. /\ t \in Seq(D) /\ Len(t) = Len(m) + 1
      /\ \A i \in 1..Len(m) : t[i] = m[i]
      /\ t[Len(m) + 1] = x
  BY <1>3, AppendProperties
<1>5. /\ Len(m) + 1 \in 1..Len(t)
      /\ \A i \in 1..Len(m) : i \in 1..Len(t)
      /\ \A i \in 1..Len(t) : i \in 1..Len(m) \/ i = Len(m) + 1
  BY <1>1, <1>4
<1>6. Len(t) \in Nat /\ t = [i \in 1..Len(t) |-> t[i]]
  BY <1>4, SeqIsFunction, Zenon
<1>7. \A i \in 1..Len(t) : t[i].nth \in 1..Len(program)
  BY <1>1, <1>4, <1>5
<1>8. ASSUME NEW i \in 1..Len(t), NEW j \in 1..Len(t), i < j
      PROVE  t[i].nth < t[j].nth
  <2>1. i \in 1..Len(m)
    BY <1>1, <1>4, <1>8
  <2>2. CASE j \in 1..Len(m)
    BY <1>1, <1>4, <1>8, <2>1, <2>2
  <2>3. CASE j = Len(m) + 1
    BY <1>4, <2>1, <2>3
  <2> QED
    BY <1>5, <2>2, <2>3
<1>9. Ordered(t)
  BY <1>6, <1>7, <1>8 DEF Ordered
<1>10. QED
  BY <1>4, <1>5, <1>9

(***************************************************************************)
(* Types, whatever is missed: every message is of a call of the program.   *)
(***************************************************************************)
Numbered(m) ==
  /\ Len(m) \in Nat
  /\ m = [i \in 1..Len(m) |-> m[i]]
  /\ \A i \in 1..Len(m) : m[i].nth \in 1..Len(program)

MessagesInv ==
  /\ inbox = [r \in Ranks |-> [s \in Ranks |-> inbox[r][s]]]
  /\ chan = [s \in Ranks |-> [r \in Ranks |-> chan[s][r]]]
  /\ \A r, s \in Ranks : /\ inbox[r][s].nth \in 0..Len(program)
                         /\ Numbered(chan[s][r])

QueueInv ==
  /\ queued \in [Ranks -> [Ranks -> Nat]]
  /\ blind \in [Ranks -> SUBSET Ranks]

TypeInv ==
  /\ SettingInv /\ StepsInv
  /\ posted \in [Ranks -> SUBSET Ranks]
  /\ MessagesInv /\ QueueInv

LEMMA InitType ==
  ASSUME Init
  PROVE  TypeInv
<1>1. SettingInv /\ StepsInv /\ posted \in [Ranks -> SUBSET Ranks]
  BY InitInd DEF IndInv, ReceiveInv
<1>2. Len(program) \in Nat
  BY <1>1, SettingIs
<1>3. /\ inbox = [r \in Ranks |-> [s \in Ranks |-> NoMessage]]
      /\ chan = [s \in Ranks |-> [r \in Ranks |-> << >>]]
  BY DEF Init
<1>4. Numbered(<< >>) /\ NoMessage.nth \in 0..Len(program)
  BY <1>2 DEF Numbered, NoMessage
<1>5. MessagesInv
  <2>1. /\ inbox = [r \in Ranks |-> [s \in Ranks |-> inbox[r][s]]]
        /\ chan = [s \in Ranks |-> [r \in Ranks |-> chan[s][r]]]
    BY <1>3
  <2>2. \A r, s \in Ranks : inbox[r][s] = NoMessage /\ chan[s][r] = << >>
    BY <1>3
  <2> QED
    BY <1>4, <2>1, <2>2 DEF MessagesInv
<1>6. QueueInv
  BY DEF Init, QueueInv
<1>7. QED
  BY <1>1, <1>5, <1>6 DEF TypeInv

LEMMA SameMessages ==
  ASSUME MessagesInv, Ranks' = Ranks, program' = program, chan' = chan, inbox' = inbox
  PROVE  MessagesInv'
  BY DEF MessagesInv, Numbered

LEMMA SameQueue ==
  ASSUME QueueInv, Ranks' = Ranks, UNCHANGED queue
  PROVE  QueueInv'
  BY DEF QueueInv, queue

LEMMA StartMessages ==
  ASSUME TypeInv, NEW r \in Ranks, StartSend(r), Ranks' = Ranks,
         calls[r] \in 1..Len(program), Peer(r) \in Ranks
  PROVE  MessagesInv'
<1>1. PICK p, x : /\ p = Peer(r)
                  /\ x = [nth |-> calls[r], data |-> Sent(r, p, Head(steps[r]).of)]
  OBVIOUS
<1>2. PICK m, t : m = chan[r][p] /\ t = Append(m, x)
  OBVIOUS
<1>3. chan' = [chan EXCEPT ![r][p] = t] /\ inbox' = inbox /\ program' = program
  BY <1>1, <1>2 DEF StartSend, setting
<1>4. MessagesInv /\ p \in Ranks /\ x.nth \in 1..Len(program)
  BY <1>1 DEF TypeInv
<1>5. Numbered(m)
  BY <1>2, <1>4 DEF MessagesInv
<1>6. PICK D : D = {m[i] : i \in 1..Len(m)} \cup {x}
  OBVIOUS
<1>7. m \in Seq(D) /\ x \in D
  BY <1>5, <1>6 DEF Numbered
<1>8. /\ t \in Seq(D) /\ Len(t) = Len(m) + 1
      /\ \A i \in 1..Len(m) : t[i] = m[i]
      /\ t[Len(m) + 1] = x
  BY <1>2, <1>7, AppendProperties
<1>9. Numbered(t)
  <2>1. Len(t) \in Nat /\ t = [i \in 1..Len(t) |-> t[i]]
    BY <1>8, SeqIsFunction, Zenon
  <2>2. \A i \in 1..Len(t) : i \in 1..Len(m) \/ i = Len(m) + 1
    BY <1>5, <1>8 DEF Numbered
  <2>3. \A i \in 1..Len(t) : t[i].nth \in 1..Len(program)
    BY <1>4, <1>5, <1>8, <2>2 DEF Numbered
  <2> QED
    BY <2>1, <2>3 DEF Numbered
<1>10. chan = [s \in Ranks |-> [q \in Ranks |-> chan[s][q]]]
  BY <1>4 DEF MessagesInv
<1>11. /\ chan'[r][p] = t
       /\ \A s, q \in Ranks : ~ (s = r /\ q = p) => chan'[s][q] = chan[s][q]
       /\ chan' = [s \in Ranks |-> [q \in Ranks |-> chan'[s][q]]]
  BY <1>3, <1>4, <1>10
<1>12. ASSUME NEW s \in Ranks, NEW q \in Ranks
       PROVE  Numbered(chan'[s][q])
  BY <1>4, <1>9, <1>11 DEF MessagesInv
<1>13. /\ inbox = [q \in Ranks |-> [s \in Ranks |-> inbox[q][s]]]
       /\ \A q, s \in Ranks : inbox[q][s].nth \in 0..Len(program)
  BY <1>4 DEF MessagesInv
<1>14. ASSUME NEW q \in Ranks, NEW s \in Ranks
       PROVE  inbox'[q][s].nth \in 0..Len(program) /\ Numbered(chan'[s][q])
  BY <1>3, <1>12, <1>13
<1>15. inbox' = [q \in Ranks |-> [s \in Ranks |-> inbox'[q][s]]]
  BY <1>3, <1>13
<1>16. QED
  BY <1>3, <1>11, <1>14, <1>15 DEF MessagesInv, Numbered

LEMMA AwaitMessages ==
  ASSUME TypeInv, NEW r \in Ranks, AwaitReceive(r), Ranks' = Ranks, Peer(r) \in Ranks
  PROVE  MessagesInv'
<1>1. PICK p : p = Peer(r)
  OBVIOUS
<1>2. inbox' = [inbox EXCEPT ![r][p] = NoMessage] /\ chan' = chan /\ program' = program
  BY <1>1 DEF AwaitReceive, setting
<1>3. MessagesInv /\ p \in Ranks /\ Len(program) \in Nat
  BY <1>1, SettingIs DEF TypeInv
<1>4. inbox = [q \in Ranks |-> [s \in Ranks |-> inbox[q][s]]]
  BY <1>3 DEF MessagesInv
<1>5. /\ inbox'[r][p] = NoMessage
      /\ \A q, s \in Ranks : ~ (q = r /\ s = p) => inbox'[q][s] = inbox[q][s]
      /\ inbox' = [q \in Ranks |-> [s \in Ranks |-> inbox'[q][s]]]
  BY <1>2, <1>3, <1>4
<1>6. NoMessage.nth \in 0..Len(program)
  BY <1>3 DEF NoMessage
<1>7. \A q, s \in Ranks : inbox'[q][s].nth \in 0..Len(program)
  BY <1>3, <1>5, <1>6 DEF MessagesInv
<1>8. /\ chan = [s \in Ranks |-> [q \in Ranks |-> chan[s][q]]]
      /\ \A s, q \in Ranks : Numbered(chan[s][q])
  BY <1>3 DEF MessagesInv
<1>9. ASSUME NEW q \in Ranks, NEW s \in Ranks
      PROVE  inbox'[q][s].nth \in 0..Len(program) /\ Numbered(chan'[s][q])
  BY <1>2, <1>7, <1>8
<1>10. chan' = [s \in Ranks |-> [q \in Ranks |-> chan'[s][q]]]
  BY <1>2, <1>8
<1>11. QED
  BY <1>2, <1>5, <1>9, <1>10 DEF MessagesInv, Numbered

LEMMA DeliverMessages ==
  ASSUME TypeInv, NEW r \in Ranks, NEW s \in Ranks, Deliver(s, r), Ranks' = Ranks
  PROVE  MessagesInv' /\ QueueInv'
<1>1. /\ MessagesInv /\ QueueInv /\ Len(program) \in Nat
      /\ posted \in [Ranks -> SUBSET Ranks]
  BY SettingIs DEF TypeInv
<1>2. PICK m : m = chan[s][r]
  OBVIOUS
<1>3. queued[r][s] \in Nat /\ Numbered(m)
  BY <1>1, <1>2 DEF QueueInv, MessagesInv
<1>4. PICK i \in 1..Len(m) : i = Oldest(s, r)
  BY <1>2, <1>3 DEF Deliver, Oldest, Numbered
<1>5. PICK t, x : t = RemoveAt(m, i) /\ x = m[i]
  OBVIOUS
<1>6. /\ inbox' = [inbox EXCEPT ![r][s] = x]
      /\ chan' = [chan EXCEPT ![s][r] = t]
      /\ program' = program
  BY <1>2, <1>4, <1>5 DEF Deliver, setting
<1>7. Numbered(t)
  <2>1. PICK D : D = {m[j] : j \in 1..Len(m)}
    OBVIOUS
  <2>2. m \in Seq(D)
    BY <1>3, <2>1 DEF Numbered
  <2>3. /\ t \in Seq(D) /\ Len(t) = Len(m) - 1
        /\ \A j \in 1..(Len(m) - 1) : t[j] = IF j < i THEN m[j] ELSE m[j + 1]
    BY <1>5, <2>2, RemoveAtProperties
  <2>4. Len(t) \in Nat /\ t = [j \in 1..Len(t) |-> t[j]]
    BY <2>3, SeqIsFunction, Zenon
  <2>5. \A j \in 1..Len(t) : j \in 1..Len(m) /\ j + 1 \in 1..Len(m)
    BY <1>3, <2>3 DEF Numbered
  <2>6. \A j \in 1..Len(t) : t[j].nth \in 1..Len(program)
    BY <1>3, <2>3, <2>5 DEF Numbered
  <2> QED
    BY <2>4, <2>6 DEF Numbered
<1>8. chan = [q \in Ranks |-> [z \in Ranks |-> chan[q][z]]]
  BY <1>1 DEF MessagesInv
<1>9. /\ chan'[s][r] = t
      /\ \A q, z \in Ranks : ~ (q = s /\ z = r) => chan'[q][z] = chan[q][z]
      /\ chan' = [q \in Ranks |-> [z \in Ranks |-> chan'[q][z]]]
  BY <1>6, <1>8
<1>10. inbox = [q \in Ranks |-> [z \in Ranks |-> inbox[q][z]]]
  BY <1>1 DEF MessagesInv
<1>11. /\ inbox'[r][s] = x
       /\ \A q, z \in Ranks : ~ (q = r /\ z = s) => inbox'[q][z] = inbox[q][z]
       /\ inbox' = [q \in Ranks |-> [z \in Ranks |-> inbox'[q][z]]]
  BY <1>6, <1>10
<1>12. x.nth \in 0..Len(program)
  <2>1. x.nth \in 1..Len(program)
    BY <1>3, <1>5 DEF Numbered
  <2> QED
    BY <1>1, <2>1
<1>13. ASSUME NEW q \in Ranks, NEW z \in Ranks
       PROVE  inbox'[q][z].nth \in 0..Len(program) /\ Numbered(chan'[z][q])
  <2>1. inbox'[q][z].nth \in 0..Len(program)
    BY <1>1, <1>11, <1>12 DEF MessagesInv
  <2>2. Numbered(chan'[z][q])
    BY <1>1, <1>7, <1>9 DEF MessagesInv
  <2> QED
    BY <2>1, <2>2
<1>14. MessagesInv'
  BY <1>6, <1>9, <1>11, <1>13 DEF MessagesInv, Numbered
<1>15. PICK k \in Nat : k = Kept(s, r)
  BY <1>3 DEF Kept
<1>16. QueueInv'
  <2>1. queued \in [Ranks -> [Ranks -> Nat]] /\ blind \in [Ranks -> SUBSET Ranks]
    BY <1>1 DEF QueueInv
  <2>2. CASE Miss(s, r)
    <3>1. PICK q \in posted[r] : \E n \in 1..Len(chan[q][r]) :
            /\ queued' = [queued EXCEPT ![r][s] = k, ![r][q] = n]
            /\ blind' = [blind EXCEPT ![r] = {q}]
      BY <1>15, <2>2 DEF Miss
    <3>2. q \in Ranks
      BY <1>1, <3>1
    <3>3. PICK n : /\ n \in 1..Len(chan[q][r])
                   /\ queued' = [queued EXCEPT ![r][s] = k, ![r][q] = n]
      BY <3>1
    <3>4. n \in Nat
      BY <3>3
    <3>5. queued' \in [Ranks -> [Ranks -> Nat]]
      BY <2>1, <3>2, <3>3, <3>4
    <3>6. blind' \in [Ranks -> SUBSET Ranks]
      BY <2>1, <3>1, <3>2
    <3> QED
      BY <3>5, <3>6 DEF QueueInv
  <2>3. CASE ~ Miss(s, r)
    <3>1. /\ queued' = [queued EXCEPT ![r][s] = k]
          /\ blind' = [blind EXCEPT ![r] = @ \ {s}]
      BY <1>15, <2>3 DEF Deliver
    <3> QED
      BY <2>1, <3>1 DEF QueueInv
  <2> QED
    BY <2>2, <2>3
<1>17. QED
  BY <1>14, <1>16

LEMMA StepType ==
  ASSUME TypeInv, NEW r \in Ranks, Step(r)
  PROVE  TypeInv'
<1>1. SettingInv /\ StepsInv /\ MessagesInv /\ QueueInv /\ posted \in [Ranks -> SUBSET Ranks]
  BY DEF TypeInv
<1>2. PICK do : /\ AtStep(r, do) /\ Done(r) /\ UNCHANGED <<setting, calls, queue>>
                /\ posted' = posted \/ posted' = [posted EXCEPT ![r] = @ \cup {Peer(r)}]
  BY DEF Step, PostReceive, StartSend, FinishSend, AwaitReceive
<1>3. PICK p : p = Peer(r)
  OBVIOUS
<1>4. /\ SettingInv' /\ Ranks' = Ranks /\ StepsInv'
      /\ calls[r] \in 1..Len(program) /\ p \in Ranks
  BY <1>1, <1>2, <1>3, DoneSteps
<1>5. posted' \in [Ranks' -> SUBSET Ranks']
  BY <1>1, <1>2, <1>3, <1>4
<1>6. QueueInv'
  BY <1>1, <1>2, <1>4, SameQueue
<1>7. MessagesInv'
  <2>1. CASE PostReceive(r) \/ FinishSend(r)
    <3>1. chan' = chan /\ inbox' = inbox /\ program' = program
      BY <2>1 DEF PostReceive, FinishSend, setting
    <3> QED
      BY <1>1, <1>4, <3>1, SameMessages
  <2>2. CASE StartSend(r)
    BY <1>3, <1>4, <2>2, StartMessages
  <2>3. CASE AwaitReceive(r)
    BY <1>3, <1>4, <2>3, AwaitMessages
  <2> QED
    BY <2>1, <2>2, <2>3 DEF Step
<1>8. QED
  BY <1>4, <1>5, <1>6, <1>7 DEF TypeInv

LEMMA TypeInductive == Spec => []TypeInv
<1>1. Init => TypeInv
  BY InitType
<1>2. TypeInv /\ [Next]_vars => TypeInv'
  <2> SUFFICES ASSUME TypeInv, [Next]_vars PROVE TypeInv'
    OBVIOUS
  <2>1. SettingInv /\ StepsInv /\ MessagesInv /\ QueueInv /\ posted \in [Ranks -> SUBSET Ranks]
    BY DEF TypeInv
  <2>2. ASSUME NEW r \in Ranks, Enter(r) PROVE TypeInv'
    <3>1. SettingInv' /\ Ranks' = Ranks /\ StepsInv'
      BY <2>1, <2>2, EnterSteps
    <3>2. /\ program' = program /\ chan' = chan /\ inbox' = inbox /\ posted' = posted
          /\ UNCHANGED queue
      BY <2>2 DEF Enter, setting
    <3>3. MessagesInv' /\ QueueInv'
      BY <2>1, <3>1, <3>2, SameMessages, SameQueue
    <3> QED
      BY <2>1, <3>1, <3>2, <3>3 DEF TypeInv
  <2>3. ASSUME NEW r \in Ranks, Step(r) PROVE TypeInv'
    BY <2>3, StepType
  <2>4. ASSUME UNCHANGED <<setting, calls, steps>>
        PROVE  SettingInv' /\ StepsInv' /\ Ranks' = Ranks
    <3>1. comm' = comm /\ program' = program /\ calls' = calls /\ steps' = steps
      BY <2>4 DEF setting
    <3>2. size' = size /\ Ranks' = Ranks
      BY <3>1 DEF size, Ranks
    <3>3. SettingInv'
      BY <2>1, <3>1, <3>2 DEF SettingInv, Calls
    <3>4. StepsInv'
      BY <2>1, <3>1, <3>2 DEF StepsInv, StepsOf, Todo, Sources, Targets
    <3> QED
      BY <3>2, <3>3, <3>4
  <2>5. ASSUME NEW r \in Ranks, NEW s \in Ranks, Deliver(s, r) PROVE TypeInv'
    <3>1. UNCHANGED <<setting, calls, steps>> /\ posted' = [posted EXCEPT ![r] = @ \ {s}]
      BY <2>5 DEF Deliver
    <3>2. SettingInv' /\ StepsInv' /\ Ranks' = Ranks
      BY <2>4, <3>1
    <3>3. posted' \in [Ranks' -> SUBSET Ranks']
      BY <2>1, <3>1, <3>2
    <3>4. MessagesInv' /\ QueueInv'
      BY <2>5, <3>2, DeliverMessages
    <3> QED
      BY <3>2, <3>3, <3>4 DEF TypeInv
  <2>6. ASSUME UNCHANGED vars PROVE TypeInv'
    <3>1. /\ UNCHANGED <<setting, calls, steps>> /\ UNCHANGED queue
          /\ program' = program /\ chan' = chan /\ inbox' = inbox /\ posted' = posted
      BY <2>6 DEF vars, setting
    <3>2. SettingInv' /\ StepsInv' /\ Ranks' = Ranks
      BY <2>4, <3>1
    <3>3. MessagesInv' /\ QueueInv'
      BY <2>1, <3>1, <3>2, SameMessages, SameQueue
    <3> QED
      BY <2>1, <3>1, <3>2, <3>3 DEF TypeInv
  <2> QED
    BY <2>2, <2>3, <2>5, <2>6 DEF Next
<1>3. QED
  BY <1>1, <1>2, PTL DEF Spec

(***************************************************************************)
(* The types: above all, no rank ever sends to or receives from itself or  *)
(* a rank that does not exist, whatever the size, the root and the radix,  *)
(* and whether or not messages are missed.                                 *)
(***************************************************************************)
LEMMA TypesAre ==
  ASSUME TypeInv
  PROVE  TypeOK
<1>1. SettingInv /\ StepsInv /\ MessagesInv /\ QueueInv
  BY DEF TypeInv
<1>2. comm \in Comms
  BY <1>1 DEF SettingInv
<1>3. calls \in [Ranks -> 0..Len(program)] /\ Len(program) \in Nat
  BY <1>1, SettingIs DEF StepsInv
<1>4. ASSUME NEW r \in Ranks, NEW i \in 1..Len(steps[r])
      PROVE  steps[r][i].peer \in Ranks \ {r}
  <2>1. PICK s, a, p : s = steps[r] /\ a = s[i].do /\ p = s[i].peer
    OBVIOUS
  <2>2. s \in Seq(StepSet(size))
    BY <1>1, <2>1 DEF StepsInv, StepsOf
  <2>3. Has(s, a, p)
    BY <2>1 DEF Has
  <2>4. a = "post" \/ a = "await" \/ a = "start" \/ a = "finish"
    BY <2>2, <2>3, FourKinds
  <2>5. calls[r] \in 1..Len(program)
    <3>1. calls[r] # 0
      BY <1>1, <2>1, <2>3, Nothing0 DEF StepsInv, StepsOf
    <3> QED
      BY <1>3, <3>1
  <2>6. p \in Sources(r, calls[r]) \/ p \in Targets(r, calls[r])
    BY <1>1, <2>1, <2>3, <2>4 DEF StepsInv, StepsOf, Todo
  <2>7. /\ Sources(r, calls[r]) \subseteq (0..(size - 1)) \ {r}
        /\ Targets(r, calls[r]) \subseteq (0..(size - 1)) \ {r}
    BY <1>1, <2>5, CallExchange DEF Exchange
  <2> QED
    BY <2>1, <2>6, <2>7 DEF Ranks
<1>5. posted \in [Ranks -> SUBSET Ranks]
  BY DEF TypeInv
<1>6. DOMAIN chan = Ranks /\ \A r \in Ranks : DOMAIN chan[r] = Ranks
  <2>1. chan = [s \in Ranks |-> [r \in Ranks |-> chan[s][r]]]
    BY <1>1 DEF MessagesInv
  <2> QED
    BY <2>1
<1>7. \A r, s \in Ranks : inbox[r][s].nth \in 0..Len(program)
  BY <1>1 DEF MessagesInv
<1>8. QED
  BY <1>1, <1>2, <1>3, <1>4, <1>5, <1>6, <1>7 DEF TypeOK, QueueInv

(***************************************************************************)
(* Every variable keeps its type, whatever is missed: no step of a schedule *)
(* names the rank itself or one outside the communicator.                  *)
(***************************************************************************)
THEOREM CollectivesTypes == Spec => []TypeOK
<1>1. TypeInv => TypeOK
  BY TypesAre
<1>2. QED
  BY <1>1, TypeInductive, PTL

(***************************************************************************)
(* Who has posted a receive is in a call in which the source sends, and    *)
(* the oldest message of the source is that of this call.                  *)
(***************************************************************************)
LEMMA PostedIs ==
  ASSUME IndInv, NEW r \in Ranks, NEW s \in Ranks, s \in posted[r]
  PROVE  /\ calls[r] \in 1..Len(program)
         /\ s \in Sources(r, calls[r])
         /\ Todo(r, "await", s) /\ ~ Todo(r, "post", s)
         /\ inbox[r][s] = NoMessage
         /\ ~ Taken(s, r, calls[r])
<1>1. Receiving(r, s) /\ StepsOf(r)
  BY DEF IndInv, ReceiveInv, StepsInv
<1>2. Todo(r, "await", s) /\ ~ Todo(r, "post", s)
  BY <1>1 DEF Receiving
<1>3. inbox[r][s] = NoMessage
  BY <1>1, <1>2 DEF Receiving
<1>4. s \in Sources(r, calls[r])
  BY <1>1, <1>2 DEF StepsOf
<1>5. calls[r] # 0
  BY <1>1, <1>2, NothingToDo DEF StepsOf
<1>6. calls[r] \in 0..Len(program) /\ Len(program) \in Nat
  BY SettingIs DEF IndInv, StepsInv
<1>7. calls[r] \in 1..Len(program)
  BY <1>5, <1>6
<1>8. ~ Taken(s, r, calls[r])
  BY <1>7 DEF Taken
<1>9. QED
  BY <1>2, <1>3, <1>4, <1>7, <1>8

LEMMA HeadIsCurrent ==
  ASSUME IndInv, NEW r \in Ranks, NEW s \in Ranks, s \in posted[r], chan[s][r] # << >>
  PROVE  Head(chan[s][r]).nth = calls[r]
<1>1. SettingInv /\ StepsInv /\ ChannelInv
  BY DEF IndInv
<1>2. PICK m : m = chan[s][r]
  OBVIOUS
<1>3. PICK c \in 1..Len(program) : c = calls[r]
  BY PostedIs
<1>4. s \in Sources(r, c) /\ ~ Taken(s, r, c)
  BY <1>3, PostedIs
<1>5. /\ Ordered(m)
      /\ \A d \in 1..Len(program) : InChannel(s, r, d) <=> Started(s, r, d) /\ ~ Taken(s, r, d)
  BY <1>1, <1>2 DEF ChannelInv
<1>6. 1 \in 1..Len(m) /\ Head(m) = m[1]
  BY <1>2, <1>5, OrderedTail
<1>7. PICK h \in 1..Len(program) : h = Head(m).nth
  BY <1>5, <1>6 DEF Ordered
<1>8. InChannel(s, r, h)
  BY <1>2, <1>6, <1>7 DEF InChannel
<1>9. Started(s, r, h) /\ ~ Taken(s, r, h)
  BY <1>5, <1>8
<1>10. s \in Sources(r, h)
  BY <1>1, <1>9, CallPaired DEF Started
<1>11. calls[s] \in Nat /\ h <= calls[s]
  <2>1. calls[s] \in 0..Len(program) /\ Len(program) \in Nat
    BY <1>1, SettingIs DEF StepsInv
  <2> QED
    BY <1>9, <2>1 DEF Started
<1>12. ~ (h < c)
  BY <1>3, <1>9, <1>10 DEF Taken
<1>13. ASSUME c < h PROVE FALSE
  <2>1. c < calls[s]
    BY <1>11, <1>13
  <2>2. r \in Targets(s, c)
    BY <1>1, <1>4, CallPaired
  <2>3. Started(s, r, c)
    BY <2>1, <2>2 DEF Started
  <2>4. InChannel(s, r, c)
    BY <1>4, <1>5, <2>3
  <2>5. PICK i \in 1..Len(m) : m[i].nth = c
    BY <1>2, <2>4 DEF InChannel
  <2>6. i = 1 \/ 1 < i
    BY <1>5 DEF Ordered
  <2>7. m[1].nth <= m[i].nth
    BY <1>5, <1>6, <1>7, <2>6 DEF Ordered
  <2> QED
    BY <1>6, <1>7, <1>13, <2>5, <2>7
<1>14. QED
  BY <1>2, <1>3, <1>7, <1>12, <1>13

LEMMA ChannelSame ==
  ASSUME ChannelInv, Ranks' = Ranks, Len(program)' = Len(program), chan' = chan,
         \A s, r \in Ranks : \A c \in 1..Len(program) :
           /\ Started(s, r, c)' <=> Started(s, r, c)
           /\ Taken(s, r, c)' <=> Taken(s, r, c)
  PROVE  ChannelInv'
<1>1. chan' = [s \in Ranks' |-> [r \in Ranks' |-> chan'[s][r]]]
  BY DEF ChannelInv
<1>2. ASSUME NEW s \in Ranks, NEW r \in Ranks
      PROVE  /\ Ordered(chan[s][r])'
             /\ \A c \in 1..Len(program) :
                  /\ InChannel(s, r, c)' <=> Started(s, r, c)' /\ ~ Taken(s, r, c)'
                  /\ Taken(s, r, c)' => Started(s, r, c)'
  <2>1. /\ Ordered(chan[s][r])
        /\ \A c \in 1..Len(program) :
             /\ InChannel(s, r, c) <=> Started(s, r, c) /\ ~ Taken(s, r, c)
             /\ Taken(s, r, c) => Started(s, r, c)
    BY DEF ChannelInv
  <2>2. Ordered(chan[s][r])'
    BY <2>1 DEF Ordered
  <2>3. \A c \in 1..Len(program) : InChannel(s, r, c)' <=> InChannel(s, r, c)
    BY DEF InChannel
  <2> QED
    BY <2>1, <2>2, <2>3
<1>3. QED
  BY <1>1, <1>2 DEF ChannelInv

(***************************************************************************)
(* Enter: all the steps of the call are to be done, so nothing of it has   *)
(* been sent or received.                                                  *)
(***************************************************************************)
LEMMA EnterInd ==
  ASSUME IndInv, NEW r \in Ranks, Enter(r)
  PROVE  IndInv'
<1>1. SettingInv /\ StepsInv /\ ReceiveInv /\ ChannelInv /\ LargeInv
  BY DEF IndInv
<1>2. /\ SettingInv' /\ Ranks' = Ranks /\ Len(program)' = Len(program)
      /\ StepsInv'
      /\ \A a, p : ~ Todo(r, a, p)
      /\ calls'[r] = calls[r] + 1 /\ calls'[r] \in 1..Len(program)
      /\ \A p : /\ Todo(r, "post", p)' <=> p \in Sources(r, calls'[r])
                /\ Todo(r, "await", p)' <=> p \in Sources(r, calls'[r])
                /\ Todo(r, "start", p)' <=> p \in Targets(r, calls'[r])
                /\ Todo(r, "finish", p)' <=> p \in Targets(r, calls'[r])
      /\ \A q \in Ranks \ {r} : /\ calls'[q] = calls[q]
                                /\ \A a, p : Todo(q, a, p)' <=> Todo(q, a, p)
  BY <1>1, EnterSteps
<1>3. /\ chan' = chan /\ posted' = posted /\ inbox' = inbox
      /\ comm' = comm /\ program' = program
  BY DEF Enter, setting
<1>4. \A q, d : Sources(q, d)' = Sources(q, d) /\ Targets(q, d)' = Targets(q, d)
  BY <1>3 DEF Sources, Targets, size
<1>5. \A s \in Ranks : s \notin posted[r] /\ inbox[r][s] = NoMessage
  BY <1>1, <1>2 DEF ReceiveInv, Receiving
<1>6. calls \in [Ranks -> 0..Len(program)] /\ Len(program) \in Nat
  BY <1>1, SettingIs DEF StepsInv
<1>7. ReceiveInv'
  <2>1. posted' \in [Ranks' -> SUBSET Ranks']
    BY <1>1, <1>2, <1>3 DEF ReceiveInv
  <2>2. inbox' = [q \in Ranks' |-> [s \in Ranks' |-> inbox'[q][s]]]
    BY <1>1, <1>2, <1>3 DEF ReceiveInv
  <2>3. ASSUME NEW q \in Ranks, NEW s \in Ranks
        PROVE  Receiving(q, s)'
    <3>1. CASE q = r
      BY <1>2, <1>3, <1>5, <3>1 DEF Receiving, NoMessage
    <3>2. CASE q # r
      <4>1. Receiving(q, s)
        BY <1>1 DEF ReceiveInv
      <4>2. q \in Ranks \ {r}
        BY <3>2
      <4>3. calls'[q] = calls[q] /\ \A a, p : Todo(q, a, p)' <=> Todo(q, a, p)
        BY <1>2, <4>2
      <4> QED
        BY <1>3, <4>1, <4>3 DEF Receiving, NoMessage
    <3> QED
      BY <3>1, <3>2
  <2> QED
    BY <1>2, <2>1, <2>2, <2>3 DEF ReceiveInv
<1>8. ChannelInv'
  <2>1. ASSUME NEW s \in Ranks, NEW q \in Ranks, NEW c \in 1..Len(program)
        PROVE  Started(s, q, c)' <=> Started(s, q, c)
    <3>1. CASE s = r
      <4>1. (c < calls[r] + 1) <=> (c < calls[r] \/ c = calls[r])
        BY <1>6
      <4> QED
        BY <1>2, <1>4, <3>1, <4>1 DEF Started
    <3>2. CASE s # r
      <4>1. s \in Ranks \ {r}
        BY <3>2
      <4>2. calls'[s] = calls[s] /\ \A a, p : Todo(s, a, p)' <=> Todo(s, a, p)
        BY <1>2, <4>1
      <4> QED
        BY <1>4, <4>2 DEF Started
    <3> QED
      BY <3>1, <3>2
  <2>2. ASSUME NEW s \in Ranks, NEW q \in Ranks, NEW c \in 1..Len(program)
        PROVE  Taken(s, q, c)' <=> Taken(s, q, c)
    <3>1. CASE q = r
      <4>1. (c < calls[r] + 1) <=> (c < calls[r] \/ c = calls[r])
        BY <1>6
      <4> QED
        BY <1>2, <1>4, <1>5, <3>1, <4>1 DEF Taken
    <3>2. CASE q # r
      <4>1. q \in Ranks \ {r}
        BY <3>2
      <4>2. calls'[q] = calls[q] /\ \A a, p : Todo(q, a, p)' <=> Todo(q, a, p)
        BY <1>2, <4>1
      <4> QED
        BY <1>3, <1>4, <4>2 DEF Taken
    <3> QED
      BY <3>1, <3>2
  <2> QED
    BY <1>1, <1>2, <1>3, <2>1, <2>2, ChannelSame
<1>9. LargeInv'
  <2> SUFFICES ASSUME NEW q \in Ranks, NEW s \in Ranks,
                      calls'[q] > 0, IsLarge(Current(q))',
                      ~ Todo(q, "start", s)', ~ Todo(q, "finish", s)'
               PROVE  ~ InChannel(q, s, calls[q])'
    BY <1>2 DEF LargeInv
  <2>1. CASE q = r
    <3>1. PICK c \in 1..Len(program) : c = calls'[r]
      BY <1>2
    <3>2. s \notin Targets(r, c)
      BY <1>2, <2>1, <3>1
    <3>3. ~ Started(r, s, c)'
      BY <1>4, <3>2 DEF Started
    <3>4. ~ InChannel(r, s, c)'
      BY <1>2, <1>8, <3>3 DEF ChannelInv
    <3> QED
      BY <2>1, <3>1, <3>4 DEF InChannel
  <2>2. CASE q # r
    <3>1. q \in Ranks \ {r}
      BY <2>2
    <3>2. calls'[q] = calls[q] /\ \A a, p : Todo(q, a, p)' <=> Todo(q, a, p)
      BY <1>2, <3>1
    <3>3. IsLarge(Current(q))
      BY <1>3, <3>2 DEF IsLarge, Current
    <3>4. ~ InChannel(q, s, calls[q])
      BY <1>1, <3>2, <3>3 DEF LargeInv
    <3> QED
      BY <1>3, <3>2, <3>4 DEF InChannel
  <2> QED
    BY <2>1, <2>2
<1>10. QED
  BY <1>2, <1>7, <1>8, <1>9 DEF IndInv

(***************************************************************************)
(* Of the steps that leave the channels alone only those that post or      *)
(* await a receive matter to the invariant.                                *)
(***************************************************************************)
LEMMA QuietStep ==
  ASSUME IndInv, NEW r \in Ranks, NEW do \in {"post", "finish", "await"},
         AtStep(r, do), Done(r), UNCHANGED <<setting, calls, chan>>, ReceiveInv',
         \A q, s \in Ranks : ~ Todo(q, "post", s)' /\ s \notin posted'[q]
                               <=> ~ Todo(q, "post", s) /\ s \notin posted[q],
         do = "finish" /\ IsLarge(Current(r)) => ~ InChannel(r, Peer(r), calls[r])
  PROVE  IndInv'
<1>1. SettingInv /\ StepsInv /\ ReceiveInv /\ ChannelInv /\ LargeInv
  BY DEF IndInv
<1>2. PICK p : p = Peer(r)
  OBVIOUS
<1>3. /\ SettingInv' /\ Ranks' = Ranks /\ Len(program)' = Len(program)
      /\ StepsInv'
      /\ calls[r] \in 1..Len(program)
      /\ p \in Ranks
      /\ Todo(r, do, p)
      /\ \A a, x : Todo(r, a, x)' <=> Todo(r, a, x) /\ ~ (a = do /\ x = p)
      /\ do = "post" => Todo(r, "await", p)'
      /\ do = "start" => Todo(r, "finish", p)'
      /\ \A q \in Ranks \ {r} : \A a, x : Todo(q, a, x)' <=> Todo(q, a, x)
  BY <1>1, <1>2, DoneSteps
<1>4. chan' = chan /\ calls' = calls /\ comm' = comm /\ program' = program
  BY DEF setting
<1>5. \A q, d : Sources(q, d)' = Sources(q, d) /\ Targets(q, d)' = Targets(q, d)
  BY <1>4 DEF Sources, Targets, size
<1>6. \A q \in Ranks : \A x : Todo(q, "start", x)' <=> Todo(q, "start", x)
  <2>1. "start" # do
    OBVIOUS
  <2> QED
    BY <1>3, <2>1
<1>7. ChannelInv'
  <2>1. ASSUME NEW s \in Ranks, NEW q \in Ranks, NEW c \in 1..Len(program)
        PROVE  /\ Started(s, q, c)' <=> Started(s, q, c)
               /\ Taken(s, q, c)' <=> Taken(s, q, c)
    <3>1. Started(s, q, c)' <=> Started(s, q, c)
      BY <1>4, <1>5, <1>6 DEF Started
    <3>2. Taken(s, q, c)' <=> Taken(s, q, c)
      BY <1>4, <1>5 DEF Taken
    <3> QED
      BY <3>1, <3>2
  <2> QED
    BY <1>1, <1>3, <1>4, <2>1, ChannelSame
<1>8. LargeInv'
  <2> SUFFICES ASSUME NEW q \in Ranks, NEW s \in Ranks,
                      calls[q] > 0, IsLarge(Current(q)),
                      ~ Todo(q, "start", s)', ~ Todo(q, "finish", s)'
               PROVE  ~ InChannel(q, s, calls[q])
    BY <1>3, <1>4 DEF LargeInv, IsLarge, Current, InChannel
  <2>1. ~ Todo(q, "start", s)
    BY <1>6
  <2>2. CASE ~ Todo(q, "finish", s)
    BY <1>1, <2>1, <2>2 DEF LargeInv
  <2>3. CASE Todo(q, "finish", s)
    <3>1. q = r /\ do = "finish" /\ s = p
      BY <1>3, <2>3
    <3> QED
      BY <1>2, <3>1
  <2> QED
    BY <2>2, <2>3
<1>9. QED
  BY <1>3, <1>7, <1>8 DEF IndInv

LEMMA PostInd ==
  ASSUME IndInv, NEW r \in Ranks, PostReceive(r)
  PROVE  IndInv'
<1>1. SettingInv /\ StepsInv /\ ReceiveInv
  BY DEF IndInv
<1>2. PICK p : p = Peer(r)
  OBVIOUS
<1>3. /\ AtStep(r, "post") /\ Done(r) /\ UNCHANGED <<setting, calls, chan>>
      /\ posted' = [posted EXCEPT ![r] = @ \cup {p}]
      /\ inbox' = inbox /\ calls' = calls
  BY <1>2 DEF PostReceive
<1>4. /\ Ranks' = Ranks
      /\ p \in Ranks
      /\ Todo(r, "post", p)
      /\ \A a, x : Todo(r, a, x)' <=> Todo(r, a, x) /\ ~ (a = "post" /\ x = p)
      /\ Todo(r, "await", p)'
      /\ \A q \in Ranks \ {r} : \A a, x : Todo(q, a, x)' <=> Todo(q, a, x)
  BY <1>1, <1>2, <1>3, DoneSteps
<1>5. \A x : Todo(r, "await", x)' <=> Todo(r, "await", x)
  <2>1. "await" # "post"
    OBVIOUS
  <2> QED
    BY <1>4, <2>1
<1>6. posted \in [Ranks -> SUBSET Ranks]
  BY <1>1 DEF ReceiveInv
<1>7. /\ posted' \in [Ranks -> SUBSET Ranks]
      /\ \A x : x \in posted'[r] <=> x \in posted[r] \/ x = p
      /\ \A q \in Ranks \ {r} : posted'[q] = posted[q]
  BY <1>3, <1>4, <1>6
<1>8. inbox' = [q \in Ranks' |-> [s \in Ranks' |-> inbox'[q][s]]]
  BY <1>1, <1>3, <1>4 DEF ReceiveInv
<1>9. ASSUME NEW q \in Ranks, NEW s \in Ranks
      PROVE  Receiving(q, s)'
  <2>1. Receiving(q, s)
    BY <1>1 DEF ReceiveInv
  <2>2. CASE q = r /\ s = p
    BY <1>3, <1>4, <1>7, <2>1, <2>2 DEF Receiving, NoMessage
  <2>3. CASE q = r /\ s # p
    BY <1>3, <1>4, <1>5, <1>7, <2>1, <2>3 DEF Receiving, NoMessage
  <2>4. CASE q # r
    BY <1>3, <1>4, <1>7, <2>1, <2>4 DEF Receiving, NoMessage
  <2> QED
    BY <2>2, <2>3, <2>4
<1>10. ReceiveInv'
  BY <1>4, <1>7, <1>8, <1>9 DEF ReceiveInv
<1>11. \A q, s \in Ranks : ~ Todo(q, "post", s)' /\ s \notin posted'[q]
                             <=> ~ Todo(q, "post", s) /\ s \notin posted[q]
  BY <1>4, <1>7
<1>12. QED
  BY <1>3, <1>10, <1>11, QuietStep

LEMMA FinishInd ==
  ASSUME IndInv, NEW r \in Ranks, FinishSend(r)
  PROVE  IndInv'
<1>1. SettingInv /\ StepsInv /\ ReceiveInv
  BY DEF IndInv
<1>2. PICK p : p = Peer(r)
  OBVIOUS
<1>3. /\ AtStep(r, "finish") /\ Done(r) /\ UNCHANGED <<setting, calls, chan>>
      /\ IsLarge(Current(r)) => ~ InChannel(r, Peer(r), calls[r])
      /\ inbox' = inbox /\ calls' = calls /\ posted' = posted
  BY DEF FinishSend, InChannel
<1>4. /\ Ranks' = Ranks
      /\ \A a, x : Todo(r, a, x)' <=> Todo(r, a, x) /\ ~ (a = "finish" /\ x = p)
      /\ \A q \in Ranks \ {r} : \A a, x : Todo(q, a, x)' <=> Todo(q, a, x)
  BY <1>1, <1>2, <1>3, DoneSteps
<1>5. \A q \in Ranks : \A x : /\ Todo(q, "await", x)' <=> Todo(q, "await", x)
                              /\ Todo(q, "post", x)' <=> Todo(q, "post", x)
  <2>1. "await" # "finish" /\ "post" # "finish"
    OBVIOUS
  <2> QED
    BY <1>4, <2>1
<1>6. ReceiveInv'
  <2>1. posted' \in [Ranks' -> SUBSET Ranks']
    BY <1>1, <1>3, <1>4 DEF ReceiveInv
  <2>2. inbox' = [q \in Ranks' |-> [s \in Ranks' |-> inbox'[q][s]]]
    BY <1>1, <1>3, <1>4 DEF ReceiveInv
  <2>3. \A q, s \in Ranks : Receiving(q, s)'
    BY <1>1, <1>3, <1>5 DEF ReceiveInv, Receiving, NoMessage
  <2> QED
    BY <1>4, <2>1, <2>2, <2>3 DEF ReceiveInv
<1>7. QED
  BY <1>3, <1>5, <1>6, QuietStep

LEMMA AwaitInd ==
  ASSUME IndInv, NEW r \in Ranks, AwaitReceive(r)
  PROVE  IndInv'
<1>1. SettingInv /\ StepsInv /\ ReceiveInv
  BY DEF IndInv
<1>2. PICK p : p = Peer(r)
  OBVIOUS
<1>3. /\ AtStep(r, "await") /\ Done(r) /\ UNCHANGED <<setting, calls, chan>>
      /\ inbox[r][p] # NoMessage
      /\ inbox' = [inbox EXCEPT ![r][p] = NoMessage]
      /\ posted' = posted /\ calls' = calls
  BY <1>2 DEF AwaitReceive
<1>4. /\ Ranks' = Ranks
      /\ p \in Ranks
      /\ Todo(r, "await", p)
      /\ \A a, x : Todo(r, a, x)' <=> Todo(r, a, x) /\ ~ (a = "await" /\ x = p)
      /\ \A q \in Ranks \ {r} : \A a, x : Todo(q, a, x)' <=> Todo(q, a, x)
  BY <1>1, <1>2, <1>3, DoneSteps
<1>5. \A q \in Ranks : \A x : Todo(q, "post", x)' <=> Todo(q, "post", x)
  <2>1. "post" # "await"
    OBVIOUS
  <2> QED
    BY <1>4, <2>1
<1>6. inbox = [q \in Ranks |-> [s \in Ranks |-> inbox[q][s]]]
  BY <1>1 DEF ReceiveInv
<1>7. /\ inbox'[r][p] = NoMessage
      /\ \A q, s \in Ranks : ~ (q = r /\ s = p) => inbox'[q][s] = inbox[q][s]
  BY <1>3, <1>4, <1>6
<1>8. inbox' = [q \in Ranks |-> [s \in Ranks |-> inbox'[q][s]]]
  BY <1>3, <1>4, <1>6
<1>9. p \notin posted[r] /\ ~ Todo(r, "post", p)
  <2>1. Receiving(r, p)
    BY <1>1, <1>4 DEF ReceiveInv
  <2> QED
    BY <1>3, <1>4, <2>1 DEF Receiving
<1>10. ASSUME NEW q \in Ranks, NEW s \in Ranks
       PROVE  Receiving(q, s)'
  <2>1. Receiving(q, s)
    BY <1>1 DEF ReceiveInv
  <2>2. CASE q = r /\ s = p
    BY <1>3, <1>4, <1>5, <1>7, <1>9, <2>2 DEF Receiving, NoMessage
  <2>3. CASE ~ (q = r /\ s = p)
    BY <1>3, <1>4, <1>5, <1>7, <2>1, <2>3 DEF Receiving, NoMessage
  <2> QED
    BY <2>2, <2>3
<1>11. ReceiveInv'
  <2>1. posted' \in [Ranks' -> SUBSET Ranks']
    BY <1>1, <1>3, <1>4 DEF ReceiveInv
  <2> QED
    BY <1>4, <1>8, <1>10, <2>1 DEF ReceiveInv
<1>12. QED
  BY <1>3, <1>5, <1>11, QuietStep

(***************************************************************************)
(* StartSend: the message of the sender's current call goes behind those   *)
(* of its earlier calls.                                                   *)
(***************************************************************************)
LEMMA StartInd ==
  ASSUME IndInv, NEW r \in Ranks, StartSend(r)
  PROVE  IndInv'
<1>1. SettingInv /\ StepsInv /\ ReceiveInv /\ ChannelInv /\ LargeInv
  BY DEF IndInv
<1>2. PICK p : p = Peer(r)
  OBVIOUS
<1>25. PICK x : x = [nth |-> calls[r], data |-> Sent(r, p, Head(steps[r]).of)]
  OBVIOUS
<1>3. /\ AtStep(r, "start") /\ Done(r) /\ UNCHANGED <<setting, calls>>
      /\ calls' = calls /\ comm' = comm /\ program' = program
      /\ posted' = posted /\ inbox' = inbox
      /\ chan' = [chan EXCEPT ![r][p] = Append(@, x)]
  BY <1>2, <1>25 DEF StartSend, setting
<1>4. /\ SettingInv' /\ Ranks' = Ranks /\ Len(program)' = Len(program)
      /\ StepsInv'
      /\ calls[r] \in 1..Len(program)
      /\ p \in Ranks
      /\ Todo(r, "start", p)
      /\ \A a, y : Todo(r, a, y)' <=> Todo(r, a, y) /\ ~ (a = "start" /\ y = p)
      /\ Todo(r, "finish", p)'
      /\ \A q \in Ranks \ {r} : \A a, y : Todo(q, a, y)' <=> Todo(q, a, y)
  BY <1>1, <1>2, <1>3, DoneSteps
<1>5. \A q \in Ranks : \A y : /\ Todo(q, "await", y)' <=> Todo(q, "await", y)
                              /\ Todo(q, "post", y)' <=> Todo(q, "post", y)
                              /\ Todo(q, "finish", y)' <=> Todo(q, "finish", y)
  <2>1. "await" # "start" /\ "post" # "start" /\ "finish" # "start"
    OBVIOUS
  <2> QED
    BY <1>4, <2>1
<1>6. \A q, d : Sources(q, d)' = Sources(q, d) /\ Targets(q, d)' = Targets(q, d)
  BY <1>3 DEF Sources, Targets, size
<1>7. PICK c \in 1..Len(program) : c = calls[r]
  BY <1>4
<1>8. PICK m, t : m = chan[r][p] /\ t = Append(m, x)
  OBVIOUS
<1>9. chan = [s \in Ranks |-> [q \in Ranks |-> chan[s][q]]]
  BY <1>1 DEF ChannelInv
<1>10. /\ chan'[r][p] = t
       /\ \A s, q \in Ranks : ~ (s = r /\ q = p) => chan'[s][q] = chan[s][q]
       /\ chan' = [s \in Ranks |-> [q \in Ranks |-> chan'[s][q]]]
  BY <1>3, <1>4, <1>8, <1>9
<1>11. /\ Ordered(m)
       /\ \A d \in 1..Len(program) :
            /\ InChannel(r, p, d) <=> Started(r, p, d) /\ ~ Taken(r, p, d)
            /\ Taken(r, p, d) => Started(r, p, d)
  BY <1>1, <1>4, <1>8 DEF ChannelInv
<1>12. ~ Started(r, p, c) /\ p \in Targets(r, c)
  <2>1. ~ (c < calls[r])
    BY <1>7
  <2>2. p \in Targets(r, c)
    BY <1>1, <1>4, <1>7 DEF StepsInv, StepsOf
  <2> QED
    BY <1>4, <1>7, <2>1, <2>2 DEF Started
<1>13. \A i \in 1..Len(m) : m[i].nth < c
  <2> SUFFICES ASSUME NEW i \in 1..Len(m) PROVE m[i].nth < c
    OBVIOUS
  <2>1. PICK d \in 1..Len(program) : d = m[i].nth
    BY <1>11 DEF Ordered
  <2>2. InChannel(r, p, d)
    BY <1>8, <2>1 DEF InChannel
  <2>3. Started(r, p, d)
    BY <1>11, <2>2
  <2>4. d < calls[r]
    BY <1>7, <1>12, <2>3 DEF Started
  <2> QED
    BY <1>7, <2>1, <2>4
<1>14. x.nth = c
  BY <1>25, <1>7
<1>15. /\ Ordered(t)
       /\ Len(m) + 1 \in 1..Len(t) /\ t[Len(m) + 1] = x
       /\ \A i \in 1..Len(m) : i \in 1..Len(t) /\ t[i] = m[i]
       /\ \A i \in 1..Len(t) : i \in 1..Len(m) \/ i = Len(m) + 1
  <2>1. Ordered(m) /\ x.nth \in 1..Len(program) /\ t = Append(m, x)
    BY <1>8, <1>11, <1>14
  <2>2. \A i \in 1..Len(m) : m[i].nth < x.nth
    BY <1>13, <1>14
  <2>3. Ordered(t)
    BY <2>1, <2>2, OrderedAppend
  <2>4. Len(m) + 1 \in 1..Len(t) /\ t[Len(m) + 1] = x
    BY <2>1, <2>2, OrderedAppend
  <2>5. \A i \in 1..Len(m) : i \in 1..Len(t) /\ t[i] = m[i]
    BY <2>1, <2>2, OrderedAppend
  <2>6. \A i \in 1..Len(t) : i \in 1..Len(m) \/ i = Len(m) + 1
    BY <2>1, <2>2, OrderedAppend
  <2> QED
    BY <2>3, <2>4, <2>5, <2>6
<1>16. \A d \in 1..Len(program) : InChannel(r, p, d)' <=> InChannel(r, p, d) \/ d = c
  <2> SUFFICES ASSUME NEW d \in 1..Len(program)
               PROVE  (\E i \in 1..Len(t) : t[i].nth = d)
                        <=> (\E i \in 1..Len(m) : m[i].nth = d) \/ d = c
    BY <1>8, <1>10, SMTT(30) DEF InChannel
  <2> QED
    BY <1>14, <1>15
<1>17. \A s, q \in Ranks : \A d : ~ (s = r /\ q = p) =>
         (InChannel(s, q, d)' <=> InChannel(s, q, d))
  BY <1>10 DEF InChannel
<1>18. \A s, q \in Ranks : \A d : Taken(s, q, d)' <=> Taken(s, q, d)
  BY <1>3, <1>5, <1>6 DEF Taken
<1>19. \A s, q \in Ranks : \A d \in 1..Len(program) : ~ (s = r /\ q = p /\ d = c) =>
         (Started(s, q, d)' <=> Started(s, q, d))
  BY <1>3, <1>4, <1>6, <1>7 DEF Started
<1>20. Started(r, p, c)'
  BY <1>3, <1>4, <1>6, <1>7, <1>12 DEF Started
<1>21. ChannelInv'
  <2>1. ASSUME NEW s \in Ranks, NEW q \in Ranks
        PROVE  /\ Ordered(chan[s][q])'
               /\ \A d \in 1..Len(program) :
                    /\ InChannel(s, q, d)' <=> Started(s, q, d)' /\ ~ Taken(s, q, d)'
                    /\ Taken(s, q, d)' => Started(s, q, d)'
    <3>1. /\ Ordered(chan[s][q])
          /\ \A d \in 1..Len(program) :
               /\ InChannel(s, q, d) <=> Started(s, q, d) /\ ~ Taken(s, q, d)
               /\ Taken(s, q, d) => Started(s, q, d)
      BY <1>1 DEF ChannelInv
    <3>2. CASE s = r /\ q = p
      <4>1. Ordered(chan[s][q])'
        BY <1>4, <1>10, <1>15, <3>2 DEF Ordered
      <4>2. ASSUME NEW d \in 1..Len(program)
            PROVE  /\ InChannel(r, p, d)' <=> Started(r, p, d)' /\ ~ Taken(r, p, d)'
                   /\ Taken(r, p, d)' => Started(r, p, d)'
        <5>1. CASE d = c
          <6>1. ~ Taken(r, p, d)
            BY <1>11, <1>12, <5>1
          <6>2. InChannel(r, p, d)'
            BY <1>16, <5>1
          <6>3. Started(r, p, d)'
            BY <1>20, <5>1
          <6>4. ~ Taken(r, p, d)'
            BY <1>4, <1>18, <6>1
          <6> QED
            BY <6>2, <6>3, <6>4
        <5>2. CASE d # c
          <6>1. Started(r, p, d)' <=> Started(r, p, d)
            BY <1>4, <1>19, <5>2
          <6>2. Taken(r, p, d)' <=> Taken(r, p, d)
            BY <1>4, <1>18
          <6>3. InChannel(r, p, d)' <=> InChannel(r, p, d)
            BY <1>16, <5>2
          <6> QED
            BY <1>11, <6>1, <6>2, <6>3
        <5> QED
          BY <5>1, <5>2
      <4> QED
        BY <3>2, <4>1, <4>2
    <3>3. CASE ~ (s = r /\ q = p)
      <4>1. Ordered(chan[s][q])'
        BY <1>4, <1>10, <3>1, <3>3 DEF Ordered
      <4>2. \A d \in 1..Len(program) : /\ Started(s, q, d)' <=> Started(s, q, d)
                                       /\ Taken(s, q, d)' <=> Taken(s, q, d)
                                       /\ InChannel(s, q, d)' <=> InChannel(s, q, d)
        BY <1>17, <1>18, <1>19, <3>3
      <4> QED
        BY <3>1, <4>1, <4>2
    <3> QED
      BY <3>2, <3>3
  <2>2. chan' = [s \in Ranks' |-> [q \in Ranks' |-> chan'[s][q]]]
    BY <1>4, <1>10
  <2> QED
    BY <1>4, <2>1, <2>2 DEF ChannelInv
<1>22. ReceiveInv'
  <2>1. posted' \in [Ranks' -> SUBSET Ranks']
    BY <1>1, <1>3, <1>4 DEF ReceiveInv
  <2>2. inbox' = [q \in Ranks' |-> [s \in Ranks' |-> inbox'[q][s]]]
    BY <1>1, <1>3, <1>4 DEF ReceiveInv
  <2>3. \A q, s \in Ranks : Receiving(q, s)'
    BY <1>1, <1>3, <1>5 DEF ReceiveInv, Receiving, NoMessage
  <2> QED
    BY <1>4, <2>1, <2>2, <2>3 DEF ReceiveInv
<1>23. LargeInv'
  <2> SUFFICES ASSUME NEW q \in Ranks, NEW s \in Ranks,
                      calls[q] > 0, IsLarge(Current(q)),
                      ~ Todo(q, "start", s)', ~ Todo(q, "finish", s)'
               PROVE  ~ InChannel(q, s, calls[q])'
    BY <1>3, <1>4 DEF LargeInv, IsLarge, Current
  <2>1. ~ (q = r /\ s = p)
    BY <1>4
  <2>2. ~ Todo(q, "start", s) /\ ~ Todo(q, "finish", s)
    BY <1>4, <1>5, <2>1
  <2>3. ~ InChannel(q, s, calls[q])
    BY <1>1, <2>2 DEF LargeInv
  <2> QED
    BY <1>3, <1>10, <2>1, <2>3 DEF InChannel
<1>24. QED
  BY <1>4, <1>21, <1>22, <1>23 DEF IndInv

(***************************************************************************)
(* Deliver, when the receive takes the oldest message: it is of the        *)
(* receiver's current call, and the only one of it.                        *)
(***************************************************************************)
TakesFirst(s, r) ==
  /\ s \in posted[r]
  /\ chan[s][r] # << >>
  /\ inbox' = [inbox EXCEPT ![r][s] = Head(chan[s][r])]
  /\ chan' = [chan EXCEPT ![s][r] = Tail(@)]
  /\ posted' = [posted EXCEPT ![r] = @ \ {s}]
  /\ UNCHANGED <<setting, calls, steps, buf>>

LEMMA DeliverInd ==
  ASSUME IndInv, NEW r \in Ranks, NEW p \in Ranks, TakesFirst(p, r)
  PROVE  IndInv'
<1>1. SettingInv /\ StepsInv /\ ReceiveInv /\ ChannelInv /\ LargeInv
  BY DEF IndInv
<1>2. /\ p \in posted[r] /\ chan[p][r] # << >>
      /\ inbox' = [inbox EXCEPT ![r][p] = Head(chan[p][r])]
      /\ chan' = [chan EXCEPT ![p][r] = Tail(@)]
      /\ posted' = [posted EXCEPT ![r] = @ \ {p}]
      /\ comm' = comm /\ program' = program /\ calls' = calls /\ steps' = steps
  BY DEF TakesFirst, setting
<1>3. /\ size' = size /\ Ranks' = Ranks /\ Len(program)' = Len(program)
      /\ SettingInv' /\ StepsInv'
  <2>1. size' = size /\ Ranks' = Ranks /\ Len(program)' = Len(program)
    BY <1>2 DEF size, Ranks
  <2>2. SettingInv'
    BY <1>1, <1>2, <2>1 DEF SettingInv, Calls
  <2>3. StepsInv'
    BY <1>1, <1>2, <2>1 DEF StepsInv, StepsOf, Todo, Sources, Targets
  <2> QED
    BY <2>1, <2>2, <2>3
<1>4. \A q : \A a, y : Todo(q, a, y)' <=> Todo(q, a, y)
  BY <1>2 DEF Todo
<1>5. \A q, d : Sources(q, d)' = Sources(q, d) /\ Targets(q, d)' = Targets(q, d)
  BY <1>2, <1>3 DEF Sources, Targets
<1>6. PICK c \in 1..Len(program) : c = calls[r]
  BY <1>2, PostedIs
<1>7. /\ p \in Sources(r, c) /\ ~ Taken(p, r, c)
      /\ Todo(r, "await", p) /\ ~ Todo(r, "post", p)
  BY <1>2, <1>6, PostedIs
<1>8. PICK m, t : m = chan[p][r] /\ t = Tail(m)
  OBVIOUS
<1>9. Head(m).nth = c
  BY <1>2, <1>6, <1>8, HeadIsCurrent
<1>10. chan = [s \in Ranks |-> [q \in Ranks |-> chan[s][q]]]
  BY <1>1 DEF ChannelInv
<1>11. /\ chan'[p][r] = t
       /\ \A s, q \in Ranks : ~ (s = p /\ q = r) => chan'[s][q] = chan[s][q]
       /\ chan' = [s \in Ranks |-> [q \in Ranks |-> chan'[s][q]]]
  BY <1>2, <1>8, <1>10
<1>12. /\ Ordered(m)
       /\ \A d \in 1..Len(program) :
            /\ InChannel(p, r, d) <=> Started(p, r, d) /\ ~ Taken(p, r, d)
            /\ Taken(p, r, d) => Started(p, r, d)
  BY <1>1, <1>8 DEF ChannelInv
<1>13. /\ Ordered(t)
       /\ 1 \in 1..Len(m) /\ Head(m) = m[1]
       /\ \A i \in 1..Len(t) : t[i] = m[i + 1] /\ i + 1 \in 1..Len(m)
       /\ \A i \in 1..Len(m) : i = 1 \/ \E j \in 1..Len(t) : i = j + 1
  <2>1. Ordered(m) /\ m # << >> /\ t = Tail(m)
    BY <1>2, <1>8, <1>12
  <2>2. Ordered(t)
    BY <2>1, OrderedTail
  <2>3. 1 \in 1..Len(m) /\ Head(m) = m[1]
    BY <2>1, OrderedTail
  <2>4. \A i \in 1..Len(t) : t[i] = m[i + 1] /\ i + 1 \in 1..Len(m)
    BY <2>1, OrderedTail
  <2>5. \A i \in 1..Len(m) : i = 1 \/ \E j \in 1..Len(t) : i = j + 1
    BY <2>1, OrderedTail
  <2> QED
    BY <2>2, <2>3, <2>4, <2>5
<1>14. \A i \in 1..Len(t) : t[i].nth > c
  <2> SUFFICES ASSUME NEW i \in 1..Len(t) PROVE t[i].nth > c
    OBVIOUS
  <2>1. 1 < i + 1
    BY <1>13 DEF Ordered
  <2>2. m[1].nth < m[i + 1].nth
    BY <1>12, <1>13, <2>1 DEF Ordered
  <2> QED
    BY <1>9, <1>12, <1>13, <2>2 DEF Ordered
<1>15. \A d \in 1..Len(program) : InChannel(p, r, d)' <=> InChannel(p, r, d) /\ d # c
  <2> SUFFICES ASSUME NEW d \in 1..Len(program)
               PROVE  (\E i \in 1..Len(t) : t[i].nth = d)
                        <=> (\E i \in 1..Len(m) : m[i].nth = d) /\ d # c
    BY <1>8, <1>11 DEF InChannel
  <2>1. ASSUME NEW i \in 1..Len(t), t[i].nth = d
        PROVE  (\E j \in 1..Len(m) : m[j].nth = d) /\ d # c
    <3>1. m[i + 1].nth = d /\ i + 1 \in 1..Len(m)
      BY <1>13, <2>1
    <3>2. d > c
      BY <1>14, <2>1
    <3>3. d # c
      BY <3>2
    <3> QED
      BY <3>1, <3>3
  <2>2. ASSUME NEW i \in 1..Len(m), m[i].nth = d, d # c
        PROVE  \E j \in 1..Len(t) : t[j].nth = d
    <3>1. i # 1
      BY <1>9, <1>13, <2>2
    <3>2. PICK j \in 1..Len(t) : i = j + 1
      BY <1>13, <3>1
    <3> QED
      BY <1>13, <2>2, <3>2
  <2> QED
    BY <2>1, <2>2
<1>16. \A s, q \in Ranks : \A d : ~ (s = p /\ q = r) =>
         (InChannel(s, q, d)' <=> InChannel(s, q, d))
  BY <1>11 DEF InChannel
<1>17. posted \in [Ranks -> SUBSET Ranks]
  BY <1>1 DEF ReceiveInv
<1>18. /\ posted' \in [Ranks -> SUBSET Ranks]
       /\ \A x : x \in posted'[r] <=> x \in posted[r] /\ x # p
       /\ \A q \in Ranks \ {r} : posted'[q] = posted[q]
  BY <1>2, <1>17
<1>19. \A s, q \in Ranks : \A d : Started(s, q, d)' <=> Started(s, q, d)
  BY <1>2, <1>4, <1>5 DEF Started
<1>20. \A s, q \in Ranks : \A d \in 1..Len(program) : ~ (s = p /\ q = r /\ d = c) =>
         (Taken(s, q, d)' <=> Taken(s, q, d))
  BY <1>2, <1>4, <1>5, <1>6, <1>18 DEF Taken
<1>21. Taken(p, r, c)'
  BY <1>2, <1>4, <1>5, <1>6, <1>7, <1>18 DEF Taken
<1>22. Started(p, r, c)
  <2>1. InChannel(p, r, c)
    BY <1>8, <1>9, <1>13 DEF InChannel
  <2> QED
    BY <1>12, <2>1
<1>23. ChannelInv'
  <2>1. ASSUME NEW s \in Ranks, NEW q \in Ranks
        PROVE  /\ Ordered(chan[s][q])'
               /\ \A d \in 1..Len(program) :
                    /\ InChannel(s, q, d)' <=> Started(s, q, d)' /\ ~ Taken(s, q, d)'
                    /\ Taken(s, q, d)' => Started(s, q, d)'
    <3>1. /\ Ordered(chan[s][q])
          /\ \A d \in 1..Len(program) :
               /\ InChannel(s, q, d) <=> Started(s, q, d) /\ ~ Taken(s, q, d)
               /\ Taken(s, q, d) => Started(s, q, d)
      BY <1>1 DEF ChannelInv
    <3>2. CASE s = p /\ q = r
      <4>1. Ordered(chan[s][q])'
        BY <1>3, <1>11, <1>13, <3>2 DEF Ordered
      <4>2. ASSUME NEW d \in 1..Len(program)
            PROVE  /\ InChannel(p, r, d)' <=> Started(p, r, d)' /\ ~ Taken(p, r, d)'
                   /\ Taken(p, r, d)' => Started(p, r, d)'
        <5>1. Started(p, r, d)' <=> Started(p, r, d)
          BY <1>19
        <5>2. CASE d = c
          <6>1. Taken(p, r, d)'
            BY <1>21, <5>2
          <6>2. Started(p, r, d)
            BY <1>22, <5>2
          <6>3. ~ InChannel(p, r, d)'
            BY <1>15, <5>2
          <6> QED
            BY <5>1, <6>1, <6>2, <6>3
        <5>3. CASE d # c
          <6>1. Taken(p, r, d)' <=> Taken(p, r, d)
            BY <1>20, <5>3
          <6>2. InChannel(p, r, d)' <=> InChannel(p, r, d)
            BY <1>15, <5>3
          <6> QED
            BY <1>12, <5>1, <6>1, <6>2
        <5> QED
          BY <5>2, <5>3
      <4> QED
        BY <3>2, <4>1, <4>2
    <3>3. CASE ~ (s = p /\ q = r)
      <4>1. Ordered(chan[s][q])'
        BY <1>3, <1>11, <3>1, <3>3 DEF Ordered
      <4>2. \A d \in 1..Len(program) : /\ Started(s, q, d)' <=> Started(s, q, d)
                                       /\ Taken(s, q, d)' <=> Taken(s, q, d)
                                       /\ InChannel(s, q, d)' <=> InChannel(s, q, d)
        BY <1>16, <1>19, <1>20, <3>3
      <4> QED
        BY <3>1, <4>1, <4>2
    <3> QED
      BY <3>2, <3>3
  <2>2. chan' = [s \in Ranks' |-> [q \in Ranks' |-> chan'[s][q]]]
    BY <1>3, <1>11
  <2> QED
    BY <1>3, <2>1, <2>2 DEF ChannelInv
<1>24. ReceiveInv'
  <2>1. inbox = [q \in Ranks |-> [s \in Ranks |-> inbox[q][s]]]
    BY <1>1 DEF ReceiveInv
  <2>2. PICK h : h = Head(m)
    OBVIOUS
  <2>3. /\ inbox'[r][p] = h
        /\ \A q, s \in Ranks : ~ (q = r /\ s = p) => inbox'[q][s] = inbox[q][s]
    BY <1>2, <1>8, <2>1, <2>2
  <2>4. inbox' = [q \in Ranks |-> [s \in Ranks |-> inbox'[q][s]]]
    BY <1>2, <2>1
  <2>5. h # NoMessage /\ h.nth = c
    BY <1>9, <2>2 DEF NoMessage
  <2>6. ASSUME NEW q \in Ranks, NEW s \in Ranks
        PROVE  Receiving(q, s)'
    <3>1. Receiving(q, s)
      BY <1>1 DEF ReceiveInv
    <3>2. CASE q = r /\ s = p
      BY <1>2, <1>4, <1>6, <1>7, <1>18, <2>3, <2>5, <3>2 DEF Receiving, NoMessage
    <3>3. CASE ~ (q = r /\ s = p)
      BY <1>2, <1>4, <1>18, <2>3, <3>1, <3>3 DEF Receiving, NoMessage
    <3> QED
      BY <3>2, <3>3
  <2> QED
    BY <1>3, <1>18, <2>4, <2>6 DEF ReceiveInv
<1>25. LargeInv'
  <2> SUFFICES ASSUME NEW q \in Ranks, NEW s \in Ranks,
                      calls[q] > 0, IsLarge(Current(q)),
                      ~ Todo(q, "start", s), ~ Todo(q, "finish", s)
               PROVE  ~ InChannel(q, s, calls[q])'
    BY <1>2, <1>3, <1>4 DEF LargeInv, IsLarge, Current
  <2>1. ~ InChannel(q, s, calls[q])
    BY <1>1 DEF LargeInv
  <2>2. calls[q] \in 1..Len(program)
    <3>1. calls[q] \in 0..Len(program) /\ Len(program) \in Nat
      BY <1>1, SettingIs DEF StepsInv
    <3> QED
      BY <3>1
  <2>3. PICK d \in 1..Len(program) : d = calls[q] /\ d = calls'[q]
    BY <1>2, <2>2
  <2>4. ~ InChannel(q, s, d)'
    BY <1>15, <1>16, <2>1, <2>3
  <2> QED
    BY <2>3, <2>4 DEF InChannel
<1>26. QED
  BY <1>3, <1>23, <1>24, <1>25 DEF IndInv

-----------------------------------------------------------------------------
(***************************************************************************)
(* When no message can be missed: a rank of a communicator that uses       *)
(* mona_urecv has one receive posted at a time, since the schedules of     *)
(* calls that do not post several wait for one before they post another    *)
(* (ScheduleInTurn); so there is no other that could miss a message.       *)
(***************************************************************************)
Before(s, q) ==     \* nothing is posted in s until q's message is awaited
  \A j \in 1..Len(s) : s[j].do = "post" =>
    \E h \in 1..Len(s) : h < j /\ s[h].do = "await" /\ s[h].peer = q

Alone(r) ==
  /\ OneAtATime(steps[r])
  /\ \A q \in posted[r] : posted[r] = {q} /\ Before(steps[r], q)

TurnInv ==
  InTurn => /\ \A r \in Ranks : blind[r] = {}
            /\ comm.unexpected => \A r \in Ranks : Alone(r)

LEMMA TurnsAfter ==
  ASSUME NEW s, OneAtATime(s), NEW t, Len(t) \in Nat, Len(s) = Len(t) + 1,
         \A i \in 1..Len(t) : t[i] = s[i + 1]
  PROVE  /\ OneAtATime(t)
         /\ s[1].do = "post" => Before(t, s[1].peer)
         /\ \A q : Before(s, q) => s[1].do # "post"
         /\ \A q : Before(s, q) /\ ~ (s[1].do = "await" /\ s[1].peer = q) => Before(t, q)
<1>1. /\ Len(t) \in Nat /\ Len(s) = Len(t) + 1
      /\ \A i \in 1..Len(t) : t[i] = s[i + 1]
  OBVIOUS
<1>2. /\ \A i \in 1..Len(t) : i + 1 \in 1..Len(s)
      /\ 1 \in 1..Len(s)
  BY <1>1
<1>3. ASSUME NEW g \in 1..Len(s), g # 1
      PROVE  \E h \in 1..Len(t) : g = h + 1
  <2>1. g - 1 \in 1..Len(t) /\ g = g - 1 + 1
    BY <1>1, <1>3
  <2> QED
    BY <2>1
<1>4. ASSUME NEW i \in 1..Len(t), NEW j \in 1..Len(t), i < j,
             t[i].do = "post", t[j].do = "post"
      PROVE  \E h \in 1..Len(t) :
               i < h /\ h < j /\ t[h].do = "await" /\ t[h].peer = t[i].peer
  <2>1. i + 1 \in 1..Len(s) /\ j + 1 \in 1..Len(s) /\ i + 1 < j + 1
    BY <1>1, <1>2, <1>4
  <2>2. s[i + 1] = t[i] /\ s[j + 1] = t[j]
    BY <1>1
  <2>3. PICK g \in 1..Len(s) : /\ i + 1 < g /\ g < j + 1
                               /\ s[g].do = "await" /\ s[g].peer = t[i].peer
    BY <1>4, <2>1, <2>2 DEF OneAtATime
  <2>4. g # 1
    BY <2>3
  <2>5. PICK h \in 1..Len(t) : g = h + 1
    BY <1>3, <2>4
  <2>6. i < h /\ h < j
    BY <1>1, <2>3, <2>5
  <2>7. t[h] = s[g]
    BY <1>1, <2>5
  <2> QED
    BY <2>3, <2>6, <2>7
<1>5. ASSUME s[1].do = "post"
      PROVE  Before(t, s[1].peer)
  <2> SUFFICES ASSUME NEW j \in 1..Len(t), t[j].do = "post"
               PROVE  \E h \in 1..Len(t) : /\ h < j
                                           /\ t[h].do = "await" /\ t[h].peer = s[1].peer
    BY DEF Before
  <2>1. j + 1 \in 1..Len(s) /\ 1 < j + 1 /\ s[j + 1] = t[j]
    BY <1>1, <1>2
  <2>2. PICK g \in 1..Len(s) : /\ 1 < g /\ g < j + 1
                               /\ s[g].do = "await" /\ s[g].peer = s[1].peer
    BY <1>1, <1>2, <1>5, <2>1 DEF OneAtATime
  <2>3. g # 1
    BY <2>2
  <2>4. PICK h \in 1..Len(t) : g = h + 1
    BY <1>3, <2>3
  <2>5. h < j
    BY <1>1, <2>2, <2>4
  <2>6. t[h] = s[g]
    BY <1>1, <2>4
  <2> QED
    BY <1>1, <2>2, <2>5, <2>6
<1>6. ASSUME NEW q, Before(s, q), s[1].do = "post"
      PROVE  FALSE
  <2>1. PICK g \in 1..Len(s) : g < 1
    BY <1>1, <1>2, <1>6 DEF Before
  <2> QED
    BY <2>1
<1>7. ASSUME NEW q, Before(s, q), ~ (s[1].do = "await" /\ s[1].peer = q)
      PROVE  Before(t, q)
  <2> SUFFICES ASSUME NEW j \in 1..Len(t), t[j].do = "post"
               PROVE  \E h \in 1..Len(t) : h < j /\ t[h].do = "await" /\ t[h].peer = q
    BY DEF Before
  <2>1. j + 1 \in 1..Len(s) /\ s[j + 1] = t[j]
    BY <1>1, <1>2
  <2>2. PICK g \in 1..Len(s) : g < j + 1 /\ s[g].do = "await" /\ s[g].peer = q
    BY <1>7, <2>1 DEF Before
  <2>3. g # 1
    BY <1>1, <1>7, <2>2
  <2>4. PICK h \in 1..Len(t) : g = h + 1
    BY <1>3, <2>3
  <2>5. h < j
    BY <1>1, <2>2, <2>4
  <2>6. t[h] = s[g]
    BY <1>1, <2>4
  <2> QED
    BY <2>2, <2>5, <2>6
<1>8. OneAtATime(t)
  BY <1>4, Zenon DEF OneAtATime
<1>9. QED
  BY <1>5, <1>6, <1>7, <1>8

LEMMA TurnTail ==
  ASSUME NEW D, NEW s \in Seq(D), s # << >>, OneAtATime(s), NEW t, t = Tail(s)
  PROVE  /\ OneAtATime(t)
         /\ Head(s).do = "post" => Before(t, Head(s).peer)
         /\ \A q : Before(s, q) => Head(s).do # "post"
         /\ \A q : Before(s, q) /\ ~ (Head(s).do = "await" /\ Head(s).peer = q)
                     => Before(t, q)
<1>1. /\ Len(t) \in Nat /\ Len(s) = Len(t) + 1
      /\ \A i \in 1..Len(t) : t[i] = s[i + 1]
      /\ Head(s) = s[1]
  BY HeadTailProperties, LenProperties
<1>2. QED
  BY <1>1, TurnsAfter

LEMMA SameSetting ==
  ASSUME comm' = comm, program' = program
  PROVE  /\ size' = size /\ Ranks' = Ranks
         /\ InTurn' <=> InTurn
         /\ Apart' <=> Apart
  BY DEF size, Ranks, InTurn, Apart, PostsSeveral

LEMMA SameAlone ==
  ASSUME NEW r, steps'[r] = steps[r], posted'[r] = posted[r], Alone(r)
  PROVE  Alone(r)'
  BY DEF Alone, Before, OneAtATime

LEMMA TurnInit == Init => TurnInv
<1> SUFFICES ASSUME Init PROVE TurnInv
  OBVIOUS
<1>1. \A r \in Ranks : blind[r] = {} /\ steps[r] = << >> /\ posted[r] = {}
  BY DEF Init
<1>2. OneAtATime(<< >>)
  BY DEF OneAtATime
<1>3. QED
  BY <1>1, <1>2 DEF TurnInv, Alone

(***************************************************************************)
(* Enter: the steps of a call that does not post several receives.         *)
(***************************************************************************)
LEMMA TurnEnter ==
  ASSUME IndInv, TurnInv, NEW r \in Ranks, Enter(r)
  PROVE  TurnInv'
<1>1. SettingInv /\ StepsInv /\ ReceiveInv
  BY DEF IndInv
<1>2. /\ comm' = comm /\ program' = program /\ blind' = blind /\ posted' = posted
      /\ steps[r] = << >> /\ calls[r] < Len(program)
      /\ steps' = [steps EXCEPT ![r] = Steps(r, program[calls[r] + 1])]
  BY DEF Enter, setting, queue
<1>3. Ranks' = Ranks /\ (InTurn' <=> InTurn)
  BY <1>2, SameSetting
<1> SUFFICES ASSUME InTurn, comm.unexpected, NEW q \in Ranks
             PROVE  Alone(q)'
  BY <1>2, <1>3 DEF TurnInv
<1>4. Alone(q)
  BY DEF TurnInv
<1>5. /\ calls \in [Ranks -> 0..Len(program)] /\ steps \in [Ranks -> Seq(StepSet(size))]
      /\ Len(program) \in Nat
  BY <1>1, SettingIs DEF StepsInv
<1>6. CASE q # r
  <2>1. steps'[q] = steps[q] /\ posted'[q] = posted[q]
    BY <1>2, <1>5, <1>6
  <2> QED
    BY <1>4, <2>1, SameAlone
<1>7. CASE q = r
  <2>1. PICK c \in 1..Len(program) : c = calls[r] + 1
    BY <1>2, <1>5
  <2>2. PICK s, x : x = program[c] /\ s = Steps(r, x)
    OBVIOUS
  <2>3. steps'[r] = s
    BY <1>2, <1>5, <2>1, <2>2
  <2>4. /\ size \in Nat \ {0, 1} /\ comm.radix \in Nat \ {0, 1}
        /\ IsCall(size, x)
        /\ r \in 0..(size - 1)
    BY <1>1, <2>2, SettingIs DEF Ranks
  <2>5. \/ x.kind \in {"barrier", "bcast", "scatter"}
        \/ x.kind \in {"reduce", "allreduce"} /\ comm.radix = 2
    <3>1. ~ PostsSeveral(x)
      BY <2>2 DEF InTurn
    <3>2. comm.radix > 2 \/ comm.radix = 2
      BY <2>4
    <3> QED
      BY <2>4, <3>1, <3>2 DEF PostsSeveral, IsCall
  <2>6. OneAtATime(s)
    BY <2>2, <2>4, <2>5, ScheduleInTurn DEF Steps
  <2>7. posted[r] = {}
    <3>1. \A a, p : ~ Todo(r, a, p)
      BY <1>2, NothingToDo
    <3> QED
      BY <1>1, <3>1 DEF ReceiveInv, Receiving
  <2> QED
    BY <1>2, <1>7, <2>3, <2>6, <2>7 DEF Alone, OneAtATime, Before
<1>8. QED
  BY <1>6, <1>7

(***************************************************************************)
(* A receive is posted when there is no other, and what comes next of a    *)
(* receive that is posted is the wait for it, which it outlives.           *)
(***************************************************************************)
LEMMA TurnStep ==
  ASSUME IndInv, TurnInv, NEW r \in Ranks, Step(r)
  PROVE  TurnInv'
<1>1. SettingInv /\ StepsInv /\ ReceiveInv
  BY DEF IndInv
<1>2. PICK do, p : /\ AtStep(r, do) /\ p = Peer(r) /\ Done(r)
                   /\ UNCHANGED <<setting, queue>>
                   /\ IF do = "post" THEN posted' = [posted EXCEPT ![r] = @ \cup {p}]
                                     ELSE posted' = posted
                   /\ do = "await" => inbox[r][p] # NoMessage
  BY DEF Step, PostReceive, StartSend, FinishSend, AwaitReceive, AtStep
<1>3. /\ comm' = comm /\ program' = program /\ blind' = blind
      /\ steps[r] # << >> /\ Head(steps[r]).do = do /\ Head(steps[r]).peer = p
      /\ steps' = [steps EXCEPT ![r] = Tail(@)]
  BY <1>2 DEF setting, queue, AtStep, Peer, Done
<1>4. Ranks' = Ranks /\ (InTurn' <=> InTurn)
  BY <1>3, SameSetting
<1> SUFFICES ASSUME InTurn, comm.unexpected, NEW q \in Ranks
             PROVE  Alone(q)'
  BY <1>3, <1>4 DEF TurnInv
<1>5. Alone(q)
  BY DEF TurnInv
<1>6. /\ steps \in [Ranks -> Seq(StepSet(size))] /\ posted \in [Ranks -> SUBSET Ranks]
      /\ Once(steps[r])
  BY <1>1 DEF StepsInv, StepsOf, ReceiveInv
<1>7. CASE q # r
  <2>1. steps'[q] = steps[q] /\ posted'[q] = posted[q]
    BY <1>2, <1>3, <1>6, <1>7
  <2> QED
    BY <1>5, <2>1, SameAlone
<1>8. CASE q = r
  <2>1. PICK s, t : s = steps[r] /\ t = Tail(s)
    OBVIOUS
  <2>2. steps'[r] = t /\ s \in Seq(StepSet(size)) /\ s # << >> /\ Once(s)
    BY <1>3, <1>6, <2>1
  <2>3. /\ OneAtATime(s)
        /\ \A x \in posted[r] : posted[r] = {x} /\ Before(s, x)
    BY <1>5, <1>8, <2>1 DEF Alone
  <2>4. /\ OneAtATime(t)
        /\ do = "post" => Before(t, p)
        /\ \A x : Before(s, x) => do # "post"
        /\ \A x : Before(s, x) /\ ~ (do = "await" /\ p = x) => Before(t, x)
    BY <1>3, <2>1, <2>2, <2>3, TurnTail
  <2>5. CASE do = "post"
    <3>1. posted[r] = {}
      BY <2>3, <2>4, <2>5
    <3>2. posted'[r] = {p}
      BY <1>2, <1>6, <2>5, <3>1
    <3> QED
      BY <1>8, <2>2, <2>4, <2>5, <3>2 DEF Alone, OneAtATime, Before
  <2>6. CASE do # "post"
    <3>1. posted'[r] = posted[r]
      BY <1>2, <2>6
    <3>2. ASSUME NEW x \in posted[r], do = "await", p = x
          PROVE  FALSE
      <4>1. Todo(r, "await", x)
        <5>1. Has(s, do, p)
          BY <1>3, <2>1, <2>2, TailSteps
        <5> QED
          BY <2>1, <3>2, <5>1 DEF Todo
      <4>2. x \in Ranks
        BY <1>6
      <4>3. Receiving(r, x)
        BY <1>1, <4>2 DEF ReceiveInv
      <4> QED
        BY <1>2, <3>2, <4>1, <4>3 DEF Receiving
    <3>3. \A x \in posted[r] : Before(t, x)
      BY <2>3, <2>4, <3>2
    <3> QED
      BY <1>8, <2>2, <2>3, <2>4, <3>1, <3>3 DEF Alone, OneAtATime, Before
  <2> QED
    BY <2>5, <2>6
<1>9. QED
  BY <1>7, <1>8

LEMMA TurnDeliver ==
  ASSUME TypeInv, TurnInv, NEW r \in Ranks, NEW s \in Ranks, Deliver(s, r)
  PROVE  TurnInv'
<1>1. /\ comm' = comm /\ program' = program /\ steps' = steps /\ s \in posted[r]
      /\ posted' = [posted EXCEPT ![r] = @ \ {s}]
  BY DEF Deliver, setting
<1>2. Ranks' = Ranks /\ (InTurn' <=> InTurn)
  BY <1>1, SameSetting
<1>3. posted \in [Ranks -> SUBSET Ranks] /\ blind \in [Ranks -> SUBSET Ranks]
  BY DEF TypeInv, QueueInv
<1> SUFFICES ASSUME InTurn, NEW q \in Ranks
             PROVE  blind'[q] = {} /\ (comm.unexpected => Alone(q)')
  BY <1>1, <1>2 DEF TurnInv
<1>4. \A z \in Ranks : blind[z] = {} /\ (comm.unexpected => Alone(z))
  BY DEF TurnInv
<1>5. ~ Miss(s, r)
  <2>1. comm.unexpected => posted[r] \ {s} = {}
    BY <1>1, <1>4 DEF Alone
  <2> QED
    BY <2>1 DEF Miss
<1>6. blind' = [blind EXCEPT ![r] = @ \ {s}]
  BY <1>5 DEF Deliver
<1>7. blind'[q] = {}
  BY <1>3, <1>4, <1>6
<1>8. ASSUME comm.unexpected PROVE Alone(q)'
  <2>1. Alone(q) /\ steps'[q] = steps[q]
    BY <1>1, <1>4, <1>8
  <2>2. \A x \in posted'[q] : x \in posted[q] /\ posted'[q] = {x}
    <3>1. \A x \in posted[q] : posted[q] = {x}
      BY <2>1 DEF Alone
    <3>2. posted'[q] \subseteq posted[q]
      BY <1>1, <1>3
    <3> QED
      BY <3>1, <3>2
  <2> QED
    BY <2>1, <2>2 DEF Alone, OneAtATime, Before
<1>9. QED
  BY <1>7, <1>8

(***************************************************************************)
(* Apart, a receive takes the oldest message: the only one there is, or it *)
(* has missed none.                                                        *)
(***************************************************************************)
LEMMA OrderedOldest ==
  ASSUME NEW m, Ordered(m), NEW i \in Nat \ {0}, i <= Len(m), i = 1 \/ Len(program) = 1
  PROVE  i = 1 /\ m # << >> /\ m[i] = Head(m) /\ RemoveAt(m, i) = Tail(m)
<1>1. /\ Len(m) \in Nat
      /\ m = [j \in 1..Len(m) |-> m[j]]
      /\ \A j \in 1..Len(m) : m[j].nth \in 1..Len(program)
      /\ \A j, h \in 1..Len(m) : j < h => m[j].nth < m[h].nth
  BY DEF Ordered
<1>2. i = 1
  <2> SUFFICES ASSUME Len(program) = 1, i # 1 PROVE FALSE
    OBVIOUS
  <2>1. 1 \in 1..Len(m) /\ i \in 1..Len(m) /\ 1 < i
    BY <1>1
  <2>2. m[1].nth < m[i].nth
    BY <1>1, <2>1
  <2>3. m[1].nth \in 1..1 /\ m[i].nth \in 1..1
    BY <1>1, <2>1
  <2> QED
    BY <2>2, <2>3
<1>3. PICK D : D = {m[j] : j \in 1..Len(m)}
  OBVIOUS
<1>4. m \in Seq(D) /\ 1 \in 1..Len(m)
  BY <1>1, <1>2, <1>3
<1>5. m # << >>
  BY <1>4
<1>6. PICK t, u : t = Tail(m) /\ u = RemoveAt(m, 1)
  OBVIOUS
<1>7. /\ t \in Seq(D) /\ Len(m) = Len(t) + 1 /\ Len(t) \in Nat
      /\ \A j \in 1..Len(t) : t[j] = m[j + 1]
      /\ Head(m) = m[1]
  BY <1>4, <1>5, <1>6, HeadTailProperties, LenProperties
<1>8. /\ u \in Seq(D) /\ Len(u) = Len(m) - 1
      /\ \A j \in 1..(Len(m) - 1) : u[j] = IF j < 1 THEN m[j] ELSE m[j + 1]
  BY <1>4, <1>6, RemoveAtProperties
<1>9. Len(u) = Len(t) /\ \A j \in 1..Len(t) : u[j] = t[j]
  BY <1>7, <1>8
<1>10. u = t
  BY <1>7, <1>8, <1>9, SeqEqual
<1>11. QED
  BY <1>2, <1>5, <1>6, <1>7, <1>10

LEMMA DeliverFirst ==
  ASSUME Apart, TypeInv, IndInv, TurnInv, NEW r \in Ranks, NEW s \in Ranks, Deliver(s, r)
  PROVE  TakesFirst(s, r)
<1>1. PICK m, i : m = chan[s][r] /\ i = Oldest(s, r)
  OBVIOUS
<1>2. Ordered(m)
  BY <1>1 DEF IndInv, ChannelInv
<1>3. queued[r][s] \in Nat
  BY DEF TypeInv, QueueInv
<1>4. i \in Nat \ {0} /\ (blind[r] = {} => i = 1)
  BY <1>1, <1>3 DEF Oldest
<1>5. i = 1 \/ Len(program) = 1
  BY <1>4 DEF Apart, TurnInv
<1>6. i <= Len(m)
  BY <1>1 DEF Deliver
<1>7. m # << >> /\ m[i] = Head(m) /\ RemoveAt(m, i) = Tail(m)
  BY <1>2, <1>4, <1>5, <1>6, OrderedOldest
<1>8. /\ s \in posted[r]
      /\ inbox' = [inbox EXCEPT ![r][s] = m[i]]
      /\ chan' = [chan EXCEPT ![s][r] = RemoveAt(m, i)]
      /\ posted' = [posted EXCEPT ![r] = @ \ {s}]
      /\ UNCHANGED <<setting, calls, steps, buf>>
  BY <1>1 DEF Deliver
<1>9. QED
  BY <1>1, <1>7, <1>8 DEF TakesFirst

-----------------------------------------------------------------------------
(***************************************************************************)
(* The inductive invariant of the collectives, for every communicator,     *)
(* radix and program of calls.  It holds when no message can take          *)
(* another's place: on the path of mona_urecv a receive that listens       *)
(* without seeing the queue takes a message of a later call.               *)
(***************************************************************************)
ApartInv == TypeInv /\ (Apart => IndInv /\ TurnInv)

LEMMA ApartInductive == Spec => []ApartInv
<1>1. Init => (Apart => IndInv /\ TurnInv)
  BY InitInd, TurnInit
<1>2. TypeInv /\ (Apart => IndInv /\ TurnInv) /\ [Next]_vars => (Apart' => IndInv' /\ TurnInv')
  <2> SUFFICES ASSUME TypeInv, Apart => IndInv /\ TurnInv, [Next]_vars, Apart'
               PROVE  IndInv' /\ TurnInv'
    OBVIOUS
  <2>1. comm' = comm /\ program' = program
    BY DEF Next, Enter, Step, PostReceive, StartSend, FinishSend, AwaitReceive, Deliver,
           setting, vars
  <2>2. Apart /\ IndInv /\ TurnInv
    BY <2>1, SameSetting
  <2>3. ASSUME NEW r \in Ranks, Enter(r) PROVE IndInv' /\ TurnInv'
    BY <2>2, <2>3, EnterInd, TurnEnter
  <2>4. ASSUME NEW r \in Ranks, Step(r) PROVE IndInv' /\ TurnInv'
    <3>1. IndInv'
      BY <2>2, <2>4, PostInd, StartInd, FinishInd, AwaitInd DEF Step
    <3> QED
      BY <2>2, <2>4, <3>1, TurnStep
  <2>5. ASSUME NEW r \in Ranks, NEW s \in Ranks, Deliver(s, r) PROVE IndInv' /\ TurnInv'
    <3>1. TakesFirst(s, r)
      BY <2>2, <2>5, DeliverFirst
    <3> QED
      BY <2>2, <2>5, <3>1, DeliverInd, TurnDeliver
  <2>6. ASSUME UNCHANGED vars PROVE IndInv' /\ TurnInv'
    <3>1. /\ comm' = comm /\ program' = program /\ calls' = calls /\ steps' = steps
          /\ chan' = chan /\ posted' = posted /\ inbox' = inbox /\ blind' = blind
      BY <2>6 DEF vars, setting, queue
    <3>2. size' = size /\ Ranks' = Ranks
      BY <3>1 DEF size, Ranks
    <3>3. IndInv'
      BY <2>2, <3>1, <3>2 DEF IndInv, SettingInv, StepsInv, StepsOf, ReceiveInv, Receiving,
           ChannelInv, LargeInv, Ordered, Started, Taken, InChannel, Todo, Sources, Targets,
           IsLarge, Current, Calls
    <3>4. TurnInv'
      <4>1. InTurn' <=> InTurn
        BY <3>1, SameSetting
      <4>2. \A r \in Ranks : Alone(r) => Alone(r)'
        BY <3>1, SameAlone
      <4> QED
        BY <2>2, <3>1, <3>2, <4>1, <4>2 DEF TurnInv
    <3> QED
      BY <3>3, <3>4
  <2> QED
    BY <2>3, <2>4, <2>5, <2>6 DEF Next
<1>3. QED
  BY <1>1, <1>2, TypeInductive, PTL DEF Spec, ApartInv

(***************************************************************************)
(* The inductive invariant, when no message can take another's place:      *)
(* between two ranks are the messages of exactly those calls in which one  *)
(* has sent and the other has not received, in the order of the calls.     *)
(***************************************************************************)
THEOREM CollectivesInductive == Spec => [](Apart => IndInv)
<1>1. ApartInv => (Apart => IndInv)
  BY DEF ApartInv
<1>2. QED
  BY <1>1, ApartInductive, PTL

(***************************************************************************)
(* Calls that share one tag never get each other's messages, when no       *)
(* message can take another's place: the communicator does not use         *)
(* mona_urecv, no call of the program posts several receives, or the       *)
(* program is a single call.                                               *)
(***************************************************************************)
THEOREM CallsStayApart == Spec => []NoCrossTalk
<1>1. (Apart => IndInv) => NoCrossTalk
  BY DEF IndInv, ReceiveInv, Receiving, NoCrossTalk
<1>2. QED
  BY <1>1, CollectivesInductive, PTL

(***************************************************************************)
(* What the invariant says of a rank at the end of its schedule.           *)
(***************************************************************************)
LEMMA IndClean ==
  ASSUME IndInv
  PROVE  ReturnsClean
<1>1. SettingInv /\ StepsInv /\ ReceiveInv /\ ChannelInv /\ LargeInv
  BY DEF IndInv
<1>2. ASSUME NEW r \in Ranks, steps[r] = << >>
      PROVE  /\ posted[r] = {}
             /\ \A s \in Ranks : inbox[r][s] = NoMessage
  <2>1. \A a, p : ~ Todo(r, a, p)
    BY <1>2, NothingToDo
  <2>2. \A s \in Ranks : s \notin posted[r] /\ inbox[r][s] = NoMessage
    BY <1>1, <2>1 DEF ReceiveInv, Receiving
  <2>3. posted[r] \subseteq Ranks
    BY <1>1 DEF ReceiveInv
  <2> QED
    BY <2>2, <2>3
<1>3. ASSUME NEW r \in Ranks, calls[r] > 0, steps[r] = << >>, IsLarge(Current(r)),
             NEW s \in Ranks, NEW i \in 1..Len(chan[r][s])
      PROVE  chan[r][s][i].nth # calls[r]
  <2>1. \A a, p : ~ Todo(r, a, p)
    BY <1>3, NothingToDo
  <2>2. ~ InChannel(r, s, calls[r])
    BY <1>1, <1>3, <2>1 DEF LargeInv
  <2> QED
    BY <2>2 DEF InChannel
<1>4. ASSUME \A q \in Ranks : steps[q] = << >> /\ calls[q] = calls[0],
             NEW r \in Ranks, NEW s \in Ranks, chan[r][s] # << >>
      PROVE  FALSE
  <2>1. PICK m : m = chan[r][s]
    OBVIOUS
  <2>2. /\ Ordered(m)
        /\ \A d \in 1..Len(program) : InChannel(r, s, d) <=> Started(r, s, d) /\ ~ Taken(r, s, d)
    BY <1>1, <2>1 DEF ChannelInv
  <2>3. 1 \in 1..Len(m)
    BY <1>4, <2>1, <2>2, OrderedTail
  <2>4. PICK d \in 1..Len(program) : d = m[1].nth
    BY <2>2, <2>3 DEF Ordered
  <2>5. InChannel(r, s, d)
    BY <2>1, <2>3, <2>4 DEF InChannel
  <2>6. Started(r, s, d) /\ ~ Taken(r, s, d)
    BY <2>2, <2>5
  <2>7. r \in Sources(s, d)
    BY <1>1, <2>6, CallPaired DEF Started
  <2>8. calls[r] = calls[s]
    BY <1>4
  <2>9. r \notin posted[s] /\ ~ Todo(s, "post", r)
    BY <1>2, <1>4, NothingToDo
  <2> QED
    BY <2>6, <2>7, <2>8, <2>9 DEF Started, Taken
<1>5. QED
  BY <1>2, <1>3, <1>4 DEF ReturnsClean

(***************************************************************************)
(* A call that returns leaves no receive, no large send and, once all have *)
(* returned, no message behind, when no message can take another's place.  *)
(* So tempBuf and the requests of mona_comm_reduce, gather and alltoall are *)
(* freed when nothing writes to them any more.                             *)
(***************************************************************************)
THEOREM CallsReturnClean == Spec => []ReturnsClean
<1>1. (Apart => IndInv) => ReturnsClean
  <2>1. CASE Apart
    BY <2>1, IndClean
  <2>2. CASE ~ Apart
    BY <2>2 DEF ReturnsClean
  <2> QED
    BY <2>1, <2>2
<1>2. QED
  BY <1>1, CollectivesInductive, PTL

-----------------------------------------------------------------------------
(***************************************************************************)
(* The turns of a barrier: how far away a rank's peers are, and that the   *)
(* rank waits for the message of one turn before it sends that of a later  *)
(* one.                                                                    *)
(***************************************************************************)
Distance(i)  == Strides(size, 2)[i - 1]
Behind(r, i) == Backward(size, r, Distance(i))
Ahead(r, i)  == Forward(size, r, Distance(i))

InBarrier(r) == calls[r] > 0 /\ program[calls[r]].kind = "barrier"

TurnsInOrder(r) ==
  \A j, i \in 1..Turns(size, 2) : j < i =>
    Follows(steps[r], "await", Behind(r, j), "start", Ahead(r, i))

BarrierInv == \A r \in Ranks : InBarrier(r) => TurnsInOrder(r)

(***************************************************************************)
(* The doing of a step leaves the others in order.                         *)
(***************************************************************************)
LEMMA DoneInOrder ==
  ASSUME SettingInv, StepsInv, BarrierInv, NEW r \in Ranks, NEW do, AtStep(r, do), Done(r),
         UNCHANGED <<setting, calls>>
  PROVE  BarrierInv'
<1>1. /\ steps[r] # << >> /\ steps' = [steps EXCEPT ![r] = Tail(@)]
      /\ comm' = comm /\ program' = program /\ calls' = calls
  BY DEF AtStep, Done, setting
<1>2. size' = size /\ Ranks' = Ranks
  BY <1>1 DEF size, Ranks
<1>3. /\ steps \in [Ranks -> Seq(StepSet(size))]
      /\ \A q \in Ranks : StepsOf(q)
  BY DEF StepsInv
<1>4. PICK s, t : s = steps[r] /\ t = Tail(s)
  OBVIOUS
<1>5. s \in Seq(StepSet(size)) /\ s # << >>
  BY <1>1, <1>3, <1>4
<1>6. /\ steps'[r] = t
      /\ \A q \in Ranks \ {r} : steps'[q] = steps[q]
  BY <1>1, <1>3, <1>4
<1>7. \A a, p, b, q : Follows(s, a, p, b, q) => Follows(t, a, p, b, q)
  BY <1>4, <1>5, FollowsTail, Zenon
<1>8. ASSUME NEW q \in Ranks, InBarrier(q)'
      PROVE  TurnsInOrder(q)'
  <2>1. TurnsInOrder(q)
    BY <1>1, <1>8 DEF BarrierInv, InBarrier
  <2> SUFFICES ASSUME NEW j \in 1..Turns(size, 2), NEW i \in 1..Turns(size, 2), j < i
               PROVE  Follows(steps'[q], "await", Behind(q, j), "start", Ahead(q, i))
    BY <1>2 DEF TurnsInOrder, Behind, Ahead, Distance
  <2>2. Follows(steps[q], "await", Behind(q, j), "start", Ahead(q, i))
    BY <2>1 DEF TurnsInOrder
  <2>3. CASE q = r
    BY <1>4, <1>6, <1>7, <2>2, <2>3
  <2>4. CASE q # r
    BY <1>6, <2>2, <2>4
  <2> QED
    BY <2>3, <2>4
<1>9. QED
  BY <1>2, <1>8 DEF BarrierInv

LEMMA EnterInOrder ==
  ASSUME SettingInv, StepsInv, BarrierInv, NEW r \in Ranks, Enter(r)
  PROVE  BarrierInv'
<1>1. /\ calls[r] < Len(program)
      /\ calls' = [calls EXCEPT ![r] = @ + 1]
      /\ steps' = [steps EXCEPT ![r] = Steps(r, program[calls[r] + 1])]
      /\ comm' = comm /\ program' = program
  BY DEF Enter, setting
<1>2. size' = size /\ Ranks' = Ranks
  BY <1>1 DEF size, Ranks
<1>3. /\ calls \in [Ranks -> 0..Len(program)] /\ steps \in [Ranks -> Seq(StepSet(size))]
      /\ Len(program) \in Nat
  BY SettingIs DEF StepsInv
<1>4. PICK c \in 1..Len(program) : c = calls[r] + 1
  BY <1>1, <1>3
<1>5. PICK s : s = Steps(r, program[c])
  OBVIOUS
<1>6. /\ calls'[r] = c /\ steps'[r] = s
      /\ \A q \in Ranks \ {r} : calls'[q] = calls[q] /\ steps'[q] = steps[q]
  BY <1>1, <1>3, <1>4, <1>5
<1>7. ASSUME NEW q \in Ranks, InBarrier(q)'
      PROVE  TurnsInOrder(q)'
  <2> SUFFICES ASSUME NEW j \in 1..Turns(size, 2), NEW i \in 1..Turns(size, 2), j < i
               PROVE  Follows(steps'[q], "await", Behind(q, j), "start", Ahead(q, i))
    BY <1>2 DEF TurnsInOrder, Behind, Ahead, Distance
  <2>1. CASE q = r
    <3>1. program[c].kind = "barrier"
      BY <1>1, <1>6, <1>7, <2>1 DEF InBarrier
    <3>2. s = BarrierSteps(size, r)
      BY <1>5, <3>1 DEF Steps, Schedule
    <3>3. size \in Nat \ {0, 1} /\ r \in 0..(size - 1)
      BY SettingIs DEF Ranks
    <3>4. Follows(BarrierSteps(size, r), "await", Behind(r, j), "start", Ahead(r, i))
      BY <3>3, BarrierFollows DEF Behind, Ahead, Distance
    <3> QED
      BY <1>6, <2>1, <3>2, <3>4
  <2>2. CASE q # r
    <3>1. TurnsInOrder(q)
      BY <1>1, <1>6, <1>7, <2>2 DEF BarrierInv, InBarrier
    <3>2. Follows(steps[q], "await", Behind(q, j), "start", Ahead(q, i))
      BY <3>1 DEF TurnsInOrder
    <3> QED
      BY <1>6, <2>2, <3>2
  <2> QED
    BY <2>1, <2>2
<1>8. QED
  BY <1>2, <1>7 DEF BarrierInv

LEMMA BarrierInductive == Spec => []BarrierInv
<1>1. Init => BarrierInv
  BY DEF Init, BarrierInv, InBarrier
<1>2. TypeInv /\ BarrierInv /\ [Next]_vars => BarrierInv'
  <2> SUFFICES ASSUME TypeInv, BarrierInv, [Next]_vars PROVE BarrierInv'
    OBVIOUS
  <2>1. SettingInv /\ StepsInv
    BY DEF TypeInv
  <2>2. ASSUME NEW r \in Ranks, Enter(r) PROVE BarrierInv'
    BY <2>1, <2>2, EnterInOrder
  <2>3. ASSUME NEW r \in Ranks, Step(r) PROVE BarrierInv'
    <3>1. PICK do : AtStep(r, do) /\ Done(r) /\ UNCHANGED <<setting, calls>>
      BY <2>3 DEF Step, PostReceive, StartSend, FinishSend, AwaitReceive
    <3> QED
      BY <2>1, <3>1, DoneInOrder
  <2>4. ASSUME UNCHANGED <<setting, calls, steps>> PROVE BarrierInv'
    BY <2>4 DEF BarrierInv, InBarrier, TurnsInOrder, Behind, Ahead, Distance, Ranks, size, setting
  <2>5. ASSUME NEW r \in Ranks, NEW s \in Ranks, Deliver(s, r) PROVE BarrierInv'
    BY <2>4, <2>5 DEF Deliver
  <2>6. ASSUME UNCHANGED vars PROVE BarrierInv'
    BY <2>4, <2>6 DEF vars
  <2> QED
    BY <2>2, <2>3, <2>5, <2>6 DEF Next
<1>3. QED
  BY <1>1, <1>2, TypeInductive, PTL DEF Spec

(***************************************************************************)
(* What a rank has heard of: after i turns of the c-th call, a barrier,    *)
(* that the ranks behind it by less than 2^i have made that call.          *)
(***************************************************************************)
Through(r, c, i) ==
  \/ c < calls[r]
  \/ c = calls[r] /\ \A j \in 1..i : ~ Todo(r, "await", Behind(r, j))

Knows(r, c, m) ==
  \A d \in 0..(size - 1) : d < m => calls[Backward(size, r, d)] >= c

LEMMA HeardOf ==
  ASSUME IndInv, BarrierInv, NEW c \in 1..Len(program), program[c].kind = "barrier",
         NEW r \in Ranks, NEW i \in 1..Turns(size, 2), Through(r, c, i)
  PROVE  /\ Behind(r, i) \in Ranks
         /\ Through(r, c, i - 1)
         /\ Through(Behind(r, i), c, i - 1)
<1>1. SettingInv /\ StepsInv /\ ReceiveInv /\ ChannelInv
  BY DEF IndInv
<1>2. size \in Nat \ {0, 1} /\ r \in 0..(size - 1)
  BY <1>1, SettingIs DEF Ranks
<1>3. PICK t \in Nat : t = Turns(size, 2)
  BY <1>2, TurnsAre
<1>4. PICK s : s = Behind(r, i)
  OBVIOUS
<1>5. PICK d \in 1..(size - 1) : d = Distance(i)
  BY <1>2, BarrierStride DEF Distance
<1>6. s \in Ranks /\ r = Forward(size, s, d)
  <2>1. s = Backward(size, r, d)
    BY <1>4, <1>5 DEF Behind
  <2>2. s \in 0..(size - 1)
    BY <1>2, <2>1, ThereAndBack
  <2>3. r = Forward(size, s, d) <=> s = Backward(size, r, d)
    BY <1>2, <2>2, ThereAndBack
  <2> QED
    BY <2>1, <2>2, <2>3 DEF Ranks
<1>7. r = Ahead(s, i)
  BY <1>5, <1>6 DEF Ahead
<1>8. \A j \in 1..(i - 1) : j \in 1..i /\ j \in 1..t /\ j < i
  BY <1>3
<1>9. Through(r, c, i - 1)
  BY <1>8 DEF Through
<1>10. s \in Sources(r, c)
  <2>1. s \in BarrierFrom(size, r)
    BY <1>4 DEF BarrierFrom, Behind, Distance
  <2> QED
    BY <2>1 DEF Sources, From
<1>11. Taken(s, r, c)
  <2>1. CASE c < calls[r]
    BY <1>10, <2>1 DEF Taken
  <2>2. CASE ~ (c < calls[r])
    <3>1. c = calls[r] /\ ~ Todo(r, "await", s)
      <4>1. i \in 1..i
        BY <1>3
      <4> QED
        BY <1>4, <2>2, <4>1 DEF Through
    <3>2. Receiving(r, s)
      BY <1>1, <1>6 DEF ReceiveInv
    <3>3. ~ Todo(r, "post", s)
      <4>1. Then(steps[r], "post", "await")
        BY <1>1 DEF StepsInv, StepsOf
      <4> QED
        BY <3>1, <4>1 DEF Todo, Then, Has
    <3> QED
      BY <1>10, <3>1, <3>2, <3>3 DEF Taken, Receiving
  <2> QED
    BY <2>1, <2>2
<1>12. Started(s, r, c)
  BY <1>1, <1>6, <1>11 DEF ChannelInv
<1>13. Through(s, c, i - 1)
  <2>1. CASE c < calls[s]
    BY <2>1 DEF Through
  <2>2. CASE c = calls[s] /\ ~ Todo(s, "start", r)
    <3>1. TurnsInOrder(s)
      BY <1>6, <2>2 DEF BarrierInv, InBarrier
    <3>2. ASSUME NEW j \in 1..(i - 1), Todo(s, "await", Behind(s, j))
          PROVE  FALSE
      <4>1. Follows(steps[s], "await", Behind(s, j), "start", Ahead(s, i))
        BY <1>3, <1>8, <3>1 DEF TurnsInOrder
      <4>2. Todo(s, "start", Ahead(s, i))
        BY <3>2, <4>1, FollowsHas DEF Todo
      <4> QED
        BY <1>7, <2>2, <4>2
    <3> QED
      BY <2>2, <3>2 DEF Through
  <2> QED
    BY <1>12, <2>1, <2>2 DEF Started
<1>14. QED
  BY <1>4, <1>6, <1>9, <1>13

LEMMA KnowsMore ==
  ASSUME NEW c \in Nat, NEW r \in Ranks, size \in Nat \ {0, 1}, NEW d \in 1..(size - 1),
         Knows(r, c, d), Knows(Backward(size, r, d), c, d)
  PROVE  Knows(r, c, 2 * d)
<1>1. r \in 0..(size - 1)
  BY DEF Ranks
<1> SUFFICES ASSUME NEW e \in 0..(size - 1), e < 2 * d
             PROVE  calls[Backward(size, r, e)] >= c
  BY DEF Knows
<1>2. CASE e < d
  BY <1>2 DEF Knows
<1>3. CASE ~ (e < d)
  <2>1. PICK f \in 0..(size - 1) : f = e - d
    BY <1>3
  <2>2. f < d /\ e = d + f /\ d + f < size /\ d \in 0..(size - 1)
    BY <2>1
  <2>3. Backward(size, Backward(size, r, d), f) = Backward(size, r, d + f)
    BY <1>1, <2>2, BackAndBack
  <2>4. calls[Backward(size, Backward(size, r, d), f)] >= c
    BY <2>2 DEF Knows
  <2> QED
    BY <2>2, <2>3, <2>4
<1>4. QED
  BY <1>2, <1>3

LEMMA ThroughKnows ==
  ASSUME IndInv, BarrierInv, NEW c \in 1..Len(program), program[c].kind = "barrier"
  PROVE  \A i \in 0..Turns(size, 2) : \A r \in Ranks :
           Through(r, c, i) => Knows(r, c, Strides(size, 2)[i])
<1>1. SettingInv /\ StepsInv
  BY DEF IndInv
<1>2. size \in Nat \ {0, 1} /\ Len(program) \in Nat
  BY <1>1, SettingIs
<1>3. PICK t, p : t \in 1..size /\ t = Turns(size, 2) /\ p = Strides(size, 2)
  <2>1. Turns(size, 2) \in 1..size
    BY <1>2, TurnsAre
  <2> QED
    BY <2>1
<1>4. /\ p[0] = 1
      /\ \A j \in 0..(size - 1) : p[j + 1] = 2 * p[j]
  BY <1>2, <1>3, StridesAre
<1>5. \A i \in 1..t : p[i - 1] \in 1..(size - 1) /\ p[i] = 2 * p[i - 1]
  <2> SUFFICES ASSUME NEW i \in 1..t
               PROVE  p[i - 1] \in 1..(size - 1) /\ p[i] = 2 * p[i - 1]
    OBVIOUS
  <2>1. p[i - 1] \in 1..(size - 1)
    BY <1>2, <1>3, BarrierStride
  <2>2. i - 1 \in 0..(size - 1) /\ i - 1 + 1 = i
    BY <1>2, <1>3
  <2> QED
    BY <1>4, <2>1, <2>2
<1> DEFINE S == {i \in Nat : i <= t => \A r \in Ranks : Through(r, c, i) => Knows(r, c, p[i])}
<1>6. 0 \in S
  <2> SUFFICES ASSUME NEW r \in Ranks, Through(r, c, 0) PROVE Knows(r, c, 1)
    BY <1>4
  <2>1. calls[r] >= c
    <3>1. calls[r] \in Nat
      BY <1>1, <1>2 DEF StepsInv
    <3> QED
      BY <3>1 DEF Through
  <2>2. Backward(size, r, 0) = r
    <3>1. r \in 0..(size - 1) /\ 0 \in 0..(size - 1) /\ ~ (r < 0) /\ r - 0 = r
      BY <1>2 DEF Ranks
    <3> QED
      BY <1>2, <3>1, BackwardIs
  <2> QED
    BY <2>1, <2>2 DEF Knows
<1>7. ASSUME NEW h \in Nat, h \in S PROVE h + 1 \in S
  <2> SUFFICES ASSUME h + 1 <= t, NEW r \in Ranks, Through(r, c, h + 1)
               PROVE  Knows(r, c, p[h + 1])
    OBVIOUS
  <2>1. PICK i \in 1..t : i = h + 1 /\ i - 1 = h
    BY <1>2, <1>3
  <2>2. /\ Behind(r, i) \in Ranks
        /\ Through(r, c, h)
        /\ Through(Behind(r, i), c, h)
    BY <1>3, <2>1, HeardOf
  <2>3. PICK d \in 1..(size - 1) : d = p[i - 1] /\ p[i] = 2 * d
    BY <1>5
  <2>4. Knows(r, c, d) /\ Knows(Behind(r, i), c, d)
    <3>1. h <= t
      BY <1>2, <1>3, <2>1
    <3>2. \A q \in Ranks : Through(q, c, h) => Knows(q, c, p[h])
      BY <1>7, <3>1
    <3>3. p[h] = d
      BY <2>1, <2>3
    <3> QED
      BY <2>2, <3>2, <3>3
  <2>5. Behind(r, i) = Backward(size, r, d)
    BY <1>3, <2>3 DEF Behind, Distance
  <2>6. Knows(r, c, 2 * d)
    BY <1>2, <2>4, <2>5, KnowsMore
  <2> QED
    BY <2>1, <2>3, <2>6
<1>8. \A i \in Nat : i \in S
  <2> HIDE DEF S
  <2> QED
    BY <1>6, <1>7, Counting
<1>9. QED
  BY <1>3, <1>8

(***************************************************************************)
(* No rank leaves a barrier before all have entered it, whatever other     *)
(* calls there are when no message of theirs can take another's place.     *)
(***************************************************************************)
THEOREM BarrierSynchronizes == Spec => []BarrierHolds
<1>1. ASSUME Apart => IndInv, BarrierInv PROVE BarrierHolds
  <2> SUFFICES ASSUME Apart PROVE BarrierHolds
    BY DEF BarrierHolds
  <2>1. IndInv
    BY <1>1
  <2> SUFFICES ASSUME NEW c \in 1..Len(program), program[c].kind = "barrier",
                      NEW r \in Ranks, NEW q \in Ranks, Returned(r, c)
               PROVE  calls[q] >= c
    BY DEF BarrierHolds
  <2>2. size \in Nat \ {0, 1}
    BY <2>1, SettingIs DEF IndInv
  <2>3. PICK t \in 1..size : t = Turns(size, 2) /\ Strides(size, 2)[t] >= size
    <3>1. 2 \in Nat \ {0, 1}
      OBVIOUS
    <3>2. Turns(size, 2) \in 1..size
      BY <2>2, <3>1, TurnsAre
    <3>3. Strides(size, 2)[Turns(size, 2)] >= size
      BY <2>2, <3>1, TurnsAre
    <3> QED
      BY <3>2, <3>3
  <2>4. Through(r, c, t)
    <3>1. steps[r] = << >> => \A a, p : ~ Todo(r, a, p)
      BY NothingToDo
    <3> QED
      BY <3>1 DEF Through, Returned
  <2>5. Knows(r, c, Strides(size, 2)[t])
    <3>1. t \in 0..t /\ t \in Nat
      BY <2>2
    <3> QED
      BY <1>1, <2>1, <2>3, <2>4, <3>1, ThroughKnows
  <2>6. PICK d \in 0..(size - 1) : q = Backward(size, r, d)
    BY <2>2, BackToAll DEF Ranks
  <2>7. d < Strides(size, 2)[t]
    <3>1. \A j \in 0..size : Strides(size, 2)[j] \in Nat
      BY <2>2, StridesGrow
    <3>2. PICK x \in Nat : x = Strides(size, 2)[t]
      BY <2>2, <3>1
    <3> QED
      BY <2>2, <2>3, <3>2
  <2> QED
    BY <2>5, <2>6, <2>7 DEF Knows
<1>2. QED
  BY <1>1, CollectivesInductive, BarrierInductive, PTL

-----------------------------------------------------------------------------
(***************************************************************************)
(* ResultRight: what the buffers and the messages hold while a call c goes *)
(* on, on n ranks with radix k.  W are the ranks from which r still waits  *)
(* for a message; the sum of what the ranks in A contribute is a bag.      *)
(***************************************************************************)
SumOf(A) == SetToBag({<<q, 0>> : q \in A})

RootOf(c) == IF c.kind \in {"allreduce", "allgather"} THEN 0 ELSE c.root

OnRanks(n, b) == b = [i \in 0..(n - 1) |-> b[i]]

(***************************************************************************)
(* The buffer that a bcast hands on.                                       *)
(***************************************************************************)
Whole(n, c, b) ==
  CASE c.kind = "bcast"     -> b[0] = Block(c.root, 0)
    [] c.kind = "allreduce" -> b[0] = SumOf(0..(n - 1))
    [] c.kind = "allgather" -> \A q \in (0..(n - 1)) \ c.empty : b[q] = Block(q, 0)
    [] OTHER                -> TRUE

(***************************************************************************)
(* The buffer of a rank to which nothing has been handed on.               *)
(***************************************************************************)
Partly(n, k, r, c, b, W) ==
  CASE c.kind = "bcast" -> r = c.root => b[0] = Block(c.root, 0)
    [] c.kind \in {"reduce", "allreduce"} -> b[0] = SumOf(Combined(n, k, r, RootOf(c), W))
    [] c.kind \in {"gather", "allgather"} ->
         r = RootOf(c) => \A q \in (0..(n - 1)) \ (c.empty \cup W) : b[q] = Block(q, 0)
    [] c.kind = "scatter" -> c.root \notin W => b[0] = Block(c.root, r)
    [] c.kind = "alltoall" -> \A q \in (0..(n - 1)) \ W : b[q] = Block(q, r)
    [] OTHER -> TRUE

Filled(n, k, r, c, b, W) ==
  IF DownFrom(n, r, c) # {} /\ DownFrom(n, r, c) \cap W = {}
  THEN Whole(n, c, b)
  ELSE Partly(n, k, r, c, b, W)

(***************************************************************************)
(* The data of a message from s to r.                                      *)
(***************************************************************************)
Brings(n, k, s, r, c, data) ==
  IF s \in DownFrom(n, r, c)
  THEN OnRanks(n, data) /\ Whole(n, c, data)
  ELSE CASE c.kind \in {"reduce", "allreduce"} -> data = SumOf(Below(n, k, s, RootOf(c)))
         [] c.kind \in {"gather", "allgather"} -> data = Block(s, 0)
         [] c.kind \in {"scatter", "alltoall"} -> data = Block(s, r)
         [] OTHER -> TRUE

(***************************************************************************)
(* The steps left of a call are in order, and belong to its parts; and as  *)
(* long as one is left of the part before it, the bcast has not begun.     *)
(***************************************************************************)
Ordering(n, k, r, c, s) ==
  /\ InTwo(c) => Phased(s)
  /\ \A i \in 1..Len(s) : Fits(n, k, r, c, s[i])
  /\ (\E i \in 1..Len(s) : Phase(s[i]) <= 2) =>
       \A q \in DownFrom(n, r, c) : Has(s, "await", q)

Waits(n, s) == {p \in 0..(n - 1) : Has(s, "await", p)}

(***************************************************************************)
(* In an allreduce no rank passes MONA_IN_PLACE, which mona_comm_allreduce *)
(* hands on to mona_comm_reduce on ranks that are not its root.            *)
(***************************************************************************)
NoInPlaceSum(p) == \A i \in 1..Len(p) : ~ (p[i].kind = "allreduce" /\ p[i].inplace)

Midway(r) ==
  /\ OnRanks(size, buf[r])
  /\ calls[r] > 0 =>
       /\ Ordering(size, comm.radix, r, Current(r), steps[r])
       /\ Filled(size, comm.radix, r, Current(r), buf[r], Waits(size, steps[r]))

BufferInv ==
  /\ buf = [r \in Ranks |-> buf[r]]
  /\ \A r \in Ranks : Midway(r)

Carries(s, r, m) == Brings(size, comm.radix, s, r, program[m.nth], m.data)

Carried(s, r) ==
  /\ \A i \in 1..Len(chan[s][r]) : Carries(s, r, chan[s][r][i])
  /\ inbox[r][s] # NoMessage => Carries(s, r, inbox[r][s])

MessageInv == \A s, r \in Ranks : Carried(s, r)

ResultInv == NoInPlaceSum(program) /\ BufferInv /\ MessageInv

LEMMA SumOfUnion ==
  ASSUME NEW A, NEW B, A \cap B = {}
  PROVE  SumOf(A) (+) SumOf(B) = SumOf(A \cup B)
<1>1. PICK S, T, U : /\ S = {<<q, 0>> : q \in A} /\ T = {<<q, 0>> : q \in B}
                     /\ U = {<<q, 0>> : q \in A \cup B}
  OBVIOUS
<1>2. U = S \cup T
  BY <1>1
<1>3. S \cap T = {}
  <2> SUFFICES ASSUME NEW e, e \in S, e \in T PROVE FALSE
    OBVIOUS
  <2>1. PICK p \in A : e = <<p, 0>>
    BY <1>1
  <2>2. PICK q \in B : e = <<q, 0>>
    BY <1>1
  <2>3. p = q
    BY <2>1, <2>2
  <2> QED
    BY <2>3
<1>4. PICK X, Y : X = SetToBag(S) /\ Y = SetToBag(T)
  OBVIOUS
<1>5. /\ DOMAIN X = S /\ DOMAIN Y = T
      /\ \A e \in S : X[e] = 1
      /\ \A e \in T : Y[e] = 1
  BY <1>4 DEF SetToBag
<1>6. X (+) Y = [e \in S \cup T |-> (IF e \in S THEN X[e] ELSE 0)
                                       + (IF e \in T THEN Y[e] ELSE 0)]
  BY <1>5 DEF (+)
<1>7. \A e \in S \cup T : (IF e \in S THEN X[e] ELSE 0) + (IF e \in T THEN Y[e] ELSE 0) = 1
  <2> SUFFICES ASSUME NEW e \in S \cup T
               PROVE  (IF e \in S THEN X[e] ELSE 0) + (IF e \in T THEN Y[e] ELSE 0) = 1
    OBVIOUS
  <2>1. CASE e \in S
    <3>1. e \notin T /\ X[e] = 1
      BY <1>3, <1>5, <2>1
    <3> QED
      BY <2>1, <3>1
  <2>2. CASE e \notin S
    <3>1. e \in T /\ Y[e] = 1
      BY <1>5, <2>2
    <3> QED
      BY <2>2, <3>1
  <2> QED
    BY <2>1, <2>2
<1>8. X (+) Y = [e \in S \cup T |-> 1]
  BY <1>6, <1>7
<1>9. QED
  BY <1>1, <1>2, <1>4, <1>8 DEF SumOf, SetToBag

LEMMA SumOfOne ==
  ASSUME NEW r
  PROVE  Block(r, 0) = SumOf({r})
BY DEF Block, SumOf

-----------------------------------------------------------------------------
(***************************************************************************)
(* The order of the steps that are left.                                   *)
(***************************************************************************)
LEMMA OrderingFirst ==
  ASSUME NEW n \in Nat \ {0, 1}, NEW k \in Nat \ {0, 1}, NEW r \in 0..(n - 1),
         NEW c, IsCall(n, c)
  PROVE  Ordering(n, k, r, c, Schedule(n, k, r, c))
<1>1. PICK s : s = Schedule(n, k, r, c)
  OBVIOUS
<1>2. /\ InTwo(c) => Phased(s)
      /\ \A i \in 1..Len(s) : Fits(n, k, r, c, s[i])
  BY <1>1, ScheduleInOrder
<1>3. \A q \in DownFrom(n, r, c) : Has(s, "await", q)
  <2> SUFFICES ASSUME NEW q \in DownFrom(n, r, c)
               PROVE  Has(s, "await", q)
    OBVIOUS
  <2>1. q \in From(n, k, r, c)
    BY PartsOfCall
  <2> QED
    BY <1>1, <2>1, ScheduleExchange DEF Exchange
<1>4. QED
  BY <1>1, <1>2, <1>3 DEF Ordering

LEMMA DownInTwo ==
  ASSUME NEW n, NEW r, NEW c, DownFrom(n, r, c) # {} \/ DownTo(n, r, c) # {}
  PROVE  InTwo(c) /\ c.kind \in {"bcast", "allreduce", "allgather"}
BY DEF DownFrom, DownTo, InTwo

(***************************************************************************)
(* What a step at the head says of those that are left.                    *)
(***************************************************************************)
LEMMA HeadFirst ==
  ASSUME NEW D, NEW s \in Seq(D), s # << >>
  PROVE  /\ Head(s) = s[1] /\ 1 \in 1..Len(s)
         /\ Tail(s) \in Seq(D)
         /\ \A i \in 1..Len(Tail(s)) : Tail(s)[i] = s[i + 1] /\ i + 1 \in 1..Len(s)
<1>1. Len(s) \in Nat \ {0}
  BY EmptySeq
<1>2. Head(s) = s[1]
  BY <1>1
<1>3. Tail(s) \in Seq(D) /\ Len(Tail(s)) = Len(s) - 1
  BY HeadTailProperties
<1>4. \A i \in 1..Len(Tail(s)) : Tail(s)[i] = s[i + 1]
  BY <1>1, <1>3, HeadTailProperties
<1>5. \A i \in 1..Len(Tail(s)) : i + 1 \in 1..Len(s)
  BY <1>1, <1>3
<1> QED
  BY <1>1, <1>2, <1>3, <1>4, <1>5

LEMMA HeadPhase ==
  ASSUME NEW D, NEW s \in Seq(D), s # << >>, Phased(s)
  PROVE  \A i \in 1..Len(s) : Phase(Head(s)) <= Phase(s[i])
<1>1. Head(s) = s[1] /\ 1 \in 1..Len(s)
  BY HeadFirst
<1>2. Phase(s[1]) \in Nat
  BY PhaseIs
<1> SUFFICES ASSUME NEW i \in 1..Len(s)
             PROVE  Phase(s[1]) <= Phase(s[i])
  BY <1>1
<1>3. CASE i = 1
  BY <1>2, <1>3
<1>4. CASE i # 1
  <2>1. 1 < i
    BY <1>4
  <2> QED
    BY <1>1, <2>1 DEF Phased
<1> QED
  BY <1>3, <1>4

LEMMA FitsPhase ==
  ASSUME NEW n, NEW k, NEW r, NEW c, NEW x, Fits(n, k, r, c, x)
  PROVE  /\ x.do \in {"post", "await"} =>
              \/ Phase(x) = 1 /\ x.of = PartOf(c) /\ x.of # "bcast" /\ x.peer \in UpFrom(n, k, r, c)
              \/ Phase(x) = 3 /\ x.of = "bcast" /\ x.peer \in DownFrom(n, r, c)
         /\ x.do \in {"start", "finish"} =>
              \/ Phase(x) = 2 /\ x.of = PartOf(c) /\ x.of # "bcast" /\ x.peer \in UpTo(n, k, r, c)
              \/ Phase(x) = 4 /\ x.of = "bcast" /\ x.peer \in DownTo(n, r, c)
BY PhaseIs DEF Fits, Between

LEMMA WaitsPhase ==
  ASSUME NEW n, NEW k, NEW r, NEW c, NEW s, Ordering(n, k, r, c, s), NEW p, Has(s, "await", p)
  PROVE  \E i \in 1..Len(s) :
           \/ Phase(s[i]) = 1 /\ p \in UpFrom(n, k, r, c)
           \/ Phase(s[i]) = 3 /\ p \in DownFrom(n, r, c)
<1>1. PICK i \in 1..Len(s) : s[i].do = "await" /\ s[i].peer = p
  BY DEF Has
<1>2. Fits(n, k, r, c, s[i]) /\ s[i].do \in {"post", "await"}
  BY <1>1 DEF Ordering
<1>3. \/ Phase(s[i]) = 1 /\ p \in UpFrom(n, k, r, c)
      \/ Phase(s[i]) = 3 /\ p \in DownFrom(n, r, c)
  BY <1>1, <1>2, FitsPhase
<1> QED
  BY <1>3

LEMMA OrderingTail ==
  ASSUME NEW n \in Nat \ {0, 1}, NEW k \in Nat \ {0, 1}, NEW r \in 0..(n - 1),
         NEW c, IsCall(n, c),
         NEW D, NEW s \in Seq(D), s # << >>, Once(s), Ordering(n, k, r, c, s),
         NEW t, t = Tail(s)
  PROVE  Ordering(n, k, r, c, t)
<1>1. /\ Head(s) = s[1] /\ 1 \in 1..Len(s) /\ t \in Seq(D)
      /\ \A i \in 1..Len(t) : t[i] = s[i + 1] /\ i + 1 \in 1..Len(s)
  BY HeadFirst
<1>2. \A i \in 1..Len(t) : Fits(n, k, r, c, t[i])
  BY <1>1 DEF Ordering
<1>3. ASSUME InTwo(c) PROVE Phased(t)
  <2>1. Phased(s)
    BY <1>3 DEF Ordering
  <2> SUFFICES ASSUME NEW i \in 1..Len(t), NEW j \in 1..Len(t), i < j
               PROVE  Phase(t[i]) <= Phase(t[j])
    BY DEF Phased
  <2>2. i + 1 < j + 1
    OBVIOUS
  <2>3. t[i] = s[i + 1] /\ t[j] = s[j + 1] /\ i + 1 \in 1..Len(s) /\ j + 1 \in 1..Len(s)
    BY <1>1
  <2>4. Phase(s[i + 1]) <= Phase(s[j + 1])
    BY <2>1, <2>2, <2>3 DEF Phased
  <2> QED
    BY <2>3, <2>4
<1>4. ASSUME NEW i \in 1..Len(t), Phase(t[i]) <= 2, NEW q \in DownFrom(n, r, c)
      PROVE  Has(t, "await", q)
  <2>1. t[i] = s[i + 1] /\ i + 1 \in 1..Len(s)
    BY <1>1
  <2>2. Has(s, "await", q)
    BY <1>4, <2>1 DEF Ordering
  <2>3. InTwo(c)
    BY <1>4, DownInTwo
  <2>4. Phase(Head(s)) <= Phase(s[i + 1])
    BY <2>1, <2>3, HeadPhase DEF Ordering
  <2>5. Phase(Head(s)) <= 2
    BY <1>4, <2>1, <2>4, PhaseIs
  <2>6. ~ ("await" = Head(s).do /\ q = Head(s).peer)
    <3> SUFFICES ASSUME "await" = Head(s).do, q = Head(s).peer
                 PROVE  FALSE
      OBVIOUS
    <3>1. Fits(n, k, r, c, Head(s)) /\ Head(s).do \in {"post", "await"}
      BY <1>1 DEF Ordering
    <3>2. q \in UpFrom(n, k, r, c)
      BY <2>5, <3>1, FitsPhase
    <3> QED
      BY <1>4, <3>2, PartsOfCall
  <2>7. Has(t, "await", q) <=> Has(s, "await", q) /\ ~ ("await" = Head(s).do /\ q = Head(s).peer)
    BY TailSteps
  <2> QED
    BY <2>2, <2>6, <2>7
<1>5. QED
  BY <1>2, <1>3, <1>4 DEF Ordering

-----------------------------------------------------------------------------
(***************************************************************************)
(* The buffers.  First after the copies from the send buffer, when a rank  *)
(* waits for all that send to it.                                          *)
(***************************************************************************)
LEMMA RootOfCall ==
  ASSUME NEW n \in Nat \ {0, 1}, NEW c, IsCall(n, c)
  PROVE  RootOf(c) \in 0..(n - 1) /\ 0 \in 0..(n - 1)
BY DEF IsCall, RootOf

LEMMA FirstBuffer ==
  ASSUME NEW r \in Ranks, NEW c, IsCall(size, c), size \in Nat \ {0, 1},
         comm.radix \in Nat \ {0, 1}, ~ (c.kind = "allreduce" /\ c.inplace)
  PROVE  /\ OnRanks(size, InitialBuf(r, c))
         /\ Partly(size, comm.radix, r, c, InitialBuf(r, c), From(size, comm.radix, r, c))
<1>1. PICK n \in Nat \ {0, 1}, k \in Nat \ {0, 1} : n = size /\ k = comm.radix
  OBVIOUS
<1>2. PICK b, W : b = InitialBuf(r, c) /\ W = From(n, k, r, c)
  OBVIOUS
<1>3. Ranks = 0..(n - 1) /\ r \in 0..(n - 1) /\ 0 \in 0..(n - 1)
  BY <1>1 DEF Ranks
<1>4. SUFFICES b = [i \in Ranks |-> b[i]] /\ Partly(n, k, r, c, b, W)
  BY <1>1, <1>2, <1>3 DEF OnRanks
<1>5. CASE c.kind = "barrier"
  <2>1. b = [j \in Ranks |-> IF j = 0 THEN Unset ELSE Unset]
    BY <1>2, <1>5 DEF InitialBuf
  <2> QED
    BY <1>5, <2>1 DEF Partly
<1>6. CASE c.kind = "bcast"
  <2>1. b = [j \in Ranks |-> IF j = 0 THEN IF r = c.root THEN Block(r, 0) ELSE Unset ELSE Unset]
    BY <1>2, <1>6 DEF InitialBuf
  <2>2. r = c.root => b[0] = Block(c.root, 0)
    BY <1>3, <2>1
  <2>3. Partly(n, k, r, c, b, W)
    BY <1>6, <2>2 DEF Partly
  <2> QED
    BY <2>1, <2>3
<1>7. CASE c.kind \in {"reduce", "allreduce"}
  <2>1. b = [j \in Ranks |-> IF j = 0 THEN FirstValue(r, c) ELSE Unset]
    BY <1>2, <1>7 DEF InitialBuf
  <2>2. FirstValue(r, c) = Block(r, 0)
    BY <1>7 DEF FirstValue
  <2>3. RootOf(c) \in 0..(n - 1)
    BY <1>1, RootOfCall
  <2>4. ReduceFrom(n, k, r, RootOf(c)) \subseteq W
    BY <1>2, <1>7 DEF From, RootOf
  <2>5. Combined(n, k, r, RootOf(c), W) = {r}
    BY <1>3, <2>3, <2>4, CombinedIs
  <2>6. b[0] = SumOf(Combined(n, k, r, RootOf(c), W))
    BY <1>3, <2>1, <2>2, <2>5, SumOfOne
  <2>7. Partly(n, k, r, c, b, W)
    BY <1>7, <2>6 DEF Partly
  <2> QED
    BY <2>1, <2>7
<1>8. CASE c.kind \in {"gather", "allgather"}
  <2>1. b = [j \in Ranks |-> IF j = r THEN IF r = RootOf(c) THEN Block(r, 0) ELSE Unset ELSE Unset]
    BY <1>2, <1>8 DEF InitialBuf, RootOf
  <2>2. ASSUME r = RootOf(c), NEW q \in (0..(n - 1)) \ (c.empty \cup W)
        PROVE  b[q] = Block(q, 0)
    <3>1. GatherFrom(n, r, RootOf(c), c.empty) \subseteq W
      BY <1>2, <1>8 DEF From, RootOf
    <3>2. (0..(n - 1)) \ ({r} \cup c.empty) \subseteq W
      BY <2>2, <3>1 DEF GatherFrom
    <3>3. q = r
      BY <2>2, <3>2
    <3> QED
      BY <1>3, <2>1, <2>2, <3>3
  <2>3. Partly(n, k, r, c, b, W)
    BY <1>8, <2>2 DEF Partly
  <2> QED
    BY <2>1, <2>3
<1>9. CASE c.kind = "scatter"
  <2>1. b = [j \in Ranks |-> IF j = 0 THEN IF r = c.root THEN Block(r, r) ELSE Unset ELSE Unset]
    BY <1>2, <1>9 DEF InitialBuf
  <2>2. ASSUME c.root \notin W
        PROVE  b[0] = Block(c.root, r)
    <3>1. W = ScatterFrom(n, r, c.root)
      BY <1>2, <1>9 DEF From
    <3>2. r = c.root
      BY <2>2, <3>1 DEF ScatterFrom
    <3> QED
      BY <1>3, <2>1, <3>2
  <2>3. Partly(n, k, r, c, b, W)
    BY <1>9, <2>2 DEF Partly
  <2> QED
    BY <2>1, <2>3
<1>10. CASE c.kind = "alltoall"
  <2>1. b = [j \in Ranks |-> IF j = r THEN Block(r, r) ELSE Unset]
    BY <1>2, <1>10 DEF InitialBuf
  <2>2. ASSUME NEW q \in (0..(n - 1)) \ W
        PROVE  b[q] = Block(q, r)
    <3>1. W = (0..(n - 1)) \ {r}
      BY <1>2, <1>10 DEF From, Others
    <3>2. q = r
      BY <3>1
    <3> QED
      BY <1>3, <2>1, <3>2
  <2>3. Partly(n, k, r, c, b, W)
    BY <1>10, <2>2 DEF Partly
  <2> QED
    BY <2>1, <2>3
<1>11. QED
  BY <1>5, <1>6, <1>7, <1>8, <1>9, <1>10 DEF IsCall

(***************************************************************************)
(* When a rank at the top of the bcast waits for nothing any more, its     *)
(* buffer is what the bcast hands on.                                      *)
(***************************************************************************)
LEMMA TopIsWhole ==
  ASSUME NEW n \in Nat \ {0, 1}, NEW k \in Nat \ {0, 1}, NEW r \in 0..(n - 1),
         NEW c, IsCall(n, c), NEW b, DownFrom(n, r, c) = {}, Partly(n, k, r, c, b, {}),
         c.kind \in {"bcast", "allreduce", "allgather"}
  PROVE  Whole(n, c, b)
<1>1. RootOf(c) \in 0..(n - 1) /\ 0 \in 0..(n - 1)
  BY RootOfCall
<1>2. BcastFrom(n, r, RootOf(c)) = {}
  BY DEF DownFrom, RootOf
<1>3. r = RootOf(c)
  <2>1. Relative(n, r, RootOf(c)) = 0
    BY <1>2 DEF BcastFrom
  <2> QED
    BY <1>1, <2>1, RelativeIs
<1>4. CASE c.kind = "bcast"
  BY <1>3, <1>4 DEF Partly, Whole, RootOf
<1>5. CASE c.kind = "allreduce"
  <2>1. b[0] = SumOf(Combined(n, k, r, RootOf(c), {}))
    BY <1>5 DEF Partly
  <2>2. Combined(n, k, r, RootOf(c), {}) = Below(n, k, r, RootOf(c))
    <3>1. ReduceFrom(n, k, r, RootOf(c)) \cap {} = {}
      OBVIOUS
    <3> QED
      BY <1>1, <3>1, CombinedIs
  <2>3. Below(n, k, r, RootOf(c)) = 0..(n - 1)
    BY <1>1, <1>3, BelowRoot
  <2> QED
    BY <1>5, <2>1, <2>2, <2>3 DEF Whole
<1>6. CASE c.kind = "allgather"
  <2>1. \A q \in (0..(n - 1)) \ (c.empty \cup {}) : b[q] = Block(q, 0)
    BY <1>3, <1>6 DEF Partly
  <2>2. \A q \in (0..(n - 1)) \ c.empty : b[q] = Block(q, 0)
    BY <2>1
  <2> QED
    BY <1>6, <2>2 DEF Whole
<1>7. QED
  BY <1>4, <1>5, <1>6

(***************************************************************************)
(* What Stored makes of a buffer b.                                        *)
(***************************************************************************)
Stow(b, p, of, data) ==
  CASE of = "barrier" -> b
    [] of = "bcast" -> data
    [] of = "reduce" -> [b EXCEPT ![0] = b[0] (+) data]
    [] of = "scatter" -> [b EXCEPT ![0] = data]
    [] of \in {"gather", "alltoall"} -> [b EXCEPT ![p] = data]

LEMMA StoredIs ==
  ASSUME NEW r, NEW p, NEW of, NEW data
  PROVE  Stored(r, p, of, data) = Stow(buf[r], p, of, data)
BY DEF Stored, Stow

LEMMA PartFills ==
  ASSUME NEW n \in Nat \ {0, 1}, NEW k \in Nat \ {0, 1}, NEW r \in 0..(n - 1),
         NEW c, IsCall(n, c), NEW p \in 0..(n - 1), p \in UpFrom(n, k, r, c),
         NEW W, p \in W, NEW b, OnRanks(n, b), Partly(n, k, r, c, b, W),
         NEW data, Brings(n, k, p, r, c, data), NEW d, d = Stow(b, p, PartOf(c), data)
  PROVE  OnRanks(n, d) /\ Partly(n, k, r, c, d, W \ {p})
<1> SUFFICES d = [i \in 0..(n - 1) |-> d[i]] /\ Partly(n, k, r, c, d, W \ {p})
  BY DEF OnRanks
<1>1. p \notin DownFrom(n, r, c)
  BY PartsOfCall
<1>2. RootOf(c) \in 0..(n - 1) /\ 0 \in 0..(n - 1)
  BY RootOfCall
<1>3. DOMAIN b = 0..(n - 1)
  BY DEF OnRanks
<1>4. \A i \in 0..(n - 1) : \A x : /\ [b EXCEPT ![i] = x] = [j \in 0..(n - 1) |-> [b EXCEPT ![i] = x][j]]
                                   /\ [b EXCEPT ![i] = x][i] = x
                                   /\ \A j \in 0..(n - 1) : j # i => [b EXCEPT ![i] = x][j] = b[j]
  BY <1>3
<1>5. CASE c.kind = "barrier"
  <2>1. d = b
    BY <1>5 DEF Stow, PartOf
  <2> QED
    BY <1>5, <2>1 DEF Partly, OnRanks
<1>6. CASE c.kind = "bcast"
  BY <1>6 DEF UpFrom
<1>7. CASE c.kind \in {"reduce", "allreduce"}
  <2>1. PICK A, B : A = Combined(n, k, r, RootOf(c), W) /\ B = Below(n, k, p, RootOf(c))
    OBVIOUS
  <2>2. p \in ReduceFrom(n, k, r, RootOf(c))
    BY <1>7 DEF UpFrom, RootOf
  <2>3. Combined(n, k, r, RootOf(c), W \ {p}) = A \cup B /\ A \cap B = {}
    BY <1>2, <2>1, <2>2, CombinedMore
  <2>4. b[0] = SumOf(A) /\ data = SumOf(B)
    BY <1>1, <1>7, <2>1 DEF Partly, Brings
  <2>5. d = [b EXCEPT ![0] = b[0] (+) data]
    BY <1>7 DEF Stow, PartOf
  <2>6. d[0] = b[0] (+) data /\ d = [i \in 0..(n - 1) |-> d[i]]
    BY <1>2, <1>4, <2>5
  <2>7. d[0] = SumOf(A \cup B)
    BY <2>3, <2>4, <2>6, SumOfUnion
  <2>8. Partly(n, k, r, c, d, W \ {p})
    BY <1>7, <2>3, <2>7 DEF Partly
  <2> QED
    BY <2>6, <2>8
<1>8. CASE c.kind \in {"gather", "allgather"}
  <2>1. d = [b EXCEPT ![p] = data]
    BY <1>8 DEF Stow, PartOf
  <2>2. data = Block(p, 0)
    BY <1>1, <1>8 DEF Brings
  <2>3. /\ d[p] = data /\ d = [i \in 0..(n - 1) |-> d[i]]
        /\ \A q \in 0..(n - 1) : q # p => d[q] = b[q]
    BY <1>4, <2>1
  <2>4. r = RootOf(c) => \A q \in (0..(n - 1)) \ (c.empty \cup W) : b[q] = Block(q, 0)
    BY <1>8 DEF Partly
  <2>5. r = RootOf(c) => \A q \in (0..(n - 1)) \ (c.empty \cup (W \ {p})) : d[q] = Block(q, 0)
    BY <2>2, <2>3, <2>4
  <2>6. Partly(n, k, r, c, d, W \ {p})
    BY <1>8, <2>5 DEF Partly
  <2> QED
    BY <2>3, <2>6
<1>9. CASE c.kind = "scatter"
  <2>1. d = [b EXCEPT ![0] = data]
    BY <1>9 DEF Stow, PartOf
  <2>2. data = Block(p, r)
    BY <1>1, <1>9 DEF Brings
  <2>3. d[0] = data /\ d = [i \in 0..(n - 1) |-> d[i]]
    BY <1>2, <1>4, <2>1
  <2>4. p = c.root
    BY <1>9 DEF UpFrom, ScatterFrom
  <2>5. Partly(n, k, r, c, d, W \ {p})
    BY <1>9, <2>2, <2>3, <2>4 DEF Partly
  <2> QED
    BY <2>3, <2>5
<1>10. CASE c.kind = "alltoall"
  <2>1. d = [b EXCEPT ![p] = data]
    BY <1>10 DEF Stow, PartOf
  <2>2. data = Block(p, r)
    BY <1>1, <1>10 DEF Brings
  <2>3. /\ d[p] = data /\ d = [i \in 0..(n - 1) |-> d[i]]
        /\ \A q \in 0..(n - 1) : q # p => d[q] = b[q]
    BY <1>4, <2>1
  <2>4. \A q \in (0..(n - 1)) \ W : b[q] = Block(q, r)
    BY <1>10 DEF Partly
  <2>5. \A q \in (0..(n - 1)) \ (W \ {p}) : d[q] = Block(q, r)
    BY <2>2, <2>3, <2>4
  <2>6. Partly(n, k, r, c, d, W \ {p})
    BY <1>10, <2>5 DEF Partly
  <2> QED
    BY <2>3, <2>6
<1>11. QED
  BY <1>5, <1>6, <1>7, <1>8, <1>9, <1>10 DEF IsCall

-----------------------------------------------------------------------------
(***************************************************************************)
(* The wait for a receive.                                                 *)
(***************************************************************************)
LEMMA WaitsIs ==
  ASSUME NEW n, NEW s, NEW p
  PROVE  p \in Waits(n, s) <=> p \in 0..(n - 1) /\ Has(s, "await", p)
BY DEF Waits

LEMMA DownIn ==
  ASSUME NEW n \in Nat \ {0, 1}, NEW k \in Nat \ {0, 1}, NEW r \in 0..(n - 1),
         NEW c, IsCall(n, c)
  PROVE  DownFrom(n, r, c) \subseteq 0..(n - 1) /\ UpFrom(n, k, r, c) \subseteq 0..(n - 1)
<1>1. From(n, k, r, c) \subseteq 0..(n - 1)
  BY ScheduleExchange DEF Exchange
<1>2. From(n, k, r, c) = UpFrom(n, k, r, c) \cup DownFrom(n, r, c)
  BY PartsOfCall
<1>3. QED
  BY <1>1, <1>2

LEMMA AwaitFills ==
  ASSUME NEW n \in Nat \ {0, 1}, NEW k \in Nat \ {0, 1}, NEW r \in 0..(n - 1),
         NEW c, IsCall(n, c),
         NEW D, NEW s \in Seq(D), s # << >>, Once(s), Ordering(n, k, r, c, s),
         Head(s).do = "await", NEW p \in 0..(n - 1), p = Head(s).peer,
         NEW b, OnRanks(n, b), Filled(n, k, r, c, b, Waits(n, s)),
         NEW data, Brings(n, k, p, r, c, data), NEW d, d = Stow(b, p, Head(s).of, data),
         NEW t, t = Tail(s)
  PROVE  OnRanks(n, d) /\ Filled(n, k, r, c, d, Waits(n, t))
<1>1. PICK W, V, F : W = Waits(n, s) /\ V = Waits(n, t) /\ F = DownFrom(n, r, c)
  OBVIOUS
<1>2. /\ Has(s, "await", p)
      /\ \A q : Has(t, "await", q) <=> Has(s, "await", q) /\ ~ (q = p)
  <2>1. /\ Has(s, Head(s).do, Head(s).peer)
        /\ \A a, q : Has(t, a, q) <=> Has(s, a, q) /\ ~ (a = Head(s).do /\ q = Head(s).peer)
    BY TailSteps
  <2> QED
    BY <2>1
<1>3. p \in W /\ V = W \ {p}
  <2>1. \A q : /\ q \in W <=> q \in 0..(n - 1) /\ Has(s, "await", q)
               /\ q \in V <=> q \in 0..(n - 1) /\ Has(t, "await", q)
    BY <1>1, WaitsIs
  <2> QED
    BY <1>2, <2>1
<1>4. F \subseteq 0..(n - 1) /\ \A x, y \in F : x = y
  BY <1>1, DownIn, PartsOfCall
<1>5. Head(s) = s[1] /\ 1 \in 1..Len(s)
  BY HeadFirst
<1>6. Fits(n, k, r, c, Head(s))
  BY <1>5 DEF Ordering
<1>7. \/ /\ Phase(Head(s)) = 1 /\ Head(s).of = PartOf(c) /\ Head(s).of # "bcast"
         /\ p \in UpFrom(n, k, r, c)
      \/ Phase(Head(s)) = 3 /\ Head(s).of = "bcast" /\ p \in F
  BY <1>1, <1>6, FitsPhase
<1>8. CASE Head(s).of = "bcast" /\ p \in F
  <2>1. d = data
    BY <1>8 DEF Stow
  <2>2. OnRanks(n, data) /\ Whole(n, c, data)
    BY <1>1, <1>8 DEF Brings
  <2>3. F # {} /\ F \cap V = {}
    BY <1>3, <1>4, <1>8
  <2> QED
    BY <1>1, <2>1, <2>2, <2>3 DEF Filled
<1>9. CASE Phase(Head(s)) = 1 /\ Head(s).of = PartOf(c) /\ p \in UpFrom(n, k, r, c)
  <2>1. \A q \in F : Has(s, "await", q)
    BY <1>1, <1>5, <1>9 DEF Ordering
  <2>2. F \subseteq W
    BY <1>1, <1>4, <2>1, WaitsIs
  <2>3. p \notin F
    BY <1>1, <1>9, PartsOfCall
  <2>4. ~ (F # {} /\ F \cap W = {}) /\ ~ (F # {} /\ F \cap V = {})
    BY <1>3, <2>2, <2>3
  <2>5. Partly(n, k, r, c, b, W)
    BY <1>1, <2>4 DEF Filled
  <2>6. d = Stow(b, p, PartOf(c), data)
    BY <1>9
  <2>7. OnRanks(n, d) /\ Partly(n, k, r, c, d, W \ {p})
    <3>1. p \in UpFrom(n, k, r, c) /\ p \in W
      BY <1>3, <1>9
    <3> QED
      BY <2>5, <2>6, <3>1, PartFills
  <2> QED
    BY <1>1, <1>3, <2>4, <2>7 DEF Filled
<1>10. QED
  BY <1>7, <1>8, <1>9

(***************************************************************************)
(* The start of a send: what goes from a buffer b.                         *)
(***************************************************************************)
Given(b, r, p, of) ==
  CASE of = "barrier" -> Unset
    [] of = "bcast" -> b
    [] of = "reduce" -> b[0]
    [] of = "gather" -> Block(r, 0)
    [] of \in {"scatter", "alltoall"} -> Block(r, p)

LEMMA SentIs ==
  ASSUME NEW r, NEW p, NEW of
  PROVE  Sent(r, p, of) = Given(buf[r], r, p, of)
BY DEF Sent, Given

LEMMA StartBrings ==
  ASSUME NEW n \in Nat \ {0, 1}, NEW k \in Nat \ {0, 1}, NEW r \in 0..(n - 1),
         NEW c, IsCall(n, c),
         NEW D, NEW s \in Seq(D), s # << >>, Ordering(n, k, r, c, s),
         Head(s).do = "start", NEW p \in 0..(n - 1), p = Head(s).peer,
         NEW b, OnRanks(n, b), Filled(n, k, r, c, b, Waits(n, s)),
         NEW data, data = Given(b, r, p, Head(s).of)
  PROVE  Brings(n, k, r, p, c, data)
<1>1. PICK W, F, U : W = Waits(n, s) /\ F = DownFrom(n, r, c) /\ U = UpFrom(n, k, r, c)
  OBVIOUS
<1>2. Head(s) = s[1] /\ 1 \in 1..Len(s)
  BY HeadFirst
<1>3. Fits(n, k, r, c, Head(s))
  BY <1>2 DEF Ordering
<1>4. \/ /\ Phase(Head(s)) = 2 /\ Head(s).of = PartOf(c) /\ Head(s).of # "bcast"
         /\ p \in UpTo(n, k, r, c)
      \/ Phase(Head(s)) = 4 /\ Head(s).of = "bcast" /\ p \in DownTo(n, r, c)
  BY <1>3, FitsPhase
<1>5. InTwo(c) => \A i \in 1..Len(s) : Phase(Head(s)) <= Phase(s[i])
  <2>1. InTwo(c) => Phased(s)
    BY DEF Ordering
  <2> QED
    BY <2>1, HeadPhase
<1>6. \A q \in W : \E i \in 1..Len(s) : (Phase(s[i]) = 1 /\ q \in U) \/ (Phase(s[i]) = 3 /\ q \in F)
  BY <1>1, WaitsIs, WaitsPhase
<1>7. CASE Phase(Head(s)) = 4 /\ Head(s).of = "bcast" /\ p \in DownTo(n, r, c)
  <2>1. InTwo(c) /\ c.kind \in {"bcast", "allreduce", "allgather"}
    BY <1>7, DownInTwo
  <2>2. W = {}
    BY <1>5, <1>6, <1>7, <2>1
  <2>3. r \in DownFrom(n, p, c)
    BY <1>7, PartsPaired
  <2>4. data = b
    BY <1>7 DEF Given
  <2>5. Whole(n, c, b)
    <3>1. CASE F = {}
      <4>1. Partly(n, k, r, c, b, {})
        BY <1>1, <2>2, <3>1 DEF Filled
      <4> QED
        BY <1>1, <2>1, <3>1, <4>1, TopIsWhole
    <3>2. CASE F # {}
      BY <1>1, <2>2, <3>2 DEF Filled
    <3> QED
      BY <3>1, <3>2
  <2> QED
    BY <2>3, <2>4, <2>5 DEF Brings
<1>8. CASE /\ Phase(Head(s)) = 2 /\ Head(s).of = PartOf(c) /\ Head(s).of # "bcast"
           /\ p \in UpTo(n, k, r, c)
  <2>1. r \notin DownFrom(n, p, c)
    <3>1. r \in UpFrom(n, k, p, c)
      BY <1>8, PartsPaired
    <3> QED
      BY <3>1, PartsOfCall
  <2>2. CASE c.kind = "barrier"
    BY <2>1, <2>2 DEF Brings
  <2>3. CASE c.kind = "bcast"
    BY <1>8, <2>3 DEF PartOf
  <2>4. CASE c.kind \in {"gather", "allgather"}
    BY <1>8, <2>1, <2>4 DEF Brings, PartOf, Given
  <2>5. CASE c.kind \in {"scatter", "alltoall"}
    BY <1>8, <2>1, <2>5 DEF Brings, PartOf, Given
  <2>6. CASE c.kind \in {"reduce", "allreduce"}
    <3>1. InTwo(c)
      BY <2>6 DEF InTwo
    <3>2. U \cap F = {} /\ F \subseteq 0..(n - 1)
      BY <1>1, PartsOfCall, DownIn
    <3>3. U \cap W = {}
      BY <1>5, <1>6, <1>8, <3>1, <3>2
    <3>4. \A q \in F : Has(s, "await", q)
      BY <1>1, <1>2, <1>8 DEF Ordering
    <3>5. F \subseteq W
      BY <1>1, <3>2, <3>4, WaitsIs
    <3>6. Partly(n, k, r, c, b, W)
      BY <1>1, <3>5 DEF Filled
    <3>7. b[0] = SumOf(Combined(n, k, r, RootOf(c), W))
      BY <2>6, <3>6 DEF Partly
    <3>8. U = ReduceFrom(n, k, r, RootOf(c))
      BY <1>1, <2>6 DEF UpFrom, RootOf
    <3>9. RootOf(c) \in 0..(n - 1)
      BY RootOfCall
    <3>10. Combined(n, k, r, RootOf(c), W) = Below(n, k, r, RootOf(c))
      BY <3>3, <3>8, <3>9, CombinedIs
    <3>11. data = b[0]
      BY <1>8, <2>6 DEF PartOf, Given
    <3> QED
      BY <2>1, <2>6, <3>7, <3>10, <3>11 DEF Brings
  <2>7. c.kind \in {"barrier", "bcast", "reduce", "allreduce", "gather", "allgather", "scatter", "alltoall"}
    BY DEF IsCall
  <2> QED
    BY <2>2, <2>3, <2>4, <2>5, <2>6, <2>7
<1>9. QED
  BY <1>4, <1>7, <1>8

(***************************************************************************)
(* A rank that waits for nothing has what the call means.                  *)
(***************************************************************************)
Means(n, r, c, b) ==
  CASE c.kind = "barrier"   -> TRUE
    [] c.kind = "bcast"     -> b[0] = Block(c.root, 0)
    [] c.kind = "reduce"    -> r = c.root => b[0] = SumOf(0..(n - 1))
    [] c.kind = "allreduce" -> b[0] = SumOf(0..(n - 1))
    [] c.kind = "gather"    -> r = c.root => \A q \in (0..(n - 1)) \ c.empty : b[q] = Block(q, 0)
    [] c.kind = "allgather" -> \A q \in (0..(n - 1)) \ c.empty : b[q] = Block(q, 0)
    [] c.kind = "scatter"   -> b[0] = Block(c.root, r)
    [] c.kind = "alltoall"  -> \A q \in 0..(n - 1) : b[q] = Block(q, r)

LEMMA FilledMeans ==
  ASSUME NEW n \in Nat \ {0, 1}, NEW k \in Nat \ {0, 1}, NEW r \in 0..(n - 1),
         NEW c, IsCall(n, c), NEW b, Filled(n, k, r, c, b, {})
  PROVE  Means(n, r, c, b)
<1>1. PICK F : F = DownFrom(n, r, c)
  OBVIOUS
<1>2. F # {} => Whole(n, c, b)
  BY <1>1 DEF Filled
<1>3. F = {} => Partly(n, k, r, c, b, {})
  BY <1>1 DEF Filled
<1>4. RootOf(c) \in 0..(n - 1)
  BY RootOfCall
<1>5. CASE c.kind \in {"bcast", "allreduce", "allgather"}
  <2>1. Whole(n, c, b)
    BY <1>1, <1>2, <1>3, <1>5, TopIsWhole
  <2> QED
    BY <1>5, <2>1 DEF Whole, Means
<1>6. CASE c.kind = "reduce"
  <2>1. Partly(n, k, r, c, b, {})
    BY <1>1, <1>3, <1>6 DEF DownFrom
  <2>2. b[0] = SumOf(Combined(n, k, r, RootOf(c), {}))
    BY <1>6, <2>1 DEF Partly
  <2>3. ReduceFrom(n, k, r, RootOf(c)) \cap {} = {}
    OBVIOUS
  <2>4. Combined(n, k, r, RootOf(c), {}) = Below(n, k, r, RootOf(c))
    BY <1>4, <2>3, CombinedIs
  <2>5. RootOf(c) = c.root
    BY <1>6 DEF RootOf
  <2>6. Below(n, k, RootOf(c), RootOf(c)) = 0..(n - 1)
    BY <1>4, BelowRoot
  <2> QED
    BY <1>6, <2>2, <2>4, <2>5, <2>6 DEF Means
<1>7. CASE c.kind = "gather"
  <2>1. Partly(n, k, r, c, b, {})
    BY <1>1, <1>3, <1>7 DEF DownFrom
  <2>2. r = RootOf(c) => \A q \in (0..(n - 1)) \ (c.empty \cup {}) : b[q] = Block(q, 0)
    BY <1>7, <2>1 DEF Partly
  <2>3. r = c.root => \A q \in (0..(n - 1)) \ c.empty : b[q] = Block(q, 0)
    BY <1>7, <2>2 DEF RootOf
  <2> QED
    BY <1>7, <2>3 DEF Means
<1>8. CASE c.kind = "scatter"
  <2>1. Partly(n, k, r, c, b, {})
    BY <1>1, <1>3, <1>8 DEF DownFrom
  <2> QED
    BY <1>8, <2>1 DEF Partly, Means
<1>9. CASE c.kind = "alltoall"
  <2>1. Partly(n, k, r, c, b, {})
    BY <1>1, <1>3, <1>9 DEF DownFrom
  <2>2. \A q \in (0..(n - 1)) \ {} : b[q] = Block(q, r)
    BY <1>9, <2>1 DEF Partly
  <2>3. \A q \in 0..(n - 1) : b[q] = Block(q, r)
    BY <2>2
  <2> QED
    BY <1>9, <2>3 DEF Means
<1>10. CASE c.kind = "barrier"
  BY <1>10 DEF Means
<1>11. QED
  BY <1>5, <1>6, <1>7, <1>8, <1>9, <1>10 DEF IsCall

-----------------------------------------------------------------------------
(***************************************************************************)
(* ResultInv is inductive, given IndInv.                                   *)
(***************************************************************************)
LEMMA MidwaySame ==
  ASSUME NEW r, Midway(r), comm' = comm, program' = program, calls'[r] = calls[r],
         steps'[r] = steps[r], buf'[r] = buf[r]
  PROVE  Midway(r)'
BY DEF Midway, Current, size

LEMMA CarriedThen ==
  ASSUME NEW s, NEW r, NEW m, NEW x, comm' = comm, program' = program,
         chan'[s][r] = m, inbox'[r][s] = x,
         \A i \in 1..Len(m) : Carries(s, r, m[i]), x # NoMessage => Carries(s, r, x)
  PROVE  Carried(s, r)'
<1>1. size' = size
  BY DEF size
<1>2. /\ \A i \in 1..Len(m) : Brings(size', comm'.radix, s, r, program'[m[i].nth], m[i].data)
      /\ x # NoMessage => Brings(size', comm'.radix, s, r, program'[x.nth], x.data)
  BY <1>1 DEF Carries
<1>3. QED
  BY <1>2 DEF Carried, Carries, NoMessage

LEMMA CarriedSame ==
  ASSUME NEW s, NEW r, Carried(s, r), comm' = comm, program' = program,
         chan'[s][r] = chan[s][r], inbox'[r][s] = inbox[r][s]
  PROVE  Carried(s, r)'
<1>1. PICK m, x : m = chan[s][r] /\ x = inbox[r][s]
  OBVIOUS
<1>2. /\ \A i \in 1..Len(m) : Carries(s, r, m[i])
      /\ x # NoMessage => Carries(s, r, x)
  BY <1>1 DEF Carried
<1>3. QED
  BY <1>1, <1>2, CarriedThen

LEMMA MessagesSame ==
  ASSUME MessageInv, comm' = comm, program' = program, chan' = chan, inbox' = inbox
  PROVE  MessageInv'
<1>1. Ranks' = Ranks
  BY DEF Ranks, size
<1>2. \A s, r \in Ranks : Carried(s, r)'
  BY CarriedSame DEF MessageInv
<1>3. QED
  BY <1>1, <1>2 DEF MessageInv

LEMMA InitResult ==
  ASSUME Init, \A c \in Comms : \A p \in Programs(c) : NoInPlaceSum(p)
  PROVE  ResultInv
<1>1. comm \in Comms /\ program \in Programs(comm)
  BY DEF Init
<1>2. NoInPlaceSum(program)
  BY <1>1
<1>3. BufferInv
  <2>1. buf = [r \in Ranks |-> [i \in Ranks |-> Unset]] /\ \A r \in Ranks : calls[r] = 0
    BY DEF Init
  <2>2. \A r \in Ranks : Midway(r)
    BY <2>1 DEF Midway, OnRanks, Ranks
  <2> QED
    BY <2>1, <2>2 DEF BufferInv
<1>4. MessageInv
  <2>1. \A s, r \in Ranks : chan[s][r] = << >> /\ inbox[r][s] = NoMessage
    BY DEF Init
  <2> QED
    BY <2>1 DEF MessageInv, Carried
<1>5. QED
  BY <1>2, <1>3, <1>4 DEF ResultInv

LEMMA EnterMidway ==
  ASSUME IndInv, ResultInv, NEW r \in Ranks, Enter(r)
  PROVE  Midway(r)'
<1>1. SettingInv /\ StepsInv /\ BufferInv /\ NoInPlaceSum(program)
  BY DEF IndInv, ResultInv
<1>2. PICK n, k, c : n = size /\ k = comm.radix /\ c = program[calls[r] + 1]
  OBVIOUS
<1>3. PICK s, b : s = Steps(r, c) /\ b = InitialBuf(r, c)
  OBVIOUS
<1>4. /\ calls[r] < Len(program)
      /\ calls' = [calls EXCEPT ![r] = @ + 1]
      /\ steps' = [steps EXCEPT ![r] = s]
      /\ buf' = [buf EXCEPT ![r] = b]
      /\ comm' = comm /\ program' = program
  BY <1>2, <1>3 DEF Enter, setting
<1>5. /\ calls'[r] = calls[r] + 1 /\ steps'[r] = s /\ buf'[r] = b
      /\ calls[r] + 1 \in 1..Len(program)
  <2>1. calls \in [Ranks -> 0..Len(program)] /\ Len(program) \in Nat /\ DOMAIN steps = Ranks
    BY <1>1, SettingIs DEF StepsInv
  <2>2. DOMAIN buf = Ranks
    BY <1>1 DEF BufferInv
  <2> QED
    BY <1>4, <2>1, <2>2
<1>6. n \in Nat \ {0, 1} /\ k \in Nat \ {0, 1} /\ IsCall(n, c) /\ r \in 0..(n - 1)
  BY <1>1, <1>2, <1>5, SettingIs DEF Ranks
<1>7. Current(r)' = c /\ size' = n /\ comm'.radix = k
  BY <1>2, <1>4, <1>5 DEF Current, size
<1>8. s = Schedule(n, k, r, c)
  BY <1>2, <1>3 DEF Steps
<1>9. Ordering(n, k, r, c, s)
  BY <1>6, <1>8, OrderingFirst
<1>10. ~ (c.kind = "allreduce" /\ c.inplace)
  BY <1>1, <1>2, <1>5 DEF NoInPlaceSum
<1>11. OnRanks(n, b) /\ Partly(n, k, r, c, b, From(n, k, r, c))
  BY <1>2, <1>3, <1>6, <1>10, FirstBuffer
<1>12. Waits(n, s) = From(n, k, r, c)
  <2>1. /\ \A p : Has(s, "await", p) <=> p \in From(n, k, r, c)
        /\ From(n, k, r, c) \subseteq (0..(n - 1)) \ {r}
    BY <1>6, <1>8, ScheduleExchange DEF Exchange
  <2> QED
    BY <2>1 DEF Waits
<1>13. Filled(n, k, r, c, b, Waits(n, s))
  <2>1. PICK F, W : F = DownFrom(n, r, c) /\ W = From(n, k, r, c)
    OBVIOUS
  <2>2. F \subseteq W
    BY <1>6, <2>1, PartsOfCall
  <2>3. ~ (F # {} /\ F \cap W = {})
    BY <2>2
  <2> QED
    BY <1>11, <1>12, <2>1, <2>3 DEF Filled
<1>14. QED
  BY <1>5, <1>7, <1>9, <1>11, <1>13 DEF Midway

(***************************************************************************)
(* What Midway says of a rank that has a step to do.                       *)
(***************************************************************************)
LEMMA MidwayStep ==
  ASSUME IndInv, ResultInv, NEW r \in Ranks, NEW do, AtStep(r, do), Done(r),
         UNCHANGED <<setting, calls>>
  PROVE  /\ size \in Nat \ {0, 1} /\ comm.radix \in Nat \ {0, 1} /\ IsCall(size, Current(r))
         /\ r \in 0..(size - 1) /\ Peer(r) \in 0..(size - 1)
         /\ steps[r] \in Seq(StepSet(size)) /\ steps[r] # << >> /\ Once(steps[r])
         /\ Head(steps[r]).do = do /\ Head(steps[r]).peer = Peer(r)
         /\ Ordering(size, comm.radix, r, Current(r), steps[r])
         /\ OnRanks(size, buf[r])
         /\ Filled(size, comm.radix, r, Current(r), buf[r], Waits(size, steps[r]))
         /\ calls[r] \in 1..Len(program)
         /\ size' = size /\ comm'.radix = comm.radix /\ Current(r)' = Current(r)
         /\ calls'[r] = calls[r] /\ steps'[r] = Tail(steps[r])
         /\ \A q \in Ranks : q # r => steps'[q] = steps[q]
         /\ Ordering(size, comm.radix, r, Current(r), Tail(steps[r]))
<1> PICK n, k, c, s, b, p, t :
       /\ n = size /\ k = comm.radix /\ c = Current(r) /\ s = steps[r] /\ b = buf[r]
       /\ p = Peer(r) /\ t = Tail(s)
  OBVIOUS
<1>1. SettingInv /\ StepsInv /\ BufferInv
  BY DEF IndInv, ResultInv
<1>2. calls[r] \in 1..Len(program) /\ p \in Ranks
  BY <1>1, DoneSteps
<1>3. /\ s # << >> /\ Head(s).do = do /\ Head(s).peer = p
      /\ steps' = [steps EXCEPT ![r] = t]
      /\ comm' = comm /\ program' = program /\ calls' = calls
  BY DEF AtStep, Done, Peer, setting
<1>4. n \in Nat \ {0, 1} /\ k \in Nat \ {0, 1} /\ IsCall(n, c)
  BY <1>1, <1>2, SettingIs DEF Current
<1>5. r \in 0..(n - 1) /\ p \in 0..(n - 1)
  BY <1>2 DEF Ranks
<1>6. s \in Seq(StepSet(n)) /\ Once(s) /\ DOMAIN steps = Ranks
  BY <1>1 DEF StepsInv, StepsOf
<1>7. Ordering(n, k, r, c, s) /\ OnRanks(n, b) /\ Filled(n, k, r, c, b, Waits(n, s))
  <2>1. Midway(r) /\ calls[r] > 0
    BY <1>1, <1>2 DEF BufferInv
  <2> QED
    BY <2>1 DEF Midway
<1>8. size' = n /\ comm'.radix = k /\ Current(r)' = c /\ calls'[r] = calls[r]
  BY <1>3 DEF size, Current
<1>9. steps'[r] = t /\ \A q \in Ranks : q # r => steps'[q] = steps[q]
  BY <1>3, <1>6
<1>10. Ordering(n, k, r, c, t)
  BY <1>3, <1>4, <1>5, <1>6, <1>7, OrderingTail
<1>11. QED
  BY <1>2, <1>3, <1>4, <1>5, <1>6, <1>7, <1>8, <1>9, <1>10

LEMMA QuietMidway ==
  ASSUME IndInv, ResultInv, NEW r \in Ranks, NEW do, do # "await", AtStep(r, do), Done(r),
         UNCHANGED <<setting, calls, buf>>
  PROVE  BufferInv'
<1>1. PICK n, k, c, s, b, p, t :
        /\ n = size /\ k = comm.radix /\ c = Current(r) /\ s = steps[r] /\ b = buf[r]
        /\ p = Peer(r) /\ t = Tail(s)
  OBVIOUS
<1>2. /\ n \in Nat \ {0, 1} /\ k \in Nat \ {0, 1} /\ IsCall(n, c)
      /\ r \in 0..(n - 1) /\ p \in 0..(n - 1)
      /\ s \in Seq(StepSet(n)) /\ s # << >> /\ Once(s)
      /\ Head(s).do = do /\ Head(s).peer = p
      /\ Ordering(n, k, r, c, s) /\ OnRanks(n, b) /\ Filled(n, k, r, c, b, Waits(n, s))
      /\ calls[r] \in 1..Len(program)
      /\ size' = n /\ comm'.radix = k /\ Current(r)' = c /\ calls'[r] = calls[r]
      /\ steps'[r] = t
      /\ \A q \in Ranks : q # r => steps'[q] = steps[q]
      /\ Ordering(n, k, r, c, t)
  BY <1>1, MidwayStep
<1>3. comm' = comm /\ program' = program /\ calls' = calls /\ buf' = buf
  BY DEF setting
<1>4. Waits(n, t) = Waits(n, s)
  <2>1. \A a, q : Has(t, a, q) <=> Has(s, a, q) /\ ~ (a = Head(s).do /\ q = Head(s).peer)
    <3>1. s \in Seq(StepSet(n)) /\ s # << >> /\ Once(s) /\ t = Tail(s)
      BY <1>1, <1>2
    <3> QED
      BY <3>1, TailSteps
  <2>2. \A q : Has(t, "await", q) <=> Has(s, "await", q)
    BY <1>2, <2>1
  <2> QED
    BY <2>2 DEF Waits
<1>5. Midway(r)'
  BY <1>1, <1>2, <1>3, <1>4 DEF Midway
<1>6. BufferInv
  BY DEF ResultInv
<1>7. \A q \in Ranks : q # r => Midway(q)'
  BY <1>2, <1>3, <1>6, MidwaySame DEF BufferInv
<1>8. Ranks' = Ranks
  BY <1>3 DEF Ranks, size
<1>9. QED
  BY <1>3, <1>5, <1>6, <1>7, <1>8 DEF BufferInv

LEMMA EnterResult ==
  ASSUME IndInv, ResultInv, NEW r \in Ranks, Enter(r)
  PROVE  ResultInv'
<1>1. StepsInv /\ BufferInv /\ MessageInv /\ NoInPlaceSum(program)
  BY DEF IndInv, ResultInv
<1>2. PICK s, b, m : /\ steps' = [steps EXCEPT ![r] = s]
                     /\ buf' = [buf EXCEPT ![r] = b]
                     /\ calls' = [calls EXCEPT ![r] = m]
  BY DEF Enter
<1>3. comm' = comm /\ program' = program /\ chan' = chan /\ inbox' = inbox
  BY DEF Enter, setting
<1>4. Ranks' = Ranks
  BY <1>3 DEF Ranks, size
<1>5. \A q \in Ranks : q # r => calls'[q] = calls[q] /\ steps'[q] = steps[q] /\ buf'[q] = buf[q]
  BY <1>1, <1>2 DEF StepsInv, BufferInv
<1>6. Midway(r)'
  BY EnterMidway
<1>7. \A q \in Ranks : q # r => Midway(q)'
  BY <1>1, <1>3, <1>5, MidwaySame DEF BufferInv
<1>8. buf' = [q \in Ranks' |-> buf'[q]]
  BY <1>1, <1>2, <1>4 DEF BufferInv
<1>9. BufferInv'
  BY <1>4, <1>6, <1>7, <1>8 DEF BufferInv
<1>10. MessageInv'
  BY <1>1, <1>3, MessagesSame
<1>11. QED
  BY <1>1, <1>3, <1>9, <1>10 DEF ResultInv

LEMMA QuietResult ==
  ASSUME IndInv, ResultInv, NEW r \in Ranks, PostReceive(r) \/ FinishSend(r)
  PROVE  ResultInv'
<1>1. PICK do : do # "await" /\ AtStep(r, do) /\ Done(r) /\ UNCHANGED <<setting, calls, buf>>
  <2>1. "post" # "await" /\ "finish" # "await"
    OBVIOUS
  <2> QED
    BY <2>1 DEF PostReceive, FinishSend
<1>2. BufferInv'
  BY <1>1, QuietMidway
<1>3. comm' = comm /\ program' = program /\ chan' = chan /\ inbox' = inbox
  BY DEF PostReceive, FinishSend, setting
<1>4. MessageInv'
  BY <1>3, MessagesSame DEF ResultInv
<1>5. QED
  BY <1>2, <1>3, <1>4 DEF ResultInv

LEMMA StartResult ==
  ASSUME IndInv, ResultInv, NEW r \in Ranks, StartSend(r)
  PROVE  ResultInv'
<1>1. PICK n, k, c, s, b, p, x :
        /\ n = size /\ k = comm.radix /\ c = Current(r) /\ s = steps[r] /\ b = buf[r]
        /\ p = Peer(r) /\ x = [nth |-> calls[r], data |-> Sent(r, p, Head(s).of)]
  OBVIOUS
<1>2. /\ AtStep(r, "start") /\ Done(r) /\ UNCHANGED <<setting, calls, buf>>
      /\ comm' = comm /\ program' = program /\ inbox' = inbox
      /\ chan' = [chan EXCEPT ![r][p] = Append(@, x)]
  BY <1>1 DEF StartSend, setting
<1>3. /\ n \in Nat \ {0, 1} /\ k \in Nat \ {0, 1} /\ IsCall(n, c)
      /\ r \in 0..(n - 1) /\ p \in 0..(n - 1)
      /\ s \in Seq(StepSet(n)) /\ s # << >>
      /\ Head(s).do = "start" /\ Head(s).peer = p
      /\ Ordering(n, k, r, c, s) /\ OnRanks(n, b) /\ Filled(n, k, r, c, b, Waits(n, s))
  BY <1>1, <1>2, MidwayStep
<1>4. Ranks' = Ranks /\ p \in Ranks
  BY <1>1, <1>2, <1>3 DEF Ranks, size
<1>5. BufferInv'
  <2>1. "start" # "await"
    OBVIOUS
  <2> QED
    BY <1>2, <2>1, QuietMidway
<1>6. PICK data : data = Given(b, r, p, Head(s).of)
  OBVIOUS
<1>7. Brings(n, k, r, p, c, data)
  BY <1>3, <1>6, StartBrings
<1>8. Carries(r, p, x)
  <2>1. x.nth = calls[r] /\ x.data = data
    BY <1>1, <1>6, SentIs
  <2>2. program[x.nth] = c
    BY <1>1, <2>1 DEF Current
  <2> QED
    BY <1>1, <1>7, <2>1, <2>2 DEF Carries
<1>9. PICK m, t : m = chan[r][p] /\ t = Append(m, x)
  OBVIOUS
<1>10. MessageInv
  BY DEF ResultInv
<1>11. ChannelInv
  BY DEF IndInv
<1>12. chan = [q \in Ranks |-> [z \in Ranks |-> chan[q][z]]]
  BY <1>11 DEF ChannelInv
<1>13. /\ chan'[r][p] = t
       /\ \A q, z \in Ranks : ~ (q = r /\ z = p) => chan'[q][z] = chan[q][z]
  BY <1>2, <1>4, <1>9, <1>12
<1>14. \A i \in 1..Len(t) : t[i] = x \/ \E j \in 1..Len(m) : t[i] = m[j]
  <2>1. Len(m) \in Nat /\ m = [i \in 1..Len(m) |-> m[i]]
    BY <1>4, <1>9, <1>11 DEF ChannelInv, Ordered
  <2>2. PICK D : D = {m[i] : i \in 1..Len(m)} \cup {x}
    OBVIOUS
  <2>3. m \in Seq(D) /\ x \in D
    BY <2>1, <2>2
  <2>4. /\ Len(t) = Len(m) + 1
        /\ \A i \in 1..Len(m) : t[i] = m[i]
        /\ t[Len(m) + 1] = x
    BY <1>9, <2>3, AppendProperties
  <2>5. \A i \in 1..Len(t) : i \in 1..Len(m) \/ i = Len(m) + 1
    BY <2>1, <2>4
  <2> QED
    BY <2>4, <2>5
<1>15. Carried(r, p)'
  <2>1. PICK y : y = inbox[p][r]
    OBVIOUS
  <2>2. /\ \A i \in 1..Len(m) : Carries(r, p, m[i])
        /\ y # NoMessage => Carries(r, p, y)
    BY <1>4, <1>9, <1>10, <2>1 DEF MessageInv, Carried
  <2>3. \A i \in 1..Len(t) : Carries(r, p, t[i])
    BY <1>8, <1>14, <2>2
  <2> QED
    BY <1>2, <1>13, <2>1, <2>2, <2>3, CarriedThen
<1>16. \A q, z \in Ranks : ~ (q = r /\ z = p) => Carried(q, z)'
  BY <1>2, <1>10, <1>13, CarriedSame DEF MessageInv
<1>17. MessageInv'
  BY <1>4, <1>15, <1>16 DEF MessageInv
<1>18. QED
  BY <1>2, <1>5, <1>17 DEF ResultInv

LEMMA AwaitResult ==
  ASSUME IndInv, ResultInv, NEW r \in Ranks, AwaitReceive(r)
  PROVE  ResultInv'
<1>1. PICK n, k, c, s, b, p, t, x, d :
        /\ n = size /\ k = comm.radix /\ c = Current(r) /\ s = steps[r] /\ b = buf[r]
        /\ p = Peer(r) /\ t = Tail(s) /\ x = inbox[r][p]
        /\ d = Stored(r, p, Head(s).of, x.data)
  OBVIOUS
<1>2. /\ AtStep(r, "await") /\ Done(r) /\ UNCHANGED <<setting, calls>>
      /\ comm' = comm /\ program' = program /\ chan' = chan /\ calls' = calls
      /\ x # NoMessage
      /\ inbox' = [inbox EXCEPT ![r][p] = NoMessage]
      /\ buf' = [buf EXCEPT ![r] = d]
  BY <1>1 DEF AwaitReceive, setting
<1>3. /\ n \in Nat \ {0, 1} /\ k \in Nat \ {0, 1} /\ IsCall(n, c)
      /\ r \in 0..(n - 1) /\ p \in 0..(n - 1)
      /\ s \in Seq(StepSet(n)) /\ s # << >> /\ Once(s)
      /\ Head(s).do = "await" /\ Head(s).peer = p
      /\ Ordering(n, k, r, c, s) /\ OnRanks(n, b) /\ Filled(n, k, r, c, b, Waits(n, s))
      /\ size' = n /\ comm'.radix = k /\ Current(r)' = c /\ calls'[r] = calls[r]
      /\ steps'[r] = t
      /\ \A q \in Ranks : q # r => steps'[q] = steps[q]
      /\ Ordering(n, k, r, c, t)
  BY <1>1, <1>2, MidwayStep
<1>4. Ranks' = Ranks /\ p \in Ranks
  BY <1>1, <1>2, <1>3 DEF Ranks, size
<1>5. BufferInv /\ MessageInv /\ ReceiveInv
  BY DEF ResultInv, IndInv
<1>6. Carries(p, r, x)
  BY <1>1, <1>2, <1>4, <1>5 DEF MessageInv, Carried
<1>7. x.nth = calls[r]
  BY <1>1, <1>2, <1>4, <1>5 DEF ReceiveInv, Receiving
<1>8. PICK data : data = x.data
  OBVIOUS
<1>9. Brings(n, k, p, r, c, data)
  BY <1>1, <1>6, <1>7, <1>8 DEF Carries, Current
<1>10. d = Stow(b, p, Head(s).of, data)
  BY <1>1, <1>8, StoredIs
<1>11. OnRanks(n, d) /\ Filled(n, k, r, c, d, Waits(n, t))
  <2>1. /\ n \in Nat \ {0, 1} /\ k \in Nat \ {0, 1} /\ IsCall(n, c)
        /\ r \in 0..(n - 1) /\ p \in 0..(n - 1)
        /\ s \in Seq(StepSet(n)) /\ s # << >> /\ Once(s)
        /\ Head(s).do = "await" /\ p = Head(s).peer
        /\ Ordering(n, k, r, c, s) /\ OnRanks(n, b) /\ Filled(n, k, r, c, b, Waits(n, s))
        /\ t = Tail(s)
    BY <1>1, <1>3
  <2> QED
    BY <1>9, <1>10, <2>1, AwaitFills
<1>12. buf'[r] = d /\ \A q \in Ranks : q # r => buf'[q] = buf[q]
  BY <1>2, <1>5 DEF BufferInv
<1>13. Midway(r)'
  BY <1>3, <1>11, <1>12 DEF Midway
<1>14. \A q \in Ranks : q # r => Midway(q)'
  BY <1>2, <1>3, <1>5, <1>12, MidwaySame DEF BufferInv
<1>15. buf' = [q \in Ranks' |-> buf'[q]]
  BY <1>2, <1>4, <1>5 DEF BufferInv
<1>16. BufferInv'
  BY <1>4, <1>13, <1>14, <1>15 DEF BufferInv
<1>17. inbox = [q \in Ranks |-> [z \in Ranks |-> inbox[q][z]]]
  BY <1>5 DEF ReceiveInv
<1>18. /\ inbox'[r][p] = NoMessage
       /\ \A q, z \in Ranks : ~ (q = r /\ z = p) => inbox'[q][z] = inbox[q][z]
  BY <1>2, <1>4, <1>17
<1>19. Carried(p, r)'
  <2>1. PICK m : m = chan[p][r]
    OBVIOUS
  <2>2. \A i \in 1..Len(m) : Carries(p, r, m[i])
    BY <1>4, <1>5, <2>1 DEF MessageInv, Carried
  <2> QED
    BY <1>2, <1>18, <2>1, <2>2, CarriedThen
<1>20. \A q, z \in Ranks : ~ (z = r /\ q = p) => Carried(q, z)'
  BY <1>2, <1>5, <1>18, CarriedSame DEF MessageInv
<1>21. MessageInv'
  BY <1>4, <1>19, <1>20 DEF MessageInv
<1>22. QED
  BY <1>2, <1>16, <1>21 DEF ResultInv

LEMMA DeliverResult ==
  ASSUME IndInv, ResultInv, NEW r \in Ranks, NEW s \in Ranks, TakesFirst(s, r)
  PROVE  ResultInv'
<1>1. PICK m, t, x : m = chan[s][r] /\ t = Tail(m) /\ x = Head(m)
  OBVIOUS
<1>2. /\ m # << >>
      /\ inbox' = [inbox EXCEPT ![r][s] = x]
      /\ chan' = [chan EXCEPT ![s][r] = t]
      /\ comm' = comm /\ program' = program /\ calls' = calls /\ steps' = steps /\ buf' = buf
  BY <1>1 DEF TakesFirst, setting
<1>3. Ranks' = Ranks
  BY <1>2 DEF Ranks, size
<1>4. BufferInv /\ MessageInv /\ ReceiveInv /\ ChannelInv
  BY DEF ResultInv, IndInv
<1>5. BufferInv'
  <2>1. \A q \in Ranks : Midway(q)'
    BY <1>2, <1>4, MidwaySame DEF BufferInv
  <2> QED
    BY <1>2, <1>3, <1>4, <2>1 DEF BufferInv
<1>6. /\ 1 \in 1..Len(m) /\ x = m[1]
      /\ \A i \in 1..Len(t) : t[i] = m[i + 1] /\ i + 1 \in 1..Len(m)
  <2>1. Ordered(m)
    BY <1>1, <1>4 DEF ChannelInv
  <2> QED
    BY <1>1, <1>2, <2>1, OrderedTail
<1>7. inbox = [q \in Ranks |-> [z \in Ranks |-> inbox[q][z]]]
  BY <1>4 DEF ReceiveInv
<1>8. chan = [q \in Ranks |-> [z \in Ranks |-> chan[q][z]]]
  BY <1>4 DEF ChannelInv
<1>9. /\ inbox'[r][s] = x
      /\ \A q, z \in Ranks : ~ (q = r /\ z = s) => inbox'[q][z] = inbox[q][z]
  BY <1>2, <1>7
<1>10. /\ chan'[s][r] = t
       /\ \A q, z \in Ranks : ~ (q = r /\ z = s) => chan'[z][q] = chan[z][q]
  BY <1>2, <1>8
<1>11. Carried(s, r)'
  <2>1. \A i \in 1..Len(m) : Carries(s, r, m[i])
    BY <1>1, <1>4 DEF MessageInv, Carried
  <2>2. \A i \in 1..Len(t) : Carries(s, r, t[i])
    BY <1>6, <2>1
  <2>3. Carries(s, r, x)
    BY <1>6, <2>1
  <2> QED
    BY <1>2, <1>9, <1>10, <2>2, <2>3, CarriedThen
<1>12. \A q, z \in Ranks : ~ (q = r /\ z = s) => Carried(z, q)'
  BY <1>2, <1>4, <1>9, <1>10, CarriedSame DEF MessageInv
<1>13. MessageInv'
  BY <1>3, <1>11, <1>12 DEF MessageInv
<1>14. QED
  BY <1>2, <1>5, <1>13 DEF ResultInv

(***************************************************************************)
(* When a call returns the receive buffer holds what the operation means:  *)
(* each contribution once, in its place, for every size, every radix and   *)
(* every sequence of calls in which no message can take another's place,   *)
(* as long as no rank passes MONA_IN_PLACE to mona_comm_allreduce, which   *)
(* hands it on to mona_comm_reduce.                                        *)
(***************************************************************************)
THEOREM ResultsRight ==
  ASSUME \A c \in Comms : \A p \in Programs(c) : NoInPlaceSum(p)
  PROVE  Spec => []ResultRight
<1>1. Init => ResultInv
  BY InitResult
<1>2. ApartInv /\ (Apart => ResultInv) /\ [Next]_vars => (Apart' => ResultInv')
  <2> SUFFICES ASSUME ApartInv, Apart => ResultInv, [Next]_vars, Apart' PROVE ResultInv'
    OBVIOUS
  <2>1. comm' = comm /\ program' = program
    BY DEF Next, Enter, Step, PostReceive, StartSend, FinishSend, AwaitReceive, Deliver,
           setting, vars
  <2>2. Apart /\ TypeInv /\ IndInv /\ TurnInv /\ ResultInv
    BY <2>1, SameSetting DEF ApartInv
  <2>3. ASSUME NEW r \in Ranks, Enter(r) PROVE ResultInv'
    BY <2>3, <2>2, EnterResult
  <2>4. ASSUME NEW r \in Ranks, Step(r) PROVE ResultInv'
    BY <2>4, <2>2, QuietResult, StartResult, AwaitResult DEF Step
  <2>5. ASSUME NEW r \in Ranks, NEW s \in Ranks, Deliver(s, r) PROVE ResultInv'
    <3>1. TakesFirst(s, r)
      BY <2>5, <2>2, DeliverFirst
    <3> QED
      BY <2>2, <3>1, DeliverResult
  <2>6. ASSUME UNCHANGED vars PROVE ResultInv'
    <3>1. /\ comm' = comm /\ program' = program /\ calls' = calls /\ steps' = steps
          /\ buf' = buf /\ chan' = chan /\ inbox' = inbox
      BY <2>6 DEF vars, setting
    <3>2. Ranks' = Ranks
      BY <3>1 DEF Ranks, size
    <3>3. \A q \in Ranks : Midway(q)'
      BY <2>2, <3>1, MidwaySame DEF ResultInv, BufferInv
    <3>4. BufferInv'
      BY <2>2, <3>1, <3>2, <3>3 DEF ResultInv, BufferInv
    <3>5. MessageInv'
      BY <2>2, <3>1, MessagesSame DEF ResultInv
    <3> QED
      BY <2>2, <3>1, <3>4, <3>5 DEF ResultInv
  <2> QED
    BY <2>3, <2>4, <2>5, <2>6 DEF Next
<1>3. (Apart => IndInv) /\ (Apart => ResultInv) => ResultRight
  <2> SUFFICES ASSUME Apart, IndInv, ResultInv PROVE ResultRight
    BY DEF ResultRight
  <2> SUFFICES ASSUME NEW r \in Ranks, calls[r] > 0, steps[r] = << >>
               PROVE  Means(size, r, Current(r), buf[r])
    BY DEF ResultRight, Means, SumOf, Ranks
  <2>1. SettingInv /\ StepsInv /\ BufferInv
    BY DEF IndInv, ResultInv
  <2>2. PICK n, k, c, b : n = size /\ k = comm.radix /\ c = Current(r) /\ b = buf[r]
    OBVIOUS
  <2>3. calls[r] \in 1..Len(program)
    <3>1. calls[r] \in 0..Len(program) /\ Len(program) \in Nat
      BY <2>1, SettingIs DEF StepsInv
    <3> QED
      BY <3>1
  <2>4. n \in Nat \ {0, 1} /\ k \in Nat \ {0, 1} /\ IsCall(n, c) /\ r \in 0..(n - 1)
    BY <2>1, <2>2, <2>3, SettingIs DEF Current, Ranks
  <2>5. Waits(n, steps[r]) = {}
    <3>1. \A p : ~ Has(steps[r], "await", p)
      BY NothingToDo DEF Todo
    <3> QED
      BY <3>1 DEF Waits
  <2>6. Filled(n, k, r, c, b, {})
    BY <2>1, <2>2, <2>5 DEF BufferInv, Midway
  <2> QED
    BY <2>2, <2>4, <2>6, FilledMeans
<1>4. QED
  BY <1>1, <1>2, <1>3, ApartInductive, CollectivesInductive, PTL DEF Spec

=============================================================================

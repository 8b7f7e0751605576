------------------------------- MODULE Mailbox ------------------------------
(***************************************************************************)
(* What the unexpected-message functions of MoNA promise to their callers: *)
(* one mailbox of messages in order of arrival, from which every           *)
(* mona_urecv takes one message that matches its source and tag, and which *)
(* mona_uprobe and mona_uiprobe look into.  With Ordered, a call is given  *)
(* the oldest message that matches it.                                     *)
(***************************************************************************)
EXTENDS Naturals, Sequences

CONSTANTS Threads, Sources, Tags, AnySource, AnyTag, WantSources, WantTags,
          Kinds, MaxMessages,
          Ordered,     \* a call gets the oldest match
          MayFail      \* mona_urecv may return NA_PROTOCOL_ERROR

VARIABLES
  arrived,   \* the messages, in order of arrival
  want,      \* the call each thread waits on
  answer,    \* the message it was given, or NoMessage
  given      \* the messages given to a mona_urecv

vars == <<arrived, want, answer, given>>

NoMessage == 0
Message   == [src : Sources, tag : Tags]
Call      == [kind : Kinds, src : WantSources, tag : WantTags]
NoCall    == [kind |-> "none", src |-> AnySource, tag |-> AnyTag]

Matches(c, m) ==
  /\ c.tag \in {AnyTag, arrived[m].tag}
  /\ c.src \in {AnySource, arrived[m].src}

Init ==
  /\ arrived = << >>
  /\ want = [t \in Threads |-> NoCall]
  /\ answer = [t \in Threads |-> NoMessage]
  /\ given = {}

Arrive ==
  /\ Len(arrived) < MaxMessages
  /\ \E m \in Message : arrived' = Append(arrived, m)
  /\ UNCHANGED <<want, answer, given>>

Ask(t) ==
  /\ want[t] = NoCall
  /\ \E c \in Call : want' = [want EXCEPT ![t] = c]
  /\ UNCHANGED <<arrived, answer, given>>

(***************************************************************************)
(* m is the oldest of the messages not given away that t asks for.         *)
(***************************************************************************)
IsNext(t, m) ==
  /\ m \notin given
  /\ \A n \in 1..(m - 1) : n \in given \/ ~ Matches(want[t], n)

Give(t) ==
  /\ want[t].kind = "urecv"
  /\ answer[t] = NoMessage
  /\ \E m \in (1..Len(arrived)) \ given :
       /\ Matches(want[t], m)
       /\ Ordered => IsNext(t, m)
       /\ answer' = [answer EXCEPT ![t] = m]
       /\ given' = given \cup {m}
  /\ UNCHANGED <<arrived, want>>

(***************************************************************************)
(* A probe is told of a message and takes nothing.  Without Ordered the    *)
(* message may be given away by the time the caller hears of it.           *)
(***************************************************************************)
Show(t) ==
  /\ want[t].kind \in {"uiprobe", "uprobe"}
  /\ answer[t] = NoMessage
  /\ \E m \in 1..Len(arrived) :
       /\ Matches(want[t], m)
       /\ Ordered => IsNext(t, m)
       /\ answer' = [answer EXCEPT ![t] = m]
  /\ UNCHANGED <<arrived, want, given>>

(***************************************************************************)
(* mona_uiprobe may always answer that nothing is there; the other calls   *)
(* return with a message, or fail.                                         *)
(***************************************************************************)
Finish(t) ==
  /\ \/ answer[t] # NoMessage
     \/ want[t].kind = "uiprobe"
     \/ want[t].kind = "urecv" /\ MayFail
  /\ want' = [want EXCEPT ![t] = NoCall]
  /\ answer' = [answer EXCEPT ![t] = NoMessage]
  /\ UNCHANGED <<arrived, given>>

Next ==
  \/ Arrive
  \/ \E t \in Threads : Ask(t) \/ Give(t) \/ Show(t) \/ Finish(t)

Spec == Init /\ [][Next]_vars

=============================================================================

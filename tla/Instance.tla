------------------------------ MODULE Instance ------------------------------
(***************************************************************************)
(* The life of a MoNA instance: its progress loop, the requests of         *)
(* non-blocking operations, mona_wait_any and mona_finalize (mona.c).      *)
(*                                                                         *)
(* A non-blocking operation makes a ULT in the progress pool, which posts  *)
(* an NA operation and waits for it; NA completes it while the loop is in  *)
(* NA_Progress, the loop triggers its callback, and the ULT sets the       *)
(* eventual of the request.  The low-level ones, mona_msg_i*, mona_iput    *)
(* and mona_iget, have no ULT: the caller posts, and the callback sets the *)
(* eventual.  (So have the blocking ones no ULT of their own: they wait in *)
(* the ULT of the caller.)  The application waits for its requests with    *)
(* mona_wait_any, and finalizes.  The receive that a mona_uiprobe left     *)
(* posted, prob_req, has nobody waiting for it and is cancelled then.      *)
(***************************************************************************)
EXTENDS Naturals, SequencesExt

CONSTANTS
  Threads,     \* the ULTs of the application
  Requests,    \* the requests each passes to mona_wait_any, in their order
  Direct,      \* those of operations that have no ULT in the progress pool
  Probe,       \* the request of the posted receive that nobody waits for
  Null,        \* MONA_REQUEST_NULL
  Disciplined  \* the application finalizes when it has all its requests back

Ops == UNION {ToSet(Requests[t]) : t \in Threads}

ASSUME InstanceAssumption ==
  /\ \A t \in Threads : Requests[t] \in Seq(Ops) /\ IsInjective(Requests[t])
  /\ \A t, u \in Threads :
       t # u => ToSet(Requests[t]) \cap ToSet(Requests[u]) = {}
  /\ Direct \subseteq Ops
  /\ Probe \notin Ops
  /\ Null \notin Ops \cup {Probe}
  /\ Disciplined \in BOOLEAN

VARIABLES
  op,        \* how far each operation is
  queue,     \* completions that NA has not triggered
  loop,      \* where the progress loop is
  reqs,      \* each ULT's array of requests
  at,        \* where in it the ULT is
  pc,        \* what each ULT does
  fin,       \* where mona_finalize is
  cancelled, \* NA_Cancel was called on the probe: "no", "yes", "failed"
  finalize_flag,
  owns_progress_xstream  \* the loop has an execution stream of its own

app  == <<reqs, at, pc>>
main == <<fin, cancelled, finalize_flag>>
vars == <<op, queue, loop, app, main, owns_progress_xstream>>

(***************************************************************************)
(* An operation is created with its request; its ULT posts it to NA; NA    *)
(* completes it; the callback has run; the request's eventual is set; the  *)
(* request is freed.  A direct one is posted at once, and its callback     *)
(* sets the eventual; so it is with the probe, whose request is prob_req:  *)
(* a mona_uiprobe has posted it (prob_active) or not.                      *)
(***************************************************************************)
Init ==
  /\ \E p \in {"posted", "none"} :
       op = [o \in Ops \cup {Probe} |-> IF o = Probe THEN p ELSE "none"]
  /\ queue = << >>
  /\ loop = "check"
  /\ reqs = [t \in Threads |-> Requests[t]]
  /\ at = [t \in Threads |-> 1]
  /\ pc = [t \in Threads |-> "issue"]
  /\ fin = "up"
  /\ cancelled = "no"
  /\ finalize_flag = FALSE
  /\ owns_progress_xstream \in BOOLEAN

-----------------------------------------------------------------------------
(***************************************************************************)
(* The application starts its operations one by one, and none once it has  *)
(* called mona_finalize.                                                   *)
(***************************************************************************)
Issue(t) ==
  /\ pc[t] = "issue"
  /\ IF at[t] > Len(reqs[t])
       THEN /\ pc' = [pc EXCEPT ![t] = "scan"]
            /\ at' = [at EXCEPT ![t] = 1]
            /\ UNCHANGED op
       ELSE /\ fin = "up"
            /\ op' = [op EXCEPT ![reqs[t][at[t]]] =
                         IF reqs[t][at[t]] \in Direct THEN "posted" ELSE "created"]
            /\ at' = [at EXCEPT ![t] = @ + 1]
            /\ UNCHANGED pc
  /\ UNCHANGED <<queue, loop, reqs, main, owns_progress_xstream>>

(***************************************************************************)
(* The ULT of an operation posts it to NA, and when its callback has run   *)
(* gives back its operation id and sets the eventual of the request.       *)
(***************************************************************************)
UltPosts(o) ==
  /\ op[o] = "created"
  /\ op' = [op EXCEPT ![o] = "posted"]
  /\ UNCHANGED <<queue, loop, app, main, owns_progress_xstream>>

UltEnds(o) ==
  /\ op[o] = "called"
  /\ op' = [op EXCEPT ![o] = "set"]
  /\ UNCHANGED <<queue, loop, app, main, owns_progress_xstream>>

-----------------------------------------------------------------------------
(***************************************************************************)
(* The progress loop.                                                      *)
(***************************************************************************)
LoopTest ==
  /\ loop = "check"
  /\ loop' = IF finalize_flag THEN "out" ELSE "trigger"
  /\ UNCHANGED <<op, queue, app, main, owns_progress_xstream>>

(***************************************************************************)
(* NA_Trigger runs one callback, until there is none to run or the flag is *)
(* set.                                                                    *)
(***************************************************************************)
LoopTrigger ==
  /\ loop = "trigger"
  /\ IF queue = << >>
       THEN loop' = "progress" /\ UNCHANGED <<op, queue>>
       ELSE /\ op' = [op EXCEPT ![Head(queue)] =
                         IF Head(queue) \in Direct \cup {Probe} THEN "set" ELSE "called"]
            /\ queue' = Tail(queue)
            /\ loop' = IF finalize_flag THEN "progress" ELSE "trigger"
  /\ UNCHANGED <<app, main, owns_progress_xstream>>

(***************************************************************************)
(* In NA_Progress an operation completes: any that is posted, the probe    *)
(* because a message has come or because it has been cancelled.            *)
(***************************************************************************)
Completes(o) ==
  /\ loop = "progress"
  /\ op[o] = "posted"
  /\ op' = [op EXCEPT ![o] = "event"]
  /\ queue' = Append(queue, o)
  /\ UNCHANGED <<loop, app, main, owns_progress_xstream>>

LoopProgress ==
  /\ loop = "progress"
  /\ loop' = "check"
  /\ UNCHANGED <<op, queue, app, main, owns_progress_xstream>>

-----------------------------------------------------------------------------
(***************************************************************************)
(* mona_wait_any.  The ULT looks at one request after another, in a busy   *)
(* loop, and frees the first that is complete; the application calls it    *)
(* again until all requests are MONA_REQUEST_NULL.                         *)
(***************************************************************************)
Here(t) == reqs[t][at[t]]

(***************************************************************************)
(* The first request is handed back whatever its eventual says.            *)
(***************************************************************************)
Take_(t) ==
  /\ pc[t] = "scan" /\ at[t] <= Len(reqs[t])
  /\ Here(t) # Null
  /\ op' = [op EXCEPT ![Here(t)] = "freed"]
  /\ reqs' = [reqs EXCEPT ![t][at[t]] = Null]
  /\ at' = [at EXCEPT ![t] = 1]
  /\ UNCHANGED <<queue, loop, pc, main, owns_progress_xstream>>

(***************************************************************************)
(* mona_test finds the eventual set; mona_wait frees the request.          *)
(***************************************************************************)
Take(t) ==
  /\ pc[t] = "scan" /\ at[t] <= Len(reqs[t])
  /\ Here(t) # Null /\ op[Here(t)] = "set"
  /\ op' = [op EXCEPT ![Here(t)] = "freed"]
  /\ reqs' = [reqs EXCEPT ![t][at[t]] = Null]
  /\ at' = [at EXCEPT ![t] = 1]
  /\ UNCHANGED <<queue, loop, pc, main, owns_progress_xstream>>

Skip(t) ==
  /\ pc[t] = "scan" /\ at[t] <= Len(reqs[t])
  /\ Here(t) # Null => op[Here(t)] # "set"
  /\ at' = [at EXCEPT ![t] = @ + 1]
  /\ UNCHANGED <<op, queue, loop, reqs, pc, main, owns_progress_xstream>>

(***************************************************************************)
(* The scan is over after one pass, whatever is still pending.             *)
(***************************************************************************)
EndOfScan_(t) ==
  /\ pc[t] = "scan" /\ at[t] > Len(reqs[t])
  /\ pc' = [pc EXCEPT ![t] = "done"]
  /\ UNCHANGED <<op, queue, loop, reqs, at, main, owns_progress_xstream>>

(***************************************************************************)
(* The next scan starts before the array.                                  *)
(***************************************************************************)
EndOfScanLow_(t) ==
  /\ pc[t] = "scan" /\ at[t] > Len(reqs[t])
  /\ IF \E i \in 1..Len(reqs[t]) : reqs[t][i] # Null
       THEN at' = [at EXCEPT ![t] = 0] /\ UNCHANGED pc
       ELSE pc' = [pc EXCEPT ![t] = "done"] /\ UNCHANGED at
  /\ UNCHANGED <<op, queue, loop, reqs, main, owns_progress_xstream>>

(***************************************************************************)
(* At the end of the array: once more if a request is pending.             *)
(***************************************************************************)
EndOfScan(t) ==
  /\ pc[t] = "scan" /\ at[t] > Len(reqs[t])
  /\ IF \E i \in 1..Len(reqs[t]) : reqs[t][i] # Null
       THEN at' = [at EXCEPT ![t] = 1] /\ UNCHANGED pc
       ELSE pc' = [pc EXCEPT ![t] = "done"] /\ UNCHANGED at
  /\ UNCHANGED <<op, queue, loop, reqs, main, owns_progress_xstream>>

-----------------------------------------------------------------------------
(***************************************************************************)
(* mona_finalize.  The receive posted by a probe is cancelled and waited   *)
(* for while the loop still runs; then the loop is told to stop and is     *)
(* joined, and everything is freed.                                        *)
(***************************************************************************)
ProbActive == op[Probe] # "none"

MayFinalize ==
  /\ fin = "up"
  /\ Disciplined => \A t \in Threads : pc[t] = "done"

(***************************************************************************)
(* The loop is told to stop before the cancellation is waited for.         *)
(***************************************************************************)
Cancel_ ==
  /\ MayFinalize /\ ProbActive
  /\ fin' = "cancel"
  /\ cancelled' = "yes"
  /\ finalize_flag' = TRUE
  /\ UNCHANGED <<op, queue, loop, app, owns_progress_xstream>>

Cancel ==
  /\ MayFinalize /\ ProbActive
  /\ fin' = "cancel"
  /\ cancelled' = "yes"
  /\ UNCHANGED <<op, queue, loop, app, finalize_flag, owns_progress_xstream>>

(***************************************************************************)
(* NA_Cancel returns an error, of which finalize only warns.               *)
(***************************************************************************)
CancelFails ==
  /\ MayFinalize /\ ProbActive
  /\ fin' = "join"
  /\ cancelled' = "failed"
  /\ finalize_flag' = TRUE
  /\ UNCHANGED <<op, queue, loop, app, owns_progress_xstream>>

(***************************************************************************)
(* No probe has left a receive posted.                                     *)
(***************************************************************************)
NoProbe ==
  /\ MayFinalize /\ ~ ProbActive
  /\ fin' = "join"
  /\ finalize_flag' = TRUE
  /\ UNCHANGED <<op, queue, loop, app, cancelled, owns_progress_xstream>>

(***************************************************************************)
(* The cancellation is not waited for.                                     *)
(***************************************************************************)
ProbeBack_ ==
  /\ fin = "cancel"
  /\ fin' = "join"
  /\ finalize_flag' = TRUE
  /\ UNCHANGED <<op, queue, loop, app, cancelled, owns_progress_xstream>>

ProbeBack ==
  /\ fin = "cancel"
  /\ op[Probe] = "set"
  /\ op' = [op EXCEPT ![Probe] = "freed"]
  /\ fin' = "join"
  /\ finalize_flag' = TRUE
  /\ UNCHANGED <<queue, loop, app, cancelled, owns_progress_xstream>>

(***************************************************************************)
(* The progress ULT is joined, and so is the execution stream if MoNA made *)
(* one: a stream ends when its pool has no ULT left, not even a blocked    *)
(* one, which says nothing of direct operations.  Then everything is       *)
(* freed.                                                                  *)
(***************************************************************************)
UltAlive(o) == op[o] \in {"created", "posted", "event", "called"}

Free ==
  /\ fin = "join"
  /\ loop = "out"
  /\ owns_progress_xstream => \A o \in Ops \ Direct : ~ UltAlive(o)
  /\ fin' = "freed"
  /\ UNCHANGED <<op, queue, loop, app, cancelled, finalize_flag,
                 owns_progress_xstream>>

-----------------------------------------------------------------------------
Scan(t) == Take(t) \/ Skip(t) \/ EndOfScan(t)
Ult(o)  == UltPosts(o) \/ UltEnds(o)
Loop    == LoopTest \/ LoopTrigger \/ LoopProgress
Main    == Cancel \/ CancelFails \/ NoProbe \/ ProbeBack \/ Free

Next ==
  \/ \E t \in Threads : Issue(t) \/ Scan(t)
  \/ \E o \in Ops : Ult(o)
  \/ \E o \in Ops \cup {Probe} : Completes(o)
  \/ Loop
  \/ Main

Spec == Init /\ [][Next]_vars

(***************************************************************************)
(* Every ULT is scheduled: those of the application yield at the end of a  *)
(* scan, and the loop yields when the pool has others.  NA completes what  *)
(* it is given if it is let progress again and again, the probe if it is   *)
(* cancelled.                                                              *)
(***************************************************************************)
Fairness ==
  /\ \A t \in Threads : WF_vars(Issue(t) \/ Scan(t))
  /\ \A o \in Ops : WF_vars(Ult(o)) /\ SF_vars(Completes(o))
  /\ SF_vars(cancelled = "yes" /\ Completes(Probe))
  /\ WF_vars(Loop)
  /\ WF_vars(Main)

FairSpec == Spec /\ Fairness

-----------------------------------------------------------------------------
(***************************************************************************)
(* Types.                                                                  *)
(***************************************************************************)
TypeOK ==
  /\ op \in [Ops \cup {Probe} ->
               {"none", "created", "posted", "event", "called", "set", "freed"}]
  /\ ToSet(queue) \subseteq Ops \cup {Probe}
  /\ loop \in {"check", "trigger", "progress", "out"}
  /\ \A t \in Threads : /\ Len(reqs[t]) = Len(Requests[t])
                        /\ ToSet(reqs[t]) \subseteq Ops \cup {Null}
                        /\ at[t] \in 1..(Len(reqs[t]) + 1)
  /\ pc \in [Threads -> {"issue", "scan", "done"}]
  /\ fin \in {"up", "cancel", "join", "freed"}
  /\ cancelled \in {"no", "yes", "failed"}
  /\ finalize_flag \in BOOLEAN
  /\ owns_progress_xstream \in BOOLEAN

(***************************************************************************)
(* NA and the ULTs write to a request until its eventual is set: whoever   *)
(* waits for it frees it after that, and once.  A request that is freed is *)
(* in nobody's array, and a pending one is in its owner's.                 *)
(***************************************************************************)
Held(o) == \E t \in Threads : \E i \in 1..Len(reqs[t]) : reqs[t][i] = o

FreedOnlyWhenSet ==
  /\ \A i \in 1..Len(queue) : op[queue[i]] = "event"
  /\ \A o \in Ops : op[o] = "freed" <=> ~ Held(o)

(***************************************************************************)
(* What mona.h promises of mona_finalize (mona.h:94-96): it returns when   *)
(* no operation is pending, so that nobody uses what it frees.  The code   *)
(* achieves it for the receive of a probe, and for the rest if the         *)
(* application has waited for its requests; or else for those operations   *)
(* that have a ULT in the pool, if the execution stream is MoNA's.         *)
(***************************************************************************)
FinalizeBlocks ==
  fin = "freed" =>
    \A o \in Ops \cup {Probe} :
      \/ op[o] \in {"none", "set", "freed"}
      \/ o = Probe /\ cancelled = "failed"

(***************************************************************************)
(* mona_wait_any hands back every request, each when it completes.         *)
(***************************************************************************)
AllHandedBack == Disciplined => \A o \in Ops : <>(op[o] = "freed")

(***************************************************************************)
(* mona_finalize returns, although it waits for a cancelled receive, which *)
(* needs the progress loop, and for the end of that loop.                  *)
(***************************************************************************)
FinalizeReturns == fin \in {"cancel", "join"} ~> fin = "freed"

=============================================================================

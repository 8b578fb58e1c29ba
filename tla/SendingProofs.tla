---------------------------- MODULE SendingProofs ----------------------------
(***************************************************************************)
(* Proofs about OutboundSend, for any sets of messages and workers, about  *)
(* SendPacing, CampaignRounds and TierLedger, for any number of callers,   *)
(* campaigns, users, rates and limits, and about MCSending, of which they  *)
(* are part.                                                               *)
(***************************************************************************)
EXTENDS MCSending, FiniteSetTheorems, SequenceTheorems, WellFoundedInduction, TLAPS

(***************************************************************************)
(* OutboundSend: the inductive strengthenings.  A job is in flight for the *)
(* message whose id it holds; "clean" is the absence of every fault that   *)
(* can produce a second copy.                                              *)
(***************************************************************************)
JobsWellFormed ==
    \A w \in Workers :
        /\ worker[w].step = "idle" => worker[w] = Idle
        /\ worker[w].step # "idle" => worker[w].id \in Messages
        /\ worker[w].unrecorded => worker[w].step \in {"record", "mark", "fail"}
        /\ worker[w].step \in {"record", "mark"} => worker[w].unrecorded

OverlapIsNoted ==
    \A m \in Messages : \A w1, w2 \in Workers :
        "overlap" \notin cause[m] /\ worker[w1].id = m /\ worker[w2].id = m
            => w1 = w2

SecondCopyCauses == {"reset", "crash", "unrecorded", "blind", "overlap"}

Clean(m) == cause[m] \intersect SecondCopyCauses = {}

Recorded(m) ==
    \/ message[m].wamid
    \/ marker[m]
    \/ message[m].status = "FAILED"
    \/ \E w \in Workers : worker[w].id = m /\ worker[w].unrecorded

CleanCopy(m) ==
    Clean(m) =>
        /\ copies[m] <= 1
        /\ copies[m] = 1 => Recorded(m)
        /\ \A w \in Workers : worker[w].id = m =>
              /\ worker[w].step \in {"gate", "send", "retry", "reschedule"}
                    => copies[m] = 0
              /\ worker[w].step = "marker" /\ copies[m] = 1 => marker[m]

CopyInv == \A m \in Messages : CleanCopy(m)

FaultFree(m) ==
    cause[m] = {} =>
        /\ copies[m] > 0 => message[m].status # "FAILED"
        /\ \A w \in Workers : worker[w].id = m =>
              /\ message[m].status # "FAILED"
              /\ worker[w].step = "fail" => copies[m] = 0

RequeueInv ==
    \A m \in Messages :
        /\ requeues[m] <= 1
        /\ requeues[m] = 1 =>
              /\ message[m].status = "QUEUED" => message[m].requeuedAt
              /\ message[m].status # "NONE"
              /\ \A row \in sweep.todo : row.id = m => row.requeuedAt
        /\ \A row \in sweep.todo : row.id = m => message[m].status # "NONE"

\* A message that has not been queued has left no trace.
Fresh(m) ==
    message[m].status = "NONE" =>
        /\ attempts[m] = 0
        /\ sweep.enqueue # m
        /\ \A row \in sweep.todo : row.id # m
        /\ \A w \in Workers : worker[w].id # m

\* The job that has not made its request yet, or has one to make again.
UnspentSteps == {"marker", "gate", "send", "reschedule"}

Holding(m) ==
    IF \E w \in Workers : worker[w].id = m /\ worker[w].step \in UnspentSteps
    THEN 1 ELSE 0

Pending(m) == IF sweep.enqueue = m THEN 1 ELSE 0

\* Requests made and requests that can still be made, against the budget.
Budgeted(m) ==
    attempts[m] + jobs[m] + Holding(m) + Pending(m)
        <= message[m].retryCount + 1 + requeues[m] + redeliveries

CopyIsCurrent(w, m) ==
    worker[w].id = m =>
        /\ worker[w].step # "reschedule" =>
              worker[w].retryCount = message[m].retryCount
        /\ worker[w].step = "retry" => worker[w].retryCount < MaxSendAttempts

AttemptOK(m) ==
    "overlap" \notin cause[m] =>
        /\ Budgeted(m)
        /\ message[m].retryCount <= MaxSendAttempts
        /\ \A w \in Workers : CopyIsCurrent(w, m)

-----------------------------------------------------------------------------
(***************************************************************************)
(* Type correctness.                                                       *)
(***************************************************************************)

\* A job's step and its "unrecorded" mark can be set to any of their values.
LEMMA WorkerTyped ==
    ASSUME NEW r \in WorkerState, NEW s \in Steps, NEW b \in BOOLEAN
    PROVE  [r EXCEPT !.step = s, !.unrecorded = b] \in WorkerState
<1>1. [r EXCEPT !.step = s] \in WorkerState
  BY DEF WorkerState
<1>2. \A q \in WorkerState : [q EXCEPT !.unrecorded = b] \in WorkerState
  BY DEF WorkerState
<1> QED
  BY <1>1, <1>2

\* Goto only moves a job to another step (wa-outbound-sender).
LEMMA GotoTyped ==
    ASSUME worker \in [Workers -> WorkerState], NEW w \in Workers,
           NEW s \in Steps, Goto(w, s)
    PROVE  worker' \in [Workers -> WorkerState]
<1>1. worker[w] \in WorkerState
  OBVIOUS
<1>2. [worker[w] EXCEPT !.step = s] \in WorkerState
  BY <1>1 DEF WorkerState
<1> QED
  BY <1>2 DEF Goto

\* Finish leaves the worker idle (wa-outbound-sender).
LEMMA FinishTyped ==
    ASSUME worker \in [Workers -> WorkerState], NEW w \in Workers, Finish(w)
    PROVE  worker' \in [Workers -> WorkerState]
<1>1. Idle \in WorkerState
  BY DEF Idle, WorkerState, Steps
<1> QED
  BY <1>1 DEF Finish

\* Noting a fault keeps the history a set of faults.
LEMMA AddTyped ==
    ASSUME cause \in [Messages -> SUBSET Causes], NEW m, NEW c \in Causes
    PROVE  Add(m, c) \in [Messages -> SUBSET Causes]
  BY DEF Add

\* Adding to a counter, of a message or of no message, leaves it a counter.
LEMMA BumpTyped ==
    ASSUME NEW f \in [Messages -> Nat], NEW m, NEW n \in Nat
    PROVE  [f EXCEPT ![m] = @ + n] \in [Messages -> Nat]
<1>1. CASE m \in Messages
  <2>1. f[m] + n \in Nat
    BY <1>1
  <2> QED
    BY <1>1, <2>1
<1>2. CASE m \notin Messages
  BY <1>2
<1> QED
  BY <1>1, <1>2

\* A request keeps both history counters natural numbers.
LEMMA TransmittedTyped ==
    ASSUME copies \in [Messages -> Nat], attempts \in [Messages -> Nat],
           NEW m, NEW took \in BOOLEAN, Transmitted(m, took)
    PROVE  copies' \in [Messages -> Nat] /\ attempts' \in [Messages -> Nat]
<1>1. copies' = IF took THEN [copies EXCEPT ![m] = @ + 1] ELSE [copies EXCEPT ![m] = @]
  BY DEF Transmitted
<1>2. [copies EXCEPT ![m] = @] = copies
  OBVIOUS
<1>3. attempts' = [attempts EXCEPT ![m] = @ + 1]
  BY DEF Transmitted
<1> QED
  BY <1>1, <1>2, <1>3, BumpTyped

\* Each write to a row leaves it a row, whichever id it is made for.
LEMMA RowTyped ==
    ASSUME message \in [Messages -> MessageRow], NEW m, NEW s \in Statuses,
           NEW b \in BOOLEAN, NEW n \in Nat
    PROVE  /\ [message EXCEPT ![m].status = s, ![m].requeuedAt = b]
                  \in [Messages -> MessageRow]
           /\ [message EXCEPT ![m].requeuedAt = b] \in [Messages -> MessageRow]
           /\ [message EXCEPT ![m].retryCount = n] \in [Messages -> MessageRow]
           /\ [message EXCEPT ![m].status = s, ![m].wamid = TRUE,
                              ![m].requeuedAt = b] \in [Messages -> MessageRow]
<1>1. \A r \in MessageRow : /\ [r EXCEPT !.status = s] \in MessageRow
                            /\ [r EXCEPT !.requeuedAt = b] \in MessageRow
                            /\ [r EXCEPT !.retryCount = n] \in MessageRow
                            /\ [r EXCEPT !.wamid = TRUE] \in MessageRow
  BY DEF MessageRow
<1>2. CASE m \in Messages
  BY <1>1, <1>2
<1>3. CASE m \notin Messages
  BY <1>3
<1> QED
  BY <1>2, <1>3

\* Every state of a run has the declared shape, whatever the queue, the
\* workers and the sweep do (wa-outbound-sender, wa-health-check).
THEOREM TypeCorrect == Spec => []TypeOK
<1>1. Init => TypeOK
  BY OutboundSendAssumption DEF Init, TypeOK, MessageRow, Statuses, WorkerState,
     Steps, StuckRow, Idle, NoSweep, Causes
<1>2. TypeOK /\ [Next]_vars => TypeOK'
  <2> SUFFICES ASSUME TypeOK, [Next]_vars PROVE TypeOK'
    OBVIOUS
  <2> USE OutboundSendAssumption DEF TypeOK, world, budgets
  <2>1. ASSUME NEW m \in Messages, QueueOutbound(m) PROVE TypeOK'
    BY <2>1 DEF QueueOutbound, MessageRow, Statuses
  <2>2. ASSUME NEW m \in Messages, Age(m) PROVE TypeOK'
    BY <2>2 DEF Age
  <2>3. ASSUME NEW w \in Workers, NEW m \in Messages, StartJob(w, m) PROVE TypeOK'
    <3>1. worker' \in [Workers -> WorkerState]
      <4>1. [step |-> "marker", id |-> m, retryCount |-> message[m].retryCount,
             requeuedAt |-> message[m].requeuedAt, unrecorded |-> FALSE]
                \in WorkerState
        BY DEF WorkerState, Steps, MessageRow
      <4>2. CASE SendGuard(message[m])
        BY <2>3, <4>1, <4>2 DEF StartJob
      <4>3. CASE ~SendGuard(message[m])
        BY <2>3, <4>3 DEF StartJob
      <4> QED
        BY <4>2, <4>3
    <3>2. cause' \in [Messages -> SUBSET Causes]
      BY <2>3, AddTyped DEF StartJob, Causes
    <3>3. jobs' \in [Messages -> Nat] /\ redeliveries' \in 0..MaxRedeliveries
      BY <2>3 DEF StartJob
    <3> QED
      BY <2>3, <3>1, <3>2, <3>3 DEF StartJob
  <2>4. ASSUME NEW w \in Workers, ReadMarker(w) PROVE TypeOK'
    <3>1. worker' \in [Workers -> WorkerState]
      BY <2>4, GotoTyped, FinishTyped DEF ReadMarker, Steps
    <3>2. cause' \in [Messages -> SUBSET Causes]
      BY <2>4, AddTyped DEF ReadMarker, Causes
    <3> QED
      BY <2>4, <3>1, <3>2 DEF ReadMarker
  <2>5. ASSUME NEW w \in Workers, Gate(w) PROVE TypeOK'
    <3>1. worker' \in [Workers -> WorkerState]
      BY <2>5, GotoTyped, FinishTyped DEF Gate, Steps
    <3>2. jobs' \in [Messages -> Nat]
      BY <2>5 DEF Gate
    <3> QED
      BY <2>5, <3>1, <3>2 DEF Gate
  <2>6. ASSUME NEW w \in Workers, SendAccepted(w) PROVE TypeOK'
    <3>1. [worker[w] EXCEPT !.step = "record", !.unrecorded = TRUE] \in WorkerState
      BY WorkerTyped DEF Steps
    <3>2. worker' \in [Workers -> WorkerState]
      BY <2>6, <3>1 DEF SendAccepted
    <3> QED
      BY <2>6, <3>2, TransmittedTyped DEF SendAccepted
  <2>7. ASSUME NEW w \in Workers, RecordRetry(w) PROVE TypeOK'
    <3>1. worker' \in [Workers -> WorkerState]
      BY <2>7, GotoTyped DEF RecordRetry, Steps
    <3>2. worker[w].retryCount + 1 \in Nat
      BY DEF WorkerState
    <3>3. message' \in [Messages -> MessageRow]
      BY <2>7, <3>2, RowTyped DEF RecordRetry, Statuses
    <3> QED
      BY <2>7, <3>1, <3>3 DEF RecordRetry
  <2>8. ASSUME NEW w \in Workers, Reschedule(w) PROVE TypeOK'
    <3>1. worker' \in [Workers -> WorkerState]
      BY <2>8, FinishTyped DEF Reschedule
    <3>2. jobs' \in [Messages -> Nat]
      <4>1. PICK landed \in {0, 1} :
               jobs' = [jobs EXCEPT ![worker[w].id] = @ + landed]
        BY <2>8 DEF Reschedule
      <4>2. landed \in Nat
        OBVIOUS
      <4> QED
        BY <4>1, <4>2, BumpTyped
    <3> QED
      BY <2>8, <3>1, <3>2 DEF Reschedule
  <2>9. ASSUME NEW w \in Workers, FailMessage(w) PROVE TypeOK'
    <3>1. worker' \in [Workers -> WorkerState]
      BY <2>9, FinishTyped DEF FailMessage
    <3>2. worker[w].requeuedAt \in BOOLEAN
      BY DEF WorkerState
    <3>3. message' \in [Messages -> MessageRow]
      BY ZenonT(30), <2>9, <3>2, RowTyped DEF FailMessage, Statuses
    <3> QED
      BY <2>9, <3>1, <3>3 DEF FailMessage
  <2>10. ASSUME NEW w \in Workers, RecordAcceptance(w) PROVE TypeOK'
    <3>1. worker' \in [Workers -> WorkerState]
      BY <2>10, FinishTyped, GotoTyped DEF RecordAcceptance, Steps
    <3>2. worker[w].requeuedAt \in BOOLEAN
      BY DEF WorkerState
    <3>3. message' \in [Messages -> MessageRow]
      <4>1. [message EXCEPT ![worker[w].id].status = "ACCEPTED",
                            ![worker[w].id].wamid = TRUE,
                            ![worker[w].id].requeuedAt = worker[w].requeuedAt]
               \in [Messages -> MessageRow]
        BY ZenonT(30), <3>2, "ACCEPTED" \in Statuses, 0 \in Nat, RowTyped DEF Statuses
      <4> QED
        BY <2>10, <4>1 DEF RecordAcceptance
    <3> QED
      BY <2>10, <3>1, <3>3 DEF RecordAcceptance
  <2>11. ASSUME NEW w \in Workers, MarkAccepted(w) PROVE TypeOK'
    <3>1. worker' \in [Workers -> WorkerState]
      BY <2>11, FinishTyped DEF MarkAccepted
    <3>2. cause' \in [Messages -> SUBSET Causes]
      BY <2>11, AddTyped DEF MarkAccepted, Causes
    <3> QED
      BY <2>11, <3>1, <3>2 DEF MarkAccepted
  <2>12. ASSUME NEW w \in Workers, SendThrottled(w) PROVE TypeOK'
    <3>1. worker' \in [Workers -> WorkerState]
      BY <2>12, GotoTyped DEF SendThrottled, RetryStep, Steps
    <3> QED
      BY <2>12, <3>1, TransmittedTyped DEF SendThrottled
  <2>13. ASSUME NEW w \in Workers, SendRefused(w) PROVE TypeOK'
    <3>1. worker' \in [Workers -> WorkerState]
      BY <2>13, GotoTyped DEF SendRefused, Steps
    <3> QED
      BY <2>13, <3>1, TransmittedTyped DEF SendRefused
  <2>14. ASSUME NEW w \in Workers, Crash(w) PROVE TypeOK'
    <3>1. worker' \in [Workers -> WorkerState]
      BY <2>14, FinishTyped DEF Crash
    <3>2. cause' \in [Messages -> SUBSET Causes]
      BY <2>14, AddTyped DEF Crash, Causes
    <3> QED
      BY <2>14, <3>1, <3>2 DEF Crash
  <2>15. ASSUME NEW w \in Workers, NEW took \in BOOLEAN, SendUnanswered(w, took)
         PROVE  TypeOK'
    <3>1. [worker[w] EXCEPT !.step = "fail", !.unrecorded = took] \in WorkerState
      BY WorkerTyped DEF Steps
    <3>2. worker' \in [Workers -> WorkerState]
      BY <2>15, <3>1 DEF SendUnanswered
    <3>3. cause' \in [Messages -> SUBSET Causes]
      BY <2>15, AddTyped DEF SendUnanswered, Causes
    <3> QED
      BY <2>15, <3>2, <3>3, TransmittedTyped DEF SendUnanswered
  <2>16. ASSUME NEW w \in Workers, NEW took \in BOOLEAN, SendBroken(w, took)
         PROVE  TypeOK'
    <3>1. worker' \in [Workers -> WorkerState]
      BY <2>16, GotoTyped DEF SendBroken, RetryStep, Steps
    <3>2. cause' \in [Messages -> SUBSET Causes]
      BY <2>16, AddTyped DEF SendBroken, Causes
    <3> QED
      BY <2>16, <3>1, <3>2, TransmittedTyped DEF SendBroken
  <2>17. ASSUME SweepRead PROVE TypeOK'
    BY <2>17 DEF SweepRead, Stuck, StuckRow, NoSweep, MessageRow
  <2>18. ASSUME NEW row \in sweep.todo, SweepRequeue(row) PROVE TypeOK'
    <3>1. row.id \in Messages
      BY DEF StuckRow
    <3>2. message' \in [Messages -> MessageRow]
      <4>1. [message EXCEPT ![row.id].requeuedAt = TRUE]
               \in [Messages -> MessageRow]
        BY "QUEUED" \in Statuses, 0 \in Nat, RowTyped DEF Statuses
      <4> QED
        BY <2>18, <4>1 DEF SweepRequeue
    <3>3. requeues' \in [Messages -> Nat]
      BY <2>18, <3>1, BumpTyped DEF SweepRequeue
    <3> QED
      BY <2>18, <3>1, <3>2, <3>3 DEF SweepRequeue
  <2>19. ASSUME SweepEnqueue PROVE TypeOK'
    BY <2>19 DEF SweepEnqueue
  <2>20. ASSUME NEW row \in sweep.todo, SweepFail(row) PROVE TypeOK'
    <3>1. cause' \in [Messages -> SUBSET Causes]
      BY <2>20, AddTyped DEF SweepFail, Causes
    <3> QED
      BY SMTT(30), <2>20, <3>1 DEF SweepFail, StuckRow, MessageRow, Statuses
  <2>21. ASSUME SweepAbort PROVE TypeOK'
    BY <2>21 DEF SweepAbort, NoSweep
  <2>22. CASE UNCHANGED vars
    BY <2>22 DEF vars
  <2> QED
    BY <2>1, <2>2, <2>3, <2>4, <2>5, <2>6, <2>7, <2>8, <2>9, <2>10, <2>11, <2>12,
       <2>13, <2>14, <2>15, <2>16, <2>17, <2>18, <2>19, <2>20, <2>21, <2>22
       DEF Next, SenderStep, SweepStep
<1> QED
  BY <1>1, <1>2, PTL DEF Spec

-----------------------------------------------------------------------------
(***************************************************************************)
(* At most one re-enqueue by the sweep.                                    *)
(***************************************************************************)

\* A running job holds a message of the system, its "unrecorded" mark is up
\* exactly while an acceptance is still to be written down, and an idle
\* worker holds nothing (wa-outbound-sender).
LEMMA JobsCorrect == Spec => []JobsWellFormed
<1> USE OutboundSendAssumption
<1>1. Init => JobsWellFormed
  BY DEF Init, JobsWellFormed, Idle
<1>2. TypeOK /\ JobsWellFormed /\ [Next]_vars => JobsWellFormed'
  <2> SUFFICES ASSUME TypeOK, JobsWellFormed, [Next]_vars PROVE JobsWellFormed'
    OBVIOUS
  <2> USE DEF TypeOK, JobsWellFormed
  <2>1. ASSUME worker' = worker PROVE JobsWellFormed'
    BY <2>1
  <2>2. ASSUME NEW w \in Workers, Finish(w) PROVE JobsWellFormed'
    BY <2>2 DEF Finish, Idle, WorkerState
  <2>3. ASSUME NEW w \in Workers, NEW m \in Messages, StartJob(w, m)
        PROVE  JobsWellFormed'
    BY <2>3, <2>1 DEF StartJob, WorkerState
  <2>4. ASSUME NEW w \in Workers, NEW s \in {"gate", "send", "retry", "fail", "reschedule"},
               worker[w].step \in {"marker", "gate", "send", "retry"}, Goto(w, s)
        PROVE  JobsWellFormed'
    BY <2>4 DEF Goto, WorkerState
  <2>5. ASSUME NEW w \in Workers, worker[w].step = "record", Goto(w, "mark")
        PROVE  JobsWellFormed'
    BY <2>5 DEF Goto, WorkerState
  <2>6. ASSUME NEW w \in Workers, SendAccepted(w) PROVE JobsWellFormed'
    BY <2>6 DEF SendAccepted, WorkerState
  <2>7. ASSUME NEW w \in Workers, NEW took \in BOOLEAN, SendUnanswered(w, took)
        PROVE  JobsWellFormed'
    BY <2>7 DEF SendUnanswered, WorkerState
  <2>8. ASSUME NEW w \in Workers, SenderStep(w) PROVE JobsWellFormed'
    BY <2>8, <2>1, <2>2, <2>3, <2>4, <2>5, <2>6, <2>7 DEF SenderStep, ReadMarker,
       Gate, SendBroken, SendThrottled, SendRefused, RetryStep, RecordRetry,
       Reschedule, FailMessage, RecordAcceptance, MarkAccepted, Crash
  <2>9. CASE UNCHANGED vars
    BY <2>9, <2>1 DEF vars
  <2>10. CASE SweepStep
    BY <2>10, <2>1 DEF SweepStep, SweepRequeue, SweepEnqueue, SweepFail
  <2> QED
    BY <2>1, <2>8, <2>9, <2>10 DEF Next, QueueOutbound, Age, SweepRead, SweepAbort
<1> QED
  BY <1>1, <1>2, TypeCorrect, PTL DEF Spec

\* The sweep re-enqueues a message at most once in its life, although the
\* senders write back the copy of requeuedAt they read earlier: every such
\* write also takes the row out of QUEUED, where the sweep no longer looks
\* (stuckAction and sweepStuckMessages of wa-health-check).
THEOREM RequeueCorrect == Spec => []RequeuedAtMostOnce
<1> USE OutboundSendAssumption
<1>1. Init => RequeueInv
  BY DEF Init, RequeueInv, NoSweep
<1>2. TypeOK /\ JobsWellFormed /\ RequeueInv /\ [Next]_vars => RequeueInv'
  <2> SUFFICES ASSUME TypeOK, JobsWellFormed, RequeueInv, [Next]_vars
               PROVE  RequeueInv'
    OBVIOUS
  <2> USE DEF TypeOK, RequeueInv
  <2>1. ASSUME message' = message, requeues' = requeues, sweep'.todo \subseteq sweep.todo
        PROVE  RequeueInv'
    BY <2>1
  <2>2. ASSUME NEW m \in Messages, QueueOutbound(m) PROVE RequeueInv'
    BY <2>2 DEF QueueOutbound, MessageRow
  <2>3. ASSUME NEW w \in Workers, SenderStep(w) PROVE RequeueInv'
    <3>1. CASE RecordRetry(w)
      BY <3>1 DEF RecordRetry, MessageRow
    <3>2. CASE FailMessage(w)
      BY <3>2 DEF FailMessage, MessageRow
    <3>3. CASE RecordAcceptance(w)
      BY <3>3 DEF RecordAcceptance, MessageRow
    <3> QED
      BY <2>3, <2>1, <3>1, <3>2, <3>3 DEF SenderStep, StartJob, ReadMarker, Gate,
         SendAccepted, SendUnanswered, SendBroken, SendThrottled, SendRefused,
         Reschedule, MarkAccepted, Crash
  <2>4. CASE SweepRead
    BY <2>4 DEF SweepRead, Stuck, NoSweep, MessageRow
  <2>5. ASSUME NEW row \in sweep.todo, SweepRequeue(row) PROVE RequeueInv'
    <3>1. row.id \in Messages /\ requeues[row.id] = 0
      BY <2>5 DEF SweepRequeue, StuckRow
    <3>2. \A r \in sweep.todo : r.id = row.id /\ ~r.requeuedAt => r = row
      BY <2>5 DEF SweepRequeue, StuckRow
    <3>3. /\ requeues'[row.id] = 1
          /\ \A m \in Messages : m # row.id => requeues'[m] = requeues[m]
      BY <2>5, <3>1 DEF SweepRequeue
    <3>4. /\ message'[row.id].requeuedAt
          /\ \A m \in Messages : message'[m].status = message[m].status
          /\ \A m \in Messages : m # row.id => message'[m] = message[m]
      BY <2>5, <3>1 DEF SweepRequeue, MessageRow
    <3>5. sweep'.todo = sweep.todo \ {row}
      BY <2>5 DEF SweepRequeue
    <3> QED
      BY <3>1, <3>2, <3>3, <3>4, <3>5
  <2>6. ASSUME NEW row \in sweep.todo, SweepFail(row) PROVE RequeueInv'
    BY <2>6 DEF SweepFail, StuckRow, MessageRow
  <2>7. CASE SweepEnqueue \/ SweepAbort \/ UNCHANGED vars
    BY <2>7, <2>1 DEF SweepEnqueue, SweepAbort, NoSweep, vars
  <2> QED
    BY <2>1, <2>2, <2>3, <2>4, <2>5, <2>6, <2>7 DEF Next, SweepStep, Age
<1>3. RequeueInv => RequeuedAtMostOnce
  BY DEF RequeueInv, RequeuedAtMostOnce
<1> QED
  BY <1>1, <1>2, <1>3, TypeCorrect, JobsCorrect, PTL DEF Spec

-----------------------------------------------------------------------------
(***************************************************************************)
(* A second copy has a cause.                                              *)
(***************************************************************************)

\* Two jobs of one message run together only once that has been noted: the
\* one place a job takes up a message is StartJob (the queue's delivery).
LEMMA OverlapCorrect == Spec => []OverlapIsNoted
<1> USE OutboundSendAssumption
<1>1. Init => OverlapIsNoted
  BY DEF Init, OverlapIsNoted, Idle
<1>2. TypeOK /\ JobsWellFormed /\ OverlapIsNoted /\ [Next]_vars => OverlapIsNoted'
  <2> SUFFICES ASSUME TypeOK, JobsWellFormed, OverlapIsNoted, [Next]_vars
               PROVE  OverlapIsNoted'
    OBVIOUS
  <2> USE DEF TypeOK, OverlapIsNoted
  <2>1. ASSUME \A v \in Workers : worker'[v].id \in {worker[v].id, NoMessage},
               \A m \in Messages : cause[m] \subseteq cause'[m]
        PROVE  OverlapIsNoted'
    BY <2>1
  <2>2. ASSUME NEW m, NEW c, cause' = Add(m, c)
        PROVE  \A n \in Messages : cause[n] \subseteq cause'[n]
    BY <2>2 DEF Add
  <2>3. ASSUME NEW w \in Workers, Finish(w)
        PROVE  \A v \in Workers : worker'[v].id \in {worker[v].id, NoMessage}
    BY <2>3 DEF Finish, Idle
  <2>4. ASSUME NEW w \in Workers, NEW s, Goto(w, s)
        PROVE  \A v \in Workers : worker'[v].id \in {worker[v].id, NoMessage}
    BY <2>4 DEF Goto, WorkerState
  <2>5. ASSUME NEW w \in Workers, NEW m \in Messages, StartJob(w, m)
        PROVE  OverlapIsNoted'
    <3>1. CASE SendGuard(message[m]) /\ InFlight(m) = {}
      BY <2>5, <3>1 DEF StartJob, InFlight
    <3>2. CASE SendGuard(message[m]) /\ InFlight(m) # {}
      BY <2>5, <3>2 DEF StartJob, Add
    <3>3. CASE ~SendGuard(message[m])
      BY <2>5, <3>3 DEF StartJob
    <3> QED
      BY <3>1, <3>2, <3>3
  <2>6. ASSUME NEW w \in Workers,
               SendAccepted(w) \/ (\E took \in BOOLEAN : SendUnanswered(w, took))
        PROVE  OverlapIsNoted'
    <3>1. PICK s \in Steps, b \in BOOLEAN :
             worker' = [worker EXCEPT ![w].step = s, ![w].unrecorded = b]
      BY <2>6 DEF SendAccepted, SendUnanswered, Steps
    <3>2. worker'[w].id = worker[w].id
      BY <3>1 DEF WorkerState
    <3>3. \A v \in Workers : worker'[v].id \in {worker[v].id, NoMessage}
      BY <3>1, <3>2
    <3> QED
      BY <2>6, <3>3, <2>1, <2>2 DEF SendAccepted, SendUnanswered
  <2>7. ASSUME NEW w \in Workers, SenderStep(w) PROVE OverlapIsNoted'
    BY ZenonT(30), <2>7, <2>1, <2>2, <2>3, <2>4, <2>5, <2>6 DEF SenderStep, ReadMarker, Gate,
       SendBroken, SendThrottled, SendRefused, RecordRetry, Reschedule,
       FailMessage, RecordAcceptance, MarkAccepted, Crash
  <2>8. CASE SweepStep
    BY <2>8, <2>1, <2>2 DEF SweepStep, SweepRequeue, SweepEnqueue, SweepFail
  <2>9. CASE UNCHANGED vars
    BY <2>9 DEF vars
  <2> QED
    BY <2>7, <2>8, <2>9 DEF Next, QueueOutbound, Age, SweepRead, SweepAbort
<1> QED
  BY <1>1, <1>2, TypeCorrect, JobsCorrect, PTL DEF Spec

\* CleanCopy is local to a message: a step that touches neither its row, its
\* marker, its counters nor a job of its own preserves it.
LEMMA CleanCopyFrame ==
    ASSUME NEW m \in Messages, CleanCopy(m), cause[m] \subseteq cause'[m],
           copies'[m] = copies[m],
           message[m].wamid => message'[m].wamid,
           marker[m] => marker'[m],
           message[m].status = "FAILED" =>
                message'[m].status = "FAILED" \/ message'[m].wamid,
           \A v \in Workers : worker'[v].id = m => worker'[v] = worker[v],
           \A v \in Workers : worker[v].id = m /\ worker[v].unrecorded =>
                worker'[v] = worker[v]
    PROVE  CleanCopy(m)'
  BY DEF CleanCopy, Clean, Recorded, SecondCopyCauses

\* A message without a fault is taken by Meta at most once, and once taken
\* is recorded on the row, in kv or in the job's hands, so that no later job
\* passes the guards of sendOutbound.
LEMMA CopyInvariant == Spec => []CopyInv
<1> USE OutboundSendAssumption
<1>1. Init => CopyInv
  BY DEF Init, CopyInv, CleanCopy, Idle
<1>2. TypeOK /\ JobsWellFormed /\ OverlapIsNoted /\ CopyInv /\ [Next]_vars => CopyInv'
  <2> SUFFICES ASSUME TypeOK, JobsWellFormed, OverlapIsNoted, CopyInv, [Next]_vars,
                      NEW n \in Messages
               PROVE  CleanCopy(n)'
    BY DEF CopyInv
  <2>0. CleanCopy(n)
    BY DEF CopyInv
  <2> USE DEF TypeOK, world, budgets
  <2>1. ASSUME NEW m \in Messages, QueueOutbound(m) PROVE CleanCopy(n)'
    BY <2>0, <2>1, CleanCopyFrame DEF QueueOutbound, MessageRow
  <2>2. ASSUME NEW m \in Messages, Age(m) PROVE CleanCopy(n)'
    BY <2>0, <2>2, CleanCopyFrame DEF Age
  <2>3. ASSUME NEW w \in Workers, worker[w].id # n,
               worker'[w].id # n,
               \A v \in Workers : v # w => worker'[v] = worker[v],
               message'[n] = message[n], marker'[n] = marker[n],
               copies'[n] = copies[n], cause'[n] = cause[n]
        PROVE  CleanCopy(n)'
    BY <2>0, <2>3, CleanCopyFrame
  <2>23. ASSUME NEW c \in SecondCopyCauses, cause' = Add(n, c) PROVE CleanCopy(n)'
    <3>1. c \in cause'[n]
      BY <2>23 DEF Add
    <3> QED
      BY <3>1 DEF CleanCopy, Clean
  <2>4. ASSUME NEW w \in Workers, NEW m \in Messages, StartJob(w, m)
        PROVE  CleanCopy(n)'
    <3>0. CASE ~SendGuard(message[m])
      BY <2>0, <2>4, <3>0, CleanCopyFrame DEF StartJob
    <3>1. CASE n # m /\ SendGuard(message[m])
      <4>1. worker[w].id # n /\ worker'[w].id = m
        BY <2>4, <3>1 DEF StartJob, Idle
      <4>2. cause'[n] = cause[n]
        BY <2>4, <3>1 DEF StartJob, Add
      <4>3. \A v \in Workers : v # w => worker'[v] = worker[v]
        BY <2>4, <3>1 DEF StartJob
      <4> QED
        BY <2>0, <2>4, <3>1, <4>1, <4>2, <4>3, <2>3 DEF StartJob
    <3>2. CASE n = m /\ SendGuard(message[m]) /\ InFlight(m) # {}
      BY <2>4, <3>2, <2>23 DEF StartJob, SecondCopyCauses
    <3>3. CASE n = m /\ SendGuard(message[m]) /\ InFlight(m) = {}
      <4>1. /\ worker'[w].id = n /\ worker'[w].step = "marker"
            /\ \A v \in Workers : v # w => worker'[v].id # n
            /\ ~ \E v \in Workers : worker[v].id = n
            /\ UNCHANGED <<cause, message, marker, copies>>
        BY <2>4, <3>3 DEF StartJob, InFlight
      <4>2. Clean(n) => copies[n] <= 1 /\ (copies[n] = 1 => marker[n])
        BY <2>0, <3>3, <4>1 DEF CleanCopy, Recorded, SendGuard
      <4> QED
        BY <4>1, <4>2 DEF CleanCopy, Clean, Recorded
    <3> QED
      BY <3>0, <3>1, <3>2, <3>3
  <2>5. ASSUME NEW w \in Workers, worker[w].step # "idle",
               \A v \in Workers : v # w => worker'[v] = worker[v],
               worker[w].id = n
        PROVE  Clean(n) => \A v \in Workers : v # w => worker'[v].id # n /\ worker[v].id # n
    BY <2>5 DEF OverlapIsNoted, Clean, SecondCopyCauses
  <2>6. ASSUME NEW w \in Workers, ReadMarker(w) PROVE CleanCopy(n)'
    <3>1. CASE worker[w].id # n
      BY <2>6, <2>3, <3>1 DEF ReadMarker, Goto, Finish, Add, Idle, JobsWellFormed, WorkerState
    <3>2. CASE worker[w].id = n
      <4>1. CASE marker[n] /\ Finish(w) /\ UNCHANGED cause
        <5>1. ~worker[w].unrecorded
          BY <2>6 DEF ReadMarker, JobsWellFormed
        <5>2. worker'[w].id # n /\ \A v \in Workers : v # w => worker'[v] = worker[v]
          BY <4>1 DEF Finish, Idle
        <5>3. UNCHANGED <<message, marker, copies>>
          BY <2>6 DEF ReadMarker
        <5> QED
          BY <2>0, <4>1, <5>1, <5>2, <5>3, CleanCopyFrame
      <4>2. CASE ~marker[n] /\ Goto(w, "gate") /\ UNCHANGED cause
        <5>1. /\ UNCHANGED <<message, marker, copies>>
              /\ \A v \in Workers : v # w => worker'[v] = worker[v]
              /\ worker[w].step = "marker" /\ ~worker[w].unrecorded
          BY <2>6, <4>2 DEF ReadMarker, Goto, JobsWellFormed
        <5>2. worker'[w] = [worker[w] EXCEPT !.step = "gate"]
          BY <4>2 DEF Goto
        <5>3. Clean(n) => copies[n] = 0
          BY <2>0, <3>2, <4>2, <5>1 DEF CleanCopy
        <5>4. worker'[w].step = "gate" /\ worker'[w].id = n
          BY <3>2, <5>2 DEF WorkerState
        <5> QED
          BY <2>0, <4>2, <5>1, <5>3, <5>4 DEF CleanCopy, Clean
      <4>3. CASE cause' = Add(n, "blind")
        BY <4>3, <2>23 DEF SecondCopyCauses
      <4> QED
        BY <2>6, <3>2, <4>1, <4>2, <4>3 DEF ReadMarker
    <3> QED
      BY <3>1, <3>2
  <2>7. ASSUME NEW w \in Workers, Gate(w) PROVE CleanCopy(n)'
    <3>1. CASE worker[w].id # n
      BY <2>7, <2>3, <3>1 DEF Gate, Goto, Finish, Idle, JobsWellFormed, WorkerState
    <3>2. CASE worker[w].id = n
      BY <2>0, <2>7, <2>5, <3>2 DEF Gate, Goto, Finish, Idle, CleanCopy, Clean, Recorded,
         SecondCopyCauses, JobsWellFormed, WorkerState, MessageRow
    <3> QED
      BY <3>1, <3>2
  <2>8. ASSUME NEW w \in Workers, SendAccepted(w) PROVE CleanCopy(n)'
    <3>1. CASE worker[w].id # n
      BY <2>8, <2>3, <3>1 DEF SendAccepted, Transmitted, Idle, JobsWellFormed, WorkerState
    <3>2. CASE worker[w].id = n
      BY SMTT(30), <2>0, <2>8, <2>5, <3>2 DEF SendAccepted, Transmitted, Idle, CleanCopy, Clean, Recorded,
         SecondCopyCauses, JobsWellFormed, WorkerState, MessageRow
    <3> QED
      BY <3>1, <3>2
  <2>9. ASSUME NEW w \in Workers, NEW took \in BOOLEAN, SendUnanswered(w, took) PROVE CleanCopy(n)'
    <3>1. CASE worker[w].id # n
      BY <2>9, <2>3, <3>1 DEF SendUnanswered, Transmitted, Add, Idle, JobsWellFormed, WorkerState
    <3>2. CASE worker[w].id = n
      BY <2>0, <2>9, <2>5, <3>2 DEF SendUnanswered, Transmitted, Add, Idle, CleanCopy, Clean, Recorded,
         SecondCopyCauses, JobsWellFormed, WorkerState, MessageRow
    <3> QED
      BY <3>1, <3>2
  <2>10. ASSUME NEW w \in Workers, NEW took \in BOOLEAN, SendBroken(w, took) PROVE CleanCopy(n)'
    <3>1. CASE worker[w].id # n
      BY <2>10, <2>3, <3>1 DEF SendBroken, RetryStep, Goto, Transmitted, Add, Idle, JobsWellFormed, WorkerState
    <3>2. CASE worker[w].id = n
      <4>1. CASE took
        BY <2>10, <3>2, <4>1, <2>23 DEF SendBroken, SecondCopyCauses
      <4>2. CASE ~took
        <5>1. PICK s \in {"retry", "fail"} : Goto(w, s)
          BY <2>10 DEF SendBroken, RetryStep
        <5>2. copies' = copies
          BY <2>10, <4>2 DEF SendBroken, Transmitted
        <5> QED
          BY <2>0, <2>10, <2>5, <3>2, <4>2, <5>1, <5>2 DEF SendBroken, Goto,
             CleanCopy, Clean, Recorded, JobsWellFormed, WorkerState
      <4> QED
        BY <4>1, <4>2
    <3> QED
      BY <3>1, <3>2
  <2>11. ASSUME NEW w \in Workers, SendThrottled(w) PROVE CleanCopy(n)'
    <3>1. CASE worker[w].id # n
      BY <2>11, <2>3, <3>1 DEF SendThrottled, RetryStep, Goto, Transmitted, Idle, JobsWellFormed, WorkerState
    <3>2. CASE worker[w].id = n
      BY <2>0, <2>11, <2>5, <3>2 DEF SendThrottled, RetryStep, Goto, Transmitted, Idle, CleanCopy, Clean, Recorded,
         SecondCopyCauses, JobsWellFormed, WorkerState, MessageRow
    <3> QED
      BY <3>1, <3>2
  <2>12. ASSUME NEW w \in Workers, SendRefused(w) PROVE CleanCopy(n)'
    <3>1. CASE worker[w].id # n
      BY <2>12, <2>3, <3>1 DEF SendRefused, Goto, Transmitted, Idle, JobsWellFormed, WorkerState
    <3>2. CASE worker[w].id = n
      BY <2>0, <2>12, <2>5, <3>2 DEF SendRefused, Goto, Transmitted, Idle, CleanCopy, Clean, Recorded,
         SecondCopyCauses, JobsWellFormed, WorkerState, MessageRow
    <3> QED
      BY <3>1, <3>2
  <2>13. ASSUME NEW w \in Workers, RecordRetry(w) PROVE CleanCopy(n)'
    <3>1. CASE worker[w].id # n
      BY <2>13, <2>3, <3>1 DEF RecordRetry, Goto, Idle, JobsWellFormed, WorkerState
    <3>2. CASE worker[w].id = n
      BY <2>0, <2>13, <2>5, <3>2 DEF RecordRetry, Goto, Idle, CleanCopy, Clean, Recorded,
         SecondCopyCauses, JobsWellFormed, WorkerState, MessageRow
    <3> QED
      BY <3>1, <3>2
  <2>14. ASSUME NEW w \in Workers, Reschedule(w) PROVE CleanCopy(n)'
    <3>1. CASE worker[w].id # n
      BY <2>14, <2>3, <3>1 DEF Reschedule, Finish, Idle, JobsWellFormed, WorkerState
    <3>2. CASE worker[w].id = n
      BY <2>0, <2>14, <2>5, <3>2 DEF Reschedule, Finish, Idle, CleanCopy, Clean, Recorded,
         SecondCopyCauses, JobsWellFormed, WorkerState, MessageRow
    <3> QED
      BY <3>1, <3>2
  <2>15. ASSUME NEW w \in Workers, FailMessage(w) PROVE CleanCopy(n)'
    <3>1. CASE worker[w].id # n
      BY <2>15, <2>3, <3>1 DEF FailMessage, Finish, Idle, JobsWellFormed, WorkerState
    <3>2. CASE worker[w].id = n
      BY <2>0, <2>15, <2>5, <3>2 DEF FailMessage, Finish, Idle, CleanCopy, Clean, Recorded,
         SecondCopyCauses, JobsWellFormed, WorkerState, MessageRow
    <3> QED
      BY <3>1, <3>2
  <2>16. ASSUME NEW w \in Workers, RecordAcceptance(w) PROVE CleanCopy(n)'
    <3>1. CASE worker[w].id # n
      BY <2>16, <2>3, <3>1 DEF RecordAcceptance, Goto, Finish, Idle, JobsWellFormed, WorkerState
    <3>2. CASE worker[w].id = n
      BY SMTT(30), <2>0, <2>16, <2>5, <3>2 DEF RecordAcceptance, Goto, Finish, Idle, CleanCopy, Clean, Recorded,
         SecondCopyCauses, JobsWellFormed, WorkerState, MessageRow
    <3> QED
      BY <3>1, <3>2
  <2>17. ASSUME NEW w \in Workers, MarkAccepted(w) PROVE CleanCopy(n)'
    <3>1. CASE worker[w].id # n
      BY <2>17, <2>3, <3>1 DEF MarkAccepted, Finish, Add, Idle, JobsWellFormed, WorkerState
    <3>2. CASE worker[w].id = n
      <4>1. CASE cause' = Add(n, "unrecorded")
        BY <4>1, <2>23 DEF SecondCopyCauses
      <4>2. CASE marker' = [marker EXCEPT ![n] = TRUE] /\ UNCHANGED cause
        BY <2>0, <2>17, <2>5, <3>2, <4>2 DEF MarkAccepted, Finish, Idle,
           CleanCopy, Clean, Recorded, JobsWellFormed, WorkerState
      <4> QED
        BY <2>17, <3>2, <4>1, <4>2 DEF MarkAccepted
    <3> QED
      BY <3>1, <3>2
  <2>18. ASSUME NEW w \in Workers, Crash(w) PROVE CleanCopy(n)'
    <3>1. CASE worker[w].id # n
      BY <2>18, <2>3, <3>1 DEF Crash, Finish, Add, Idle, JobsWellFormed, WorkerState
    <3>2. CASE worker[w].id = n
      <4>1. CASE worker[w].unrecorded
        BY <2>18, <3>2, <4>1, <2>23 DEF Crash, SecondCopyCauses
      <4>2. CASE ~worker[w].unrecorded
        BY <2>0, <2>18, <3>2, <4>2, CleanCopyFrame DEF Crash, Finish, Idle
      <4> QED
        BY <4>1, <4>2
    <3> QED
      BY <3>1, <3>2
  <2>19. CASE SweepRead \/ SweepEnqueue \/ SweepAbort
    BY <2>0, <2>19, CleanCopyFrame DEF SweepRead, SweepEnqueue, SweepAbort
  <2>20. ASSUME NEW row \in sweep.todo, SweepRequeue(row) PROVE CleanCopy(n)'
    BY <2>0, <2>20, CleanCopyFrame DEF SweepRequeue, StuckRow, MessageRow
  <2>21. ASSUME NEW row \in sweep.todo, SweepFail(row) PROVE CleanCopy(n)'
    BY <2>0, <2>21, CleanCopyFrame DEF SweepFail, StuckRow, MessageRow, Add
  <2>22. CASE UNCHANGED vars
    BY <2>0, <2>22, CleanCopyFrame DEF vars
  <2> QED
    BY <2>1, <2>2, <2>4, <2>6, <2>7, <2>8, <2>9, <2>10, <2>11, <2>12, <2>13,
       <2>14, <2>15, <2>16, <2>17, <2>18, <2>19, <2>20, <2>21, <2>22
       DEF Next, SenderStep, SweepStep
<1> QED
  BY <1>1, <1>2, TypeCorrect, JobsCorrect, OverlapCorrect, PTL DEF Spec

\* Whenever Meta took a message twice, one of the five named faults had
\* happened to it (the guards of sendOutbound and readAcceptanceMarker).
THEOREM CopyCorrect == Spec => []SecondCopyHasACause
<1>1. CopyInv /\ TypeOK => SecondCopyHasACause
  BY DEF CopyInv, CleanCopy, Clean, SecondCopyCauses, SecondCopyHasACause, TypeOK
<1> QED
  BY <1>1, CopyInvariant, TypeCorrect, PTL

-----------------------------------------------------------------------------
(***************************************************************************)
(* A delivered message reported as failed has a cause.                     *)
(***************************************************************************)

\* FaultFree is local to a message, like CleanCopy.
LEMMA FaultFreeFrame ==
    ASSUME NEW m \in Messages, FaultFree(m), cause[m] \subseteq cause'[m],
           copies'[m] = copies[m],
           message'[m].status = "FAILED" => message[m].status = "FAILED",
           \A v \in Workers : cause[m] = {} /\ worker'[v].id = m =>
                /\ worker[v].id = m
                /\ worker'[v].step = "fail" => worker[v].step = "fail" \/ copies[m] = 0
    PROVE  FaultFree(m)'
  BY DEF FaultFree

\* A message no fault has touched is failed only while Meta has taken no copy
\* of it, by its own job and before any acceptance: bookkeeping after an
\* acceptance never fails it, and the sweep fails it only when it is idle.
THEOREM FailureCorrect == Spec => []DeliveredFailureHasACause
<1> DEFINE IInv == \A m \in Messages : FaultFree(m)
<1> USE OutboundSendAssumption
<1>1. Init => IInv
  BY DEF Init, FaultFree, Idle
<1>2. TypeOK /\ JobsWellFormed /\ OverlapIsNoted /\ CopyInv /\ IInv /\ [Next]_vars
        => IInv'
  <2> SUFFICES ASSUME TypeOK, JobsWellFormed, OverlapIsNoted, CopyInv, IInv,
                      [Next]_vars, NEW n \in Messages
               PROVE  FaultFree(n)'
    OBVIOUS
  <2>0. FaultFree(n) /\ CleanCopy(n)
    BY DEF CopyInv
  <2> USE DEF TypeOK, world, budgets
  <2>1. ASSUME NEW m, NEW c, cause' = Add(m, c)
        PROVE  cause[n] \subseteq cause'[n]
    BY <2>1 DEF Add
  <2>2. ASSUME NEW m \in Messages, QueueOutbound(m) \/ Age(m) PROVE FaultFree(n)'
    <3>1. UNCHANGED <<worker, copies, cause>>
      BY <2>2 DEF QueueOutbound, Age
    <3>2. message'[n].status = "FAILED" => message[n].status = "FAILED"
      BY <2>2 DEF QueueOutbound, Age, MessageRow
    <3> QED
      BY <2>0, <3>1, <3>2, FaultFreeFrame
  <2>3. ASSUME NEW w \in Workers, NEW m \in Messages, StartJob(w, m)
        PROVE  FaultFree(n)'
    <3>1. CASE n = m /\ SendGuard(message[m])
      <4>1. message'[n] = message[n] /\ copies'[n] = copies[n] /\ cause[n] \subseteq cause'[n]
        BY <2>3, <2>1 DEF StartJob
      <4>2. worker'[w].step = "marker" /\ \A v \in Workers : v # w => worker'[v] = worker[v]
        BY <2>3, <3>1 DEF StartJob
      <4> QED
        BY <2>0, <3>1, <4>1, <4>2 DEF FaultFree, SendGuard
    <3>2. CASE ~(n = m /\ SendGuard(message[m]))
      <4>1. message'[n] = message[n] /\ copies'[n] = copies[n] /\ cause[n] \subseteq cause'[n]
        BY <2>3, <2>1 DEF StartJob
      <4>2. \A v \in Workers : worker'[v].id = n => worker'[v] = worker[v]
        BY <2>3, <3>2 DEF StartJob
      <4> QED
        BY <2>0, <4>1, <4>2, FaultFreeFrame
    <3> QED
      BY <3>1, <3>2
  <2>4. ASSUME NEW w \in Workers, NEW s \in Steps, Goto(w, s)
        PROVE  /\ worker'[w].id = worker[w].id /\ worker'[w].step = s
               /\ \A v \in Workers : v # w => worker'[v] = worker[v]
    BY <2>4 DEF Goto, WorkerState
  <2>5. ASSUME NEW w \in Workers, Finish(w)
        PROVE  /\ worker'[w].id # n
               /\ \A v \in Workers : v # w => worker'[v] = worker[v]
    BY <2>5 DEF Finish, Idle
  <2>6. ASSUME NEW w \in Workers,
               \A v \in Workers : v # w => worker'[v] = worker[v],
               cause[n] \subseteq cause'[n], copies'[n] = copies[n],
               message'[n].status = "FAILED" => message[n].status = "FAILED",
               worker'[w].id # n
                 \/ /\ worker'[w].id = worker[w].id
                    /\ \/ worker'[w].step # "fail"
                       \/ cause[n] = {} /\ worker[w].id = n => copies[n] = 0
        PROVE  FaultFree(n)'
    BY <2>0, <2>6, FaultFreeFrame
  <2>7. ASSUME NEW w \in Workers, worker[w].id = n, cause[n] = {},
               worker[w].step \in {"gate", "send"}
        PROVE  /\ copies[n] = 0 /\ message[n].status # "FAILED"
               /\ \A v \in Workers : v # w => worker[v].id # n
    BY <2>0, <2>7 DEF FaultFree, CleanCopy, Clean, OverlapIsNoted
  <2>8. ASSUME NEW c, cause' = Add(n, c) PROVE FaultFree(n)'
    BY <2>8 DEF Add, FaultFree
  <2>9. ASSUME NEW w \in Workers, ReadMarker(w) PROVE FaultFree(n)'
    BY <2>9, <2>1, <2>4, <2>5, <2>6 DEF ReadMarker, Steps
  <2>10. ASSUME NEW w \in Workers, Gate(w) PROVE FaultFree(n)'
    BY <2>10, <2>4, <2>5, <2>6, <2>7 DEF Gate, Steps
  <2>11. ASSUME NEW w \in Workers, SendAccepted(w) PROVE FaultFree(n)'
    <3>1. worker'[w].id = worker[w].id /\ worker'[w].step = "record"
      BY <2>11 DEF SendAccepted, WorkerState
    <3>2. \A v \in Workers : v # w => worker'[v] = worker[v]
      BY <2>11 DEF SendAccepted
    <3>3. message' = message /\ cause' = cause /\ worker[w].step = "send"
      BY <2>11 DEF SendAccepted
    <3>4. CASE worker[w].id = n
      BY <3>1, <3>2, <3>3, <3>4, <2>7 DEF FaultFree
    <3>5. CASE worker[w].id # n
      <4>1. copies'[n] = copies[n]
        BY <2>11, <3>5 DEF SendAccepted, Transmitted
      <4> QED
        BY <3>1, <3>2, <3>3, <4>1, <2>6
    <3> QED
      BY <3>4, <3>5
  <2>12. ASSUME NEW w \in Workers, NEW took \in BOOLEAN, NEW s \in {"fail", "retry"},
                worker[w].step = "send", Transmitted(worker[w].id, took),
                worker'[w].id = worker[w].id, worker'[w].step = s,
                \A v \in Workers : v # w => worker'[v] = worker[v],
                message' = message,
                took /\ worker[w].id = n => \E c \in Causes : cause' = Add(n, c),
                cause[n] \subseteq cause'[n]
        PROVE  FaultFree(n)'
    <3>1. CASE took /\ worker[w].id = n
      BY <2>12, <3>1, <2>8
    <3>2. CASE ~(took /\ worker[w].id = n)
      <4>1. copies'[n] = copies[n]
        BY <2>12, <3>2 DEF Transmitted
      <4> QED
        BY <2>12, <4>1, <2>6, <2>7
    <3> QED
      BY <3>1, <3>2
  <2>13. ASSUME NEW w \in Workers, NEW took \in BOOLEAN, SendUnanswered(w, took)
         PROVE  FaultFree(n)'
    <3>1. worker'[w].id = worker[w].id /\ worker'[w].step = "fail"
      BY <2>13 DEF SendUnanswered, WorkerState
    <3>2. \A v \in Workers : v # w => worker'[v] = worker[v]
      BY <2>13 DEF SendUnanswered
    <3>3. cause[n] \subseteq cause'[n]
      BY <2>13, <2>1 DEF SendUnanswered
    <3>4. took => cause' = Add(worker[w].id, "timeout")
      BY <2>13 DEF SendUnanswered
    <3> QED
      BY <2>13, <3>1, <3>2, <3>3, <3>4, <2>12 DEF SendUnanswered, Causes
  <2>14. ASSUME NEW w \in Workers, NEW took \in BOOLEAN, SendBroken(w, took)
         PROVE  FaultFree(n)'
    <3>1. PICK s \in {"fail", "retry"} : Goto(w, s)
      BY <2>14 DEF SendBroken, RetryStep
    <3>2. cause[n] \subseteq cause'[n]
      BY <2>14, <2>1 DEF SendBroken
    <3>3. took => cause' = Add(worker[w].id, "reset")
      BY <2>14 DEF SendBroken
    <3> QED
      BY <2>14, <3>1, <3>2, <3>3, <2>4, <2>12 DEF SendBroken, Causes, Steps
  <2>15. ASSUME NEW w \in Workers, SendThrottled(w) \/ SendRefused(w)
         PROVE  FaultFree(n)'
    <3>1. PICK s \in {"fail", "retry"} : Goto(w, s)
      BY <2>15 DEF SendThrottled, SendRefused, RetryStep
    <3> QED
      BY <2>15, <3>1, <2>4, <2>12 DEF SendThrottled, SendRefused, Steps
  <2>16. ASSUME NEW w \in Workers, RecordRetry(w) PROVE FaultFree(n)'
    BY <2>16, <2>4, <2>6 DEF RecordRetry, Steps, MessageRow
  <2>17. ASSUME NEW w \in Workers, Reschedule(w) PROVE FaultFree(n)'
    BY <2>17, <2>5, <2>6 DEF Reschedule
  <2>18. ASSUME NEW w \in Workers, FailMessage(w) PROVE FaultFree(n)'
    <3>1. CASE worker[w].id # n
      BY <2>18, <3>1, <2>5, <2>6 DEF FailMessage
    <3>2. CASE worker[w].id = n
      <4>1. cause[n] = {} => copies[n] = 0 /\ \A v \in Workers : v # w => worker[v].id # n
        BY <2>0, <2>18, <3>2 DEF FailMessage, FaultFree, OverlapIsNoted
      <4> QED
        BY <2>18, <4>1, <2>5 DEF FailMessage, FaultFree
    <3> QED
      BY <3>1, <3>2
  <2>19. ASSUME NEW w \in Workers, RecordAcceptance(w) PROVE FaultFree(n)'
    BY SMTT(30), <2>19, <2>4, <2>5, <2>6 DEF RecordAcceptance, Steps, MessageRow
  <2>20. ASSUME NEW w \in Workers, MarkAccepted(w) PROVE FaultFree(n)'
    BY <2>20, <2>1, <2>5, <2>6 DEF MarkAccepted
  <2>21. ASSUME NEW w \in Workers, Crash(w) PROVE FaultFree(n)'
    BY <2>21, <2>1, <2>5, <2>6 DEF Crash
  <2>22. CASE SweepRead \/ SweepEnqueue \/ SweepAbort
    BY <2>0, <2>22, FaultFreeFrame DEF SweepRead, SweepEnqueue, SweepAbort
  <2>23. ASSUME NEW row \in sweep.todo, SweepRequeue(row) PROVE FaultFree(n)'
    BY <2>0, <2>23, FaultFreeFrame DEF SweepRequeue, StuckRow, MessageRow
  <2>24. ASSUME NEW row \in sweep.todo, SweepFail(row) PROVE FaultFree(n)'
    <3>1. CASE row.id # n
      BY <2>0, <2>24, <3>1, <2>1, FaultFreeFrame DEF SweepFail
    <3>2. CASE row.id = n /\ (copies[n] > 0 \/ InFlight(n) # {})
      BY <2>24, <3>2, <2>8 DEF SweepFail
    <3>3. CASE row.id = n /\ ~(copies[n] > 0 \/ InFlight(n) # {})
      BY <2>24, <3>3 DEF SweepFail, FaultFree, InFlight
    <3> QED
      BY <3>1, <3>2, <3>3
  <2>25. CASE UNCHANGED vars
    BY <2>0, <2>25, FaultFreeFrame DEF vars
  <2> QED
    BY <2>2, <2>3, <2>9, <2>10, <2>11, <2>13, <2>14, <2>15, <2>16, <2>17, <2>18,
       <2>19, <2>20, <2>21, <2>22, <2>23, <2>24, <2>25 DEF Next, SenderStep, SweepStep
<1>3. IInv => DeliveredFailureHasACause
  BY DEF FaultFree, DeliveredFailureHasACause
<1> QED
  BY <1>1, <1>2, <1>3, TypeCorrect, JobsCorrect, OverlapCorrect, CopyInvariant,
     PTL DEF Spec


-----------------------------------------------------------------------------
(***************************************************************************)
(* Requests to Meta are bounded.                                           *)
(***************************************************************************)

\* Jobs and the sweep only take up messages that queueOutbound has created.
LEMMA FreshCorrect == Spec => [](\A m \in Messages : Fresh(m))
<1> DEFINE IInv == \A m \in Messages : Fresh(m)
<1> USE OutboundSendAssumption
<1>1. Init => IInv
  BY DEF Init, Fresh, Idle, NoSweep
<1>2. TypeOK /\ JobsWellFormed /\ IInv /\ [Next]_vars => IInv'
  <2> SUFFICES ASSUME TypeOK, JobsWellFormed, IInv, [Next]_vars,
                      NEW n \in Messages, message'[n].status = "NONE"
               PROVE  Fresh(n)'
    BY DEF Fresh
  <2> USE DEF TypeOK, world, budgets
  <2>0. ASSUME message[n].status = "NONE", attempts'[n] = attempts[n],
               sweep'.enqueue = n => sweep.enqueue = n,
               \A row \in sweep'.todo : row.id = n => row \in sweep.todo,
               \A v \in Workers : worker'[v].id = n => worker[v].id = n
        PROVE  Fresh(n)'
    BY <2>0 DEF Fresh
  <2>1. ASSUME NEW m \in Messages, QueueOutbound(m) PROVE Fresh(n)'
    BY <2>0, <2>1 DEF QueueOutbound, MessageRow
  <2>2. ASSUME NEW w \in Workers, NEW m \in Messages, StartJob(w, m) PROVE Fresh(n)'
    <3>1. message[n].status = "NONE" /\ attempts' = attempts /\ sweep' = sweep
      BY <2>2 DEF StartJob
    <3>2. \A v \in Workers : worker'[v].id = n => worker[v].id = n
      BY <2>2, <3>1 DEF StartJob, SendGuard
    <3> QED
      BY <3>1, <3>2, <2>0
  <2>3. ASSUME NEW w \in Workers, SenderStep(w) PROVE Fresh(n)'
    <3>1. CASE \E m \in Messages : StartJob(w, m)
      BY <3>1, <2>2
    <3>2. CASE ~ \E m \in Messages : StartJob(w, m)
      <4>1. worker[w].id # NoMessage /\ worker[w].id \in Messages
        BY <2>3, <3>2 DEF JobsWellFormed, SenderStep, ReadMarker, Gate, SendAccepted,
           SendUnanswered, SendBroken, SendThrottled, SendRefused, RecordRetry,
           Reschedule, FailMessage, RecordAcceptance, MarkAccepted, Crash
      <4>2. message[n].status = "NONE"
        <5>1. CASE RecordRetry(w)
          BY <5>1 DEF RecordRetry, MessageRow
        <5>2. CASE FailMessage(w)
          BY <5>2 DEF FailMessage, MessageRow
        <5>3. CASE RecordAcceptance(w)
          BY <5>3 DEF RecordAcceptance, MessageRow
        <5>4. CASE UNCHANGED message
          BY <5>4
        <5> QED
          BY <2>3, <3>2, <5>1, <5>2, <5>3, <5>4 DEF SenderStep, ReadMarker, Gate,
             SendAccepted, SendUnanswered, SendBroken, SendThrottled, SendRefused,
             Reschedule, MarkAccepted, Crash
      <4>3. worker[w].id # n
        BY <4>2 DEF Fresh
      <4>4. attempts'[n] = attempts[n]
        BY <2>3, <3>2, <4>3 DEF SenderStep, ReadMarker, Gate, SendAccepted,
           SendUnanswered, SendBroken, SendThrottled, SendRefused, RecordRetry,
           Reschedule, FailMessage, RecordAcceptance, MarkAccepted, Crash, Transmitted
      <4>5. \A v \in Workers : worker'[v].id = n => worker[v].id = n
        <5>1. PICK s \in Steps, b \in BOOLEAN :
                 \/ worker' = [worker EXCEPT ![w].step = s]
                 \/ worker' = [worker EXCEPT ![w].step = s, ![w].unrecorded = b]
                 \/ worker' = [worker EXCEPT ![w] = Idle]
          BY <2>3, <3>2 DEF SenderStep, ReadMarker, Gate, SendAccepted,
             SendUnanswered, SendBroken, SendThrottled, SendRefused, RecordRetry,
             Reschedule, FailMessage, RecordAcceptance, MarkAccepted, Crash,
             Goto, Finish, RetryStep, Steps
        <5> QED
          BY <5>1 DEF Idle, WorkerState
      <4>6. sweep' = sweep
        BY <2>3, <3>2 DEF SenderStep, ReadMarker, Gate, SendAccepted,
           SendUnanswered, SendBroken, SendThrottled, SendRefused, RecordRetry,
           Reschedule, FailMessage, RecordAcceptance, MarkAccepted, Crash
      <4> QED
        BY <4>2, <4>4, <4>5, <4>6, <2>0
    <3> QED
      BY <3>1, <3>2
  <2>4. CASE SweepRead
    BY <2>0, <2>4 DEF SweepRead, Stuck, NoSweep, Fresh
  <2>5. ASSUME NEW row \in sweep.todo, SweepRequeue(row) PROVE Fresh(n)'
    <3>1. message[n].status = "NONE"
      BY <2>5 DEF SweepRequeue, MessageRow
    <3>2. row.id # n
      BY <3>1 DEF Fresh
    <3> QED
      BY <2>0, <2>5, <3>1, <3>2 DEF SweepRequeue
  <2>6. ASSUME NEW row \in sweep.todo, SweepFail(row) PROVE Fresh(n)'
    BY <2>0, <2>6 DEF SweepFail, StuckRow, MessageRow
  <2>7. CASE SweepEnqueue \/ SweepAbort \/ UNCHANGED vars \/ \E m \in Messages : Age(m)
    BY <2>0, <2>7 DEF SweepEnqueue, SweepAbort, NoSweep, vars, Age
  <2> QED
    BY <2>1, <2>3, <2>4, <2>5, <2>6, <2>7 DEF Next, SweepStep
<1> QED
  BY <1>1, <1>2, TypeCorrect, JobsCorrect, PTL DEF Spec

\* The faults noted for a message are never forgotten.
LEMMA CauseGrows ==
    ASSUME TypeOK, [Next]_vars, NEW n \in Messages
    PROVE  cause[n] \subseteq cause'[n]
<1> USE DEF TypeOK
<1>1. ASSUME NEW m, NEW c, cause' = Add(m, c) PROVE cause[n] \subseteq cause'[n]
  BY <1>1 DEF Add
<1>2. ASSUME NEW w \in Workers, SenderStep(w) PROVE cause[n] \subseteq cause'[n]
  BY <1>1, <1>2 DEF SenderStep, StartJob, ReadMarker, Gate, SendAccepted,
     SendUnanswered, SendBroken, SendThrottled, SendRefused, RecordRetry,
     Reschedule, FailMessage, RecordAcceptance, MarkAccepted, Crash
<1>3. CASE SweepStep
  BY <1>1, <1>3 DEF SweepStep, SweepRequeue, SweepEnqueue, SweepFail
<1>4. CASE UNCHANGED vars
  BY <1>4 DEF vars
<1> QED
  BY <1>2, <1>3, <1>4 DEF Next, QueueOutbound, Age, SweepRead, SweepAbort

\* A job of another message does not count, before or after its step.
LEMMA HoldingOther ==
    ASSUME NEW n \in Messages, NEW w \in Workers,
           worker[w].id # n, worker'[w].id # n,
           \A v \in Workers : v # w => worker'[v] = worker[v]
    PROVE  Holding(n)' = Holding(n)
  BY DEF Holding

\* When at most one job is running for the message, it alone counts.
LEMMA HoldingOwn ==
    ASSUME NEW n \in Messages, NEW w \in Workers,
           \A v \in Workers : v # w => worker[v].id # n,
           \A v \in Workers : v # w => worker'[v].id # n
    PROVE  /\ Holding(n) = IF worker[w].id = n /\ worker[w].step \in UnspentSteps
                           THEN 1 ELSE 0
           /\ Holding(n)' = IF worker'[w].id = n /\ worker'[w].step \in UnspentSteps
                            THEN 1 ELSE 0
  BY DEF Holding

\* AttemptOK is local to a message: what matters is that requests and claims
\* on requests together do not grow faster than the budget.
LEMMA AttemptFrame ==
    ASSUME TypeOK, NEW n \in Messages, AttemptOK(n), "overlap" \notin cause[n],
           message'[n].retryCount = message[n].retryCount,
           NEW granted \in Nat,
           requeues'[n] + redeliveries' = requeues[n] + redeliveries + granted,
           requeues'[n] \in Nat, redeliveries' \in Nat,
           attempts'[n] \in Nat, jobs'[n] \in Nat,
           attempts'[n] + jobs'[n] + Holding(n)' + Pending(n)'
                <= attempts[n] + jobs[n] + Holding(n) + Pending(n) + granted,
           \A v \in Workers : CopyIsCurrent(v, n)'
    PROVE  AttemptOK(n)'
<1>1. message[n].retryCount \in Nat /\ requeues[n] \in Nat /\ redeliveries \in Nat
      /\ attempts[n] \in Nat /\ jobs[n] \in Nat
  BY OutboundSendAssumption DEF TypeOK, MessageRow
<1>2. Holding(n) \in Nat /\ Pending(n) \in Nat /\ Holding(n)' \in Nat /\ Pending(n)' \in Nat
  BY DEF Holding, Pending
<1>3. Budgeted(n) /\ message[n].retryCount <= MaxSendAttempts
  BY DEF AttemptOK
<1>4. Budgeted(n)'
  BY <1>1, <1>2, <1>3 DEF Budgeted
<1> QED
  BY <1>3, <1>4 DEF AttemptOK

\* MAX_SEND_ATTEMPTS bounds the requests: while no two jobs overlap, a job or
\* an enqueued job stands for at most one more request, the row's counter is
\* the job's own, and only the sweep and the queue add to the budget.
THEOREM AttemptCorrect == Spec => []AttemptsBounded
<1> DEFINE IInv == \A m \in Messages : AttemptOK(m)
           New == \A m \in Messages : Fresh(m)
<1> USE OutboundSendAssumption
<1>1. Init => IInv
  BY DEF Init, AttemptOK, Budgeted, CopyIsCurrent, Holding, Pending, Idle, NoSweep
<1>2. TypeOK /\ TypeOK' /\ JobsWellFormed /\ OverlapIsNoted /\ New /\ IInv /\ [Next]_vars
        => IInv'
  <2> SUFFICES ASSUME TypeOK, TypeOK', JobsWellFormed, OverlapIsNoted, New, IInv,
                      [Next]_vars, NEW n \in Messages, "overlap" \notin cause'[n]
               PROVE  AttemptOK(n)'
    BY DEF AttemptOK
  <2>0. "overlap" \notin cause[n] /\ AttemptOK(n) /\ Fresh(n)
    BY CauseGrows
  <2>1. /\ requeues'[n] \in Nat /\ redeliveries' \in Nat /\ attempts'[n] \in Nat
        /\ jobs'[n] \in Nat /\ requeues[n] \in Nat /\ redeliveries \in Nat
        /\ attempts[n] \in Nat /\ jobs[n] \in Nat /\ message[n].retryCount \in Nat
        /\ Holding(n) \in {0, 1} /\ Holding(n)' \in {0, 1}
        /\ Pending(n) \in {0, 1} /\ Pending(n)' \in {0, 1}
    BY DEF TypeOK, MessageRow, Holding, Pending
  <2>2. \A v \in Workers : CopyIsCurrent(v, n)
    BY <2>0 DEF AttemptOK
  \* A step of a job for another message.
  <2>3. ASSUME NEW w \in Workers, worker[w].id # n, worker'[w].id # n,
               \A v \in Workers : v # w => worker'[v] = worker[v],
               message'[n] = message[n], attempts'[n] = attempts[n],
               jobs'[n] = jobs[n], UNCHANGED <<requeues, redeliveries, sweep>>
        PROVE  AttemptOK(n)'
    <3>1. Holding(n)' = Holding(n) /\ Pending(n)' = Pending(n)
      BY <2>3, HoldingOther DEF Pending
    <3>2. \A v \in Workers : CopyIsCurrent(v, n)'
      BY <2>2, <2>3 DEF CopyIsCurrent
    <3> QED
      BY <2>0, <2>1, <2>3, <3>1, <3>2, 0 \in Nat, AttemptFrame
  \* A step of the one job that is running for this message.
  <2>4. ASSUME NEW w \in Workers, worker[w].id = n,
               \A v \in Workers : v # w => worker'[v] = worker[v]
        PROVE  /\ Holding(n) = IF worker[w].step \in UnspentSteps THEN 1 ELSE 0
               /\ Holding(n)' = IF worker'[w].id = n /\ worker'[w].step \in UnspentSteps
                                THEN 1 ELSE 0
               /\ CopyIsCurrent(w, n)' => \A v \in Workers : CopyIsCurrent(v, n)'
    <3>1. \A v \in Workers : v # w => worker[v].id # n /\ worker'[v].id # n
      BY <2>0, <2>4 DEF OverlapIsNoted
    <3>2. \A v \in Workers : v # w => CopyIsCurrent(v, n)'
      BY <3>1 DEF CopyIsCurrent
    <3> QED
      BY <2>4, <3>1, <3>2, HoldingOwn
  <2>5. ASSUME NEW w \in Workers, worker[w].id = n,
               \A v \in Workers : v # w => worker'[v] = worker[v],
               message'[n].retryCount = message[n].retryCount,
               UNCHANGED <<requeues, redeliveries, sweep>>,
               attempts'[n] + jobs'[n] + Holding(n)'
                  <= attempts[n] + jobs[n] + Holding(n),
               CopyIsCurrent(w, n)'
        PROVE  AttemptOK(n)'
    <3>1. Pending(n)' = Pending(n)
      BY <2>5 DEF Pending
    <3>2. \A v \in Workers : CopyIsCurrent(v, n)'
      BY <2>4, <2>5
    <3>3. attempts'[n] + jobs'[n] + Holding(n)' + Pending(n)'
             <= attempts[n] + jobs[n] + Holding(n) + Pending(n) + 0
      BY <2>1, <2>5, <3>1
    <3> QED
      BY <2>0, <2>1, <2>5, <3>2, <3>3, 0 \in Nat, AttemptFrame
  <2>6. ASSUME NEW m \in Messages, QueueOutbound(m) PROVE AttemptOK(n)'
    <3>1. CASE n = m
      <4>1. /\ attempts[n] = 0 /\ sweep.enqueue # n
            /\ \A v \in Workers : worker[v].id # n
        BY <2>0, <2>6, <3>1 DEF Fresh, QueueOutbound
      <4>2. Holding(n)' = 0 /\ Pending(n)' = 0
        BY <2>6, <4>1 DEF QueueOutbound, Holding, Pending
      <4>3. /\ attempts'[n] = 0 /\ jobs'[n] <= 1 /\ message'[n].retryCount = message[n].retryCount
            /\ UNCHANGED <<requeues, redeliveries, worker>>
        BY <2>6, <3>1, <4>1 DEF QueueOutbound, TypeOK, MessageRow, world, budgets
      <4>4. Budgeted(n)'
        BY <2>1, <4>2, <4>3 DEF Budgeted
      <4> QED
        BY <2>0, <4>1, <4>3, <4>4 DEF AttemptOK, CopyIsCurrent
    <3>2. CASE n # m
      <4>1. /\ UNCHANGED <<worker, requeues, redeliveries, sweep>>
            /\ message'[n] = message[n] /\ attempts'[n] = attempts[n] /\ jobs'[n] = jobs[n]
        BY <2>6, <3>2 DEF QueueOutbound, TypeOK, world, budgets
      <4> QED
        BY <2>0, <4>1 DEF AttemptOK, Budgeted, Holding, Pending, CopyIsCurrent
    <3> QED
      BY <3>1, <3>2
  <2>7. ASSUME NEW w \in Workers, NEW m \in Messages, StartJob(w, m)
        PROVE  AttemptOK(n)'
    <3>0. /\ \A v \in Workers : v # w => worker'[v] = worker[v]
          /\ UNCHANGED <<message, attempts, requeues, sweep>>
          /\ worker[w] = Idle /\ worker[w].id # n
      BY <2>7 DEF StartJob, world, Idle, TypeOK
    <3>1. CASE n # m
      <4>1. CASE redeliveries' = redeliveries
        BY <2>7, <3>0, <3>1, <4>1, <2>3 DEF StartJob, TypeOK
      <4>2. CASE jobs' = jobs /\ redeliveries' = redeliveries + 1
        <5>1. worker'[w].id # n
          BY <2>7, <3>0, <3>1 DEF StartJob, TypeOK
        <5>2. Holding(n)' = Holding(n) /\ Pending(n)' = Pending(n)
          BY <3>0, <5>1, HoldingOther DEF Pending
        <5>3. \A v \in Workers : CopyIsCurrent(v, n)'
          BY <2>2, <3>0, <5>1 DEF CopyIsCurrent
        <5>4. /\ requeues[n] \in Nat /\ redeliveries \in Nat /\ attempts[n] \in Nat
              /\ jobs[n] \in Nat
          BY <2>1 DEF TypeOK
        <5>5. /\ requeues'[n] + redeliveries' = requeues[n] + redeliveries + 1
              /\ requeues'[n] \in Nat /\ redeliveries' \in Nat
          BY <3>0, <4>2, <5>4
        <5>6. /\ attempts'[n] \in Nat /\ jobs'[n] \in Nat
              /\ attempts'[n] + jobs'[n] + Holding(n)' + Pending(n)'
                   <= attempts[n] + jobs[n] + Holding(n) + Pending(n) + 1
          BY <3>0, <4>2, <5>2, <5>4 DEF Holding, Pending
        <5>7. AttemptOK(n) /\ "overlap" \notin cause[n]
          BY <2>0
        <5>8. message'[n].retryCount = message[n].retryCount
          BY <3>0
        <5> QED
          BY <2>1, <5>3, <5>5, <5>6, <5>7, <5>8, AttemptFrame
      <4> QED
        BY <2>7, <4>1, <4>2 DEF StartJob
    <3>2. CASE n = m /\ ~SendGuard(message[m])
      <4>1. worker' = worker
        BY <2>7, <3>2 DEF StartJob
      <4>2. Holding(n)' = Holding(n) /\ Pending(n)' = Pending(n)
        BY <3>0, <4>1 DEF Holding, Pending
      <4>3. PICK g \in {0, 1} : /\ redeliveries' = redeliveries + g
                                /\ jobs'[n] <= jobs[n] + g
        BY <2>1, <2>7, <3>2 DEF StartJob, TypeOK
      <4>4. \A v \in Workers : CopyIsCurrent(v, n)'
        BY <2>2, <3>0, <4>1 DEF CopyIsCurrent
      <4> QED
        BY <2>0, <2>1, <3>0, <4>2, <4>3, <4>4, AttemptFrame
    <3>3. CASE n = m /\ SendGuard(message[m])
      <4>1. InFlight(n) = {}
        BY <2>0, <2>7, <3>3 DEF StartJob, Add, TypeOK
      <4>2. \A v \in Workers : v # w => worker[v].id # n /\ worker'[v].id # n
        BY <3>0, <4>1 DEF InFlight
      <4>3. Holding(n) = 0 /\ Holding(n)' <= 1
        BY <2>1, <3>0, <4>2, HoldingOwn
      <4>4. Pending(n)' = Pending(n)
        BY <3>0 DEF Pending
      <4>5. PICK g \in {0, 1} : /\ redeliveries' = redeliveries + g
                                /\ jobs'[n] <= jobs[n] + g - 1
        BY <2>1, <2>7, <3>3 DEF StartJob, TypeOK
      <4>6. \A v \in Workers : CopyIsCurrent(v, n)'
        <5>1. worker'[w].step = "marker" /\ worker'[w].retryCount = message'[n].retryCount
          BY <2>7, <3>0, <3>3 DEF StartJob, TypeOK
        <5> QED
          BY <4>2, <5>1 DEF CopyIsCurrent
      <4>7. attempts'[n] + jobs'[n] + Holding(n)' + Pending(n)'
               <= attempts[n] + jobs[n] + Holding(n) + Pending(n) + g
        BY <2>1, <3>0, <4>3, <4>4, <4>5
      <4>8. requeues'[n] + redeliveries' = requeues[n] + redeliveries + g
        BY <2>1, <3>0, <4>5
      <4> QED
        BY <2>0, <2>1, <3>0, <4>5, <4>6, <4>7, <4>8, g \in Nat, AttemptFrame
    <3> QED
      BY <3>1, <3>2, <3>3
  \* A step that ends the job, or moves it on.
  <2>8. ASSUME NEW w \in Workers, Finish(w)
        PROVE  /\ worker'[w].id # n
               /\ \A v \in Workers : v # w => worker'[v] = worker[v]
    BY <2>8 DEF Finish, Idle, TypeOK
  <2>9. ASSUME NEW w \in Workers, NEW s \in Steps, Goto(w, s)
        PROVE  /\ worker'[w].id = worker[w].id /\ worker'[w].step = s
               /\ worker'[w].retryCount = worker[w].retryCount
               /\ \A v \in Workers : v # w => worker'[v] = worker[v]
    BY <2>9 DEF Goto, TypeOK, WorkerState
  <2>10. ASSUME NEW w \in Workers, NEW s \in Steps, NEW b \in BOOLEAN,
                worker' = [worker EXCEPT ![w].step = s, ![w].unrecorded = b]
         PROVE  /\ worker'[w].id = worker[w].id /\ worker'[w].step = s
                /\ worker'[w].retryCount = worker[w].retryCount
                /\ \A v \in Workers : v # w => worker'[v] = worker[v]
    BY <2>10 DEF TypeOK, WorkerState
  <2>11. ASSUME NEW w \in Workers, ReadMarker(w) \/ Crash(w) PROVE AttemptOK(n)'
    <3>1. CASE Finish(w)
      <4>1. CASE worker[w].id = n
        BY <2>1, <2>4, <2>5, <2>8, <2>11, <3>1, <4>1 DEF ReadMarker, Crash, world,
           budgets, CopyIsCurrent
      <4>2. CASE worker[w].id # n
        BY <2>3, <2>8, <2>11, <3>1, <4>2 DEF ReadMarker, Crash, world, budgets
      <4> QED
        BY <4>1, <4>2
    <3>2. CASE worker[w].step = "marker" /\ Goto(w, "gate")
      <4>1. CASE worker[w].id = n
        BY <2>1, <2>2, <2>4, <2>5, <2>9, <2>11, <3>2, <4>1 DEF ReadMarker, Crash, world,
           budgets, CopyIsCurrent, UnspentSteps, Steps
      <4>2. CASE worker[w].id # n
        BY <2>3, <2>9, <2>11, <3>2, <4>2 DEF ReadMarker, Crash, world, budgets, Steps
      <4> QED
        BY <4>1, <4>2
    <3> QED
      BY <2>11, <3>1, <3>2 DEF ReadMarker, Crash
  <2>12. ASSUME NEW w \in Workers, Gate(w) \/ Reschedule(w) PROVE AttemptOK(n)'
    <3>0. /\ UNCHANGED <<message, attempts, redeliveries, requeues, sweep>>
          /\ worker[w].step \in {"gate", "reschedule"}
      BY <2>12 DEF Gate, Reschedule, world, budgets
    <3>1. ASSUME NEW landed \in {0, 1}, Finish(w),
                 jobs' = [jobs EXCEPT ![worker[w].id] = @ + landed]
          PROVE  AttemptOK(n)'
      <4>1. CASE worker[w].id = n
        <5>1. jobs'[n] = jobs[n] + landed
          BY <3>1, <4>1 DEF TypeOK
        <5>2. Holding(n) = 1 /\ Holding(n)' = 0
          BY <2>4, <2>8, <3>0, <3>1, <4>1 DEF UnspentSteps
        <5>3. attempts'[n] + jobs'[n] + Holding(n)' <= attempts[n] + jobs[n] + Holding(n)
          BY <2>1, <3>0, <5>1, <5>2
        <5> QED
          BY <2>5, <2>8, <3>0, <3>1, <4>1, <5>3 DEF CopyIsCurrent
      <4>2. CASE worker[w].id # n
        BY <2>3, <2>8, <3>0, <3>1, <4>2 DEF TypeOK
      <4> QED
        BY <4>1, <4>2
    <3>2. ASSUME NEW s \in {"fail", "send"}, worker[w].step = "gate", Goto(w, s), jobs' = jobs
          PROVE  AttemptOK(n)'
      <4>1. CASE worker[w].id = n
        <5>1. CopyIsCurrent(w, n)'
          BY <2>2, <2>9, <3>0, <3>2, <4>1 DEF CopyIsCurrent, Steps
        <5>2. Holding(n)' <= Holding(n)
          BY <2>1, <2>4, <2>9, <3>2, <4>1 DEF UnspentSteps, Steps
        <5> QED
          BY <2>1, <2>5, <2>9, <3>0, <3>2, <4>1, <5>1, <5>2 DEF Steps
      <4>2. CASE worker[w].id # n
        BY <2>3, <2>9, <3>0, <3>2, <4>2 DEF Steps
      <4> QED
        BY <4>1, <4>2
    <3> QED
      BY <2>12, <3>1, <3>2 DEF Gate, Reschedule
  \* One request: the job's claim becomes an attempt.
  <2>13. ASSUME NEW w \in Workers, NEW took \in BOOLEAN, NEW s \in {"record", "fail", "retry"},
                worker[w].step = "send", Transmitted(worker[w].id, took),
                worker'[w].id = worker[w].id, worker'[w].step = s,
                worker'[w].retryCount = worker[w].retryCount,
                s = "retry" => worker[w].retryCount < MaxSendAttempts,
                \A v \in Workers : v # w => worker'[v] = worker[v],
                UNCHANGED <<message, jobs, redeliveries, requeues, sweep>>
         PROVE  AttemptOK(n)'
    <3>1. CASE worker[w].id = n
      <4>1. attempts'[n] = attempts[n] + 1
        BY <2>13, <3>1 DEF Transmitted, TypeOK
      <4>2. Holding(n) = 1 /\ Holding(n)' = 0
        BY <2>4, <2>13, <3>1 DEF UnspentSteps
      <4>3. CopyIsCurrent(w, n)'
        BY <2>2, <2>13, <3>1 DEF CopyIsCurrent
      <4> QED
        BY <2>1, <2>5, <2>13, <3>1, <4>1, <4>2, <4>3
    <3>2. CASE worker[w].id # n
      <4>1. attempts'[n] = attempts[n]
        BY <2>13, <3>2 DEF Transmitted, TypeOK
      <4> QED
        BY <2>3, <2>13, <3>2, <4>1
    <3> QED
      BY <3>1, <3>2
  <2>14. ASSUME NEW w \in Workers, SendAccepted(w) PROVE AttemptOK(n)'
    BY <2>10, <2>13, <2>14 DEF SendAccepted, Steps, budgets
  <2>15. ASSUME NEW w \in Workers, NEW took \in BOOLEAN, SendUnanswered(w, took)
         PROVE  AttemptOK(n)'
    <3>1. /\ worker[w].step = "send" /\ Transmitted(worker[w].id, took)
          /\ worker' = [worker EXCEPT ![w].step = "fail", ![w].unrecorded = took]
          /\ UNCHANGED <<message, jobs, redeliveries, requeues, sweep>>
      BY <2>15 DEF SendUnanswered, budgets
    <3>2. /\ worker'[w].id = worker[w].id /\ worker'[w].step = "fail"
          /\ worker'[w].retryCount = worker[w].retryCount
          /\ \A v \in Workers : v # w => worker'[v] = worker[v]
      BY <3>1, "fail" \in Steps, <2>10 DEF Steps
    <3> QED
      BY <2>13, <3>1, <3>2
  <2>16. ASSUME NEW w \in Workers, NEW took \in BOOLEAN, SendBroken(w, took)
         PROVE  AttemptOK(n)'
    BY <2>9, <2>13, <2>16 DEF SendBroken, RetryStep, RetryAllowed, Steps, budgets
  <2>17. ASSUME NEW w \in Workers, SendThrottled(w) PROVE AttemptOK(n)'
    BY <2>9, <2>13, <2>17 DEF SendThrottled, RetryStep, RetryAllowed, Steps, budgets
  <2>18. ASSUME NEW w \in Workers, SendRefused(w) PROVE AttemptOK(n)'
    BY <2>9, <2>13, <2>18 DEF SendRefused, Steps, budgets
  \* The job's copy of the counter is the row's, so the row counts every retry.
  <2>19. ASSUME NEW w \in Workers, RecordRetry(w) PROVE AttemptOK(n)'
    <3>0. /\ UNCHANGED <<attempts, jobs, redeliveries, requeues, sweep>>
          /\ worker[w].step = "retry" /\ Goto(w, "reschedule")
      BY <2>19 DEF RecordRetry, world, budgets
    <3>1. CASE worker[w].id = n
      <4>1. /\ worker[w].retryCount = message[n].retryCount
            /\ worker[w].retryCount < MaxSendAttempts
        BY <2>2, <3>0, <3>1 DEF CopyIsCurrent
      <4>2. message'[n].retryCount = message[n].retryCount + 1
        BY <2>19, <3>1, <4>1 DEF RecordRetry, TypeOK, MessageRow
      <4>3. Holding(n) = 0 /\ Holding(n)' = 1 /\ Pending(n)' = Pending(n)
        BY <2>4, <2>9, <3>0, <3>1 DEF UnspentSteps, Steps, Pending
      <4>4. CopyIsCurrent(w, n)'
        BY <2>9, <3>0 DEF CopyIsCurrent, Steps
      <4>5. \A v \in Workers : CopyIsCurrent(v, n)'
        BY <2>4, <2>9, <3>0, <3>1, <4>4 DEF Steps
      <4>6. Budgeted(n)
        BY <2>0 DEF AttemptOK
      <4>7. Budgeted(n)'
        BY <2>1, <3>0, <4>2, <4>3, <4>6 DEF Budgeted
      <4>8. message'[n].retryCount <= MaxSendAttempts
        BY <2>1, <4>1, <4>2
      <4> QED
        BY <4>5, <4>7, <4>8 DEF AttemptOK
    <3>2. CASE worker[w].id # n
      <4>1. message'[n] = message[n]
        BY <2>19, <3>2 DEF RecordRetry, TypeOK
      <4> QED
        BY <2>3, <2>9, <3>0, <3>2, <4>1 DEF Steps
    <3> QED
      BY <3>1, <3>2
  \* The other writes of a job leave the counter alone.
  <2>20. ASSUME NEW w \in Workers,
                FailMessage(w) \/ RecordAcceptance(w) \/ MarkAccepted(w)
         PROVE  AttemptOK(n)'
    <3>0. /\ UNCHANGED <<attempts, jobs, redeliveries, requeues, sweep>>
          /\ worker[w].step \in {"fail", "record", "mark"}
          /\ Finish(w) \/ Goto(w, "mark")
      BY <2>20 DEF FailMessage, RecordAcceptance, MarkAccepted, world, budgets
    <3>1. /\ message'[n].retryCount = message[n].retryCount
          /\ worker[w].id # n => message'[n] = message[n]
      <4>1. CASE FailMessage(w)
        BY <4>1 DEF FailMessage, TypeOK, MessageRow
      <4>2. CASE RecordAcceptance(w)
        BY SMTT(30), <4>2 DEF RecordAcceptance, TypeOK, MessageRow
      <4>3. CASE MarkAccepted(w)
        BY <4>3 DEF MarkAccepted
      <4> QED
        BY <2>20, <4>1, <4>2, <4>3
    <3>2. /\ \A v \in Workers : v # w => worker'[v] = worker[v]
          /\ worker'[w].id \in {worker[w].id} \/ worker'[w].id # n
          /\ worker'[w].id = n => /\ worker'[w].step = "mark"
                                 /\ worker'[w].retryCount = worker[w].retryCount
      BY <2>8, <2>9, <3>0 DEF Steps
    <3>3. CASE worker[w].id = n
      <4>1. Holding(n)' = 0
        BY <2>4, <3>2, <3>3 DEF UnspentSteps
      <4>2. CopyIsCurrent(w, n)'
        BY <2>2, <3>0, <3>1, <3>2, <3>3 DEF CopyIsCurrent
      <4> QED
        BY <2>1, <2>5, <3>0, <3>1, <3>2, <3>3, <4>1, <4>2
    <3>4. CASE worker[w].id # n
      BY <2>3, <3>0, <3>1, <3>2, <3>4
    <3> QED
      BY <3>3, <3>4
  \* The sweep.
  <2>21. ASSUME UNCHANGED <<worker, attempts, redeliveries>>,
                message'[n].retryCount = message[n].retryCount,
                NEW g \in {0, 1}, requeues'[n] = requeues[n] + g,
                jobs'[n] + Pending(n)' <= jobs[n] + Pending(n) + g
         PROVE  AttemptOK(n)'
    <3>1. Holding(n)' = Holding(n)
      BY <2>21 DEF Holding
    <3>2. \A v \in Workers : CopyIsCurrent(v, n)'
      BY <2>2, <2>21 DEF CopyIsCurrent
    <3>3. /\ attempts'[n] + jobs'[n] + Holding(n)' + Pending(n)'
               <= attempts[n] + jobs[n] + Holding(n) + Pending(n) + g
          /\ requeues'[n] + redeliveries' = requeues[n] + redeliveries + g
      BY <2>1, <2>21, <3>1
    <3> QED
      BY <2>0, <2>1, <2>21, <3>2, <3>3, g \in Nat, AttemptFrame
  <2>22. ASSUME NEW row \in sweep.todo, SweepRequeue(row) PROVE AttemptOK(n)'
    <3>1. /\ UNCHANGED <<worker, attempts, redeliveries, jobs>>
          /\ message'[n].retryCount = message[n].retryCount
      BY <2>22 DEF SweepRequeue, world, budgets, TypeOK, MessageRow
    <3>2. CASE row.id = n
      <4>1. requeues'[n] = requeues[n] + 1 /\ Pending(n) = 0
        BY <2>22, <3>2 DEF SweepRequeue, Pending, TypeOK
      <4> QED
        BY <2>1, <2>21, <3>1, <4>1
    <3>3. CASE row.id # n
      <4>1. requeues'[n] = requeues[n] + 0 /\ Pending(n)' = 0
        BY <2>1, <2>22, <3>3 DEF SweepRequeue, Pending, TypeOK
      <4> QED
        BY <2>1, <2>21, <3>1, <4>1
    <3> QED
      BY <3>2, <3>3
  <2>23. CASE SweepEnqueue
    <3>1. /\ UNCHANGED <<worker, attempts, redeliveries, message>>
          /\ requeues'[n] = requeues[n] + 0 /\ Pending(n)' = 0
      BY <2>1, <2>23 DEF SweepEnqueue, Pending, world, budgets, TypeOK
    <3>2. jobs'[n] <= jobs[n] + Pending(n)
      BY <2>1, <2>23 DEF SweepEnqueue, Pending, TypeOK
    <3> QED
      BY <2>1, <2>21, <3>1, <3>2
  <2>24. ASSUME NEW row \in sweep.todo, SweepFail(row) PROVE AttemptOK(n)'
    <3>1. /\ UNCHANGED <<worker, attempts, redeliveries, jobs, requeues>>
          /\ message'[n].retryCount = message[n].retryCount
          /\ sweep'.enqueue = sweep.enqueue
      BY <2>24 DEF SweepFail, world, budgets, TypeOK, MessageRow
    <3> QED
      BY <2>1, <2>21, <3>1 DEF Pending
  <2>25. CASE SweepRead \/ SweepAbort \/ UNCHANGED vars \/ \E m \in Messages : Age(m)
    <3>1. /\ UNCHANGED <<worker, attempts, redeliveries, jobs, requeues, message>>
          /\ sweep'.enqueue \in {sweep.enqueue, NoMessage}
      BY <2>25 DEF SweepRead, SweepAbort, Age, vars, world, budgets, NoSweep
    <3> QED
      BY <2>1, <2>21, <3>1 DEF Pending
  <2> QED
    BY <2>6, <2>7, <2>11, <2>12, <2>14, <2>15, <2>16, <2>17, <2>18, <2>19, <2>20,
       <2>22, <2>23, <2>24, <2>25 DEF Next, SenderStep, SweepStep
<1>3. IInv /\ TypeOK => AttemptsBounded
  <2> SUFFICES ASSUME IInv, TypeOK, NEW m \in Messages, "overlap" \notin cause[m]
               PROVE  attempts[m] <= MaxSendAttempts + 1 + requeues[m] + redeliveries
    BY DEF AttemptsBounded
  <2>1. Budgeted(m) /\ message[m].retryCount <= MaxSendAttempts
    BY DEF AttemptOK
  <2>2. Holding(m) \in Nat /\ Pending(m) \in Nat /\ jobs[m] \in Nat /\ attempts[m] \in Nat
        /\ message[m].retryCount \in Nat /\ requeues[m] \in Nat /\ redeliveries \in Nat
    BY DEF Holding, Pending, TypeOK, MessageRow
  <2> QED
    BY <2>1, <2>2 DEF Budgeted
<1> QED
  BY <1>1, <1>2, <1>3, TypeCorrect, JobsCorrect, OverlapCorrect, FreshCorrect, PTL DEF Spec

(***************************************************************************)
(* The inductive strengthening of SendPacing.                              *)
(***************************************************************************)
Loaded == [step : {"loaded"}, lane : Lanes, n : Nat, copy : Nat]
Paced == [step : {"paced"}, lane : Lanes, n : Nat, start : Nat]

PacingTyped ==
    /\ laneClock \in Nat
    /\ laneCursor \in [Lanes -> Nat]
    /\ pacer \in [Pacers -> {NotPacing} \union Loaded \union Paced]
    /\ laneSlots \in [Lanes -> Seq(Nat)]
    /\ laneShared \subseteq Lanes

\* The time a batch that was paced has for itself.
Start(p) == pacer[p].start
End(p) == pacer[p].start + pacer[p].n * Spacing(pacer[p].lane)
Holds(p, l) == pacer[p] \in Paced /\ pacer[p].lane = l

Before(a, b, gap) == a + gap <= b

\* On a lane whose cursor nobody else had read, what was given or promised
\* ends where the cursor stands, and nothing overlaps.
Reserved(l) ==
    \A p \in Pacers : Holds(p, l) => End(p) <= laneCursor[l]

Disjoint(l) ==
    \A p, q \in Pacers : Holds(p, l) /\ Holds(q, l) /\ p # q =>
        End(p) <= Start(q) \/ End(q) <= Start(p)

Placed(l) ==
    \A i \in DOMAIN laneSlots[l] :
        /\ Before(laneSlots[l][i], laneCursor[l], Spacing(l))
        /\ \A p \in Pacers : Holds(p, l) =>
              Before(laneSlots[l][i], Start(p), Spacing(l)) \/ End(p) <= laneSlots[l][i]

Apart(l) ==
    \A i, j \in DOMAIN laneSlots[l] : i # j =>
        \/ Before(laneSlots[l][i], laneSlots[l][j], Spacing(l))
        \/ Before(laneSlots[l][j], laneSlots[l][i], Spacing(l))

PacingInv ==
    PacingTyped /\ \A l \in Lanes \ laneShared : Reserved(l) /\ Disjoint(l) /\ Placed(l) /\ Apart(l)

(***************************************************************************)
(* The inductive strengthening of TierLedger.                              *)
(***************************************************************************)
LedgerSteps == [step : {"none", "queued", "counted"}]
         \union [step : {"lookup"}, copy : Account, at : Windows]
         \union [step : {"track", "count"}, copy : Account, window : Windows,
                 used : Nat, set : SUBSET Audience]

TierTyped ==
    /\ day \in Windows \ {Unanchored}
    /\ tier \in Account /\ tier.anchor <= day
    /\ tracked \in [Windows -> SUBSET Audience]
    /\ pending \subseteq Audience /\ reached \subseteq Audience
    /\ ledger \in [Audience -> LedgerSteps]

\* Who is claimed is no longer pending.
PendingUnqueued == \A u \in pending : ledger[u] = Unqueued

\* A user is in the sets of kv, or in a copy of one, only after its own
\* sender put it there, so no message is ever taken for one of a user who
\* was counted before.
Noted(u) == ledger[u].step \in {"count", "counted"}
NotedOnly ==
    /\ \A w \in Windows : \A u \in tracked[w] : Noted(u)
    /\ \A v \in Audience : ledger[v].step = "track" =>
          \A u \in ledger[v].set : u = v \/ Noted(u)

\* No window is later than today.
NotAhead(u) ==
    /\ ledger[u].step = "lookup" => ledger[u].at <= day /\ ledger[u].copy.anchor <= day
    /\ ledger[u].step \in {"track", "count"} => ledger[u].window <= day

NoneAhead == \A u \in Audience : NotAhead(u)

Waiting == {u \in Audience : ledger[u] = Queued}
OnTheWay == {u \in Audience : ledger[u].step \in {"lookup", "track", "count"}}

\* The counter, if it is of today's window.
UsedToday == IF WindowExpired(tier) THEN 0 ELSE tier.used
Lapsed(copy) == copy.anchor = Unanchored \/ day > copy.anchor
UsedThen(copy) == IF Lapsed(copy) THEN 0 ELSE copy.used

\* A sender will write one more than its copy of the counter said.
SenderAdds(u) ==
    /\ ledger[u].step = "lookup" => ledger[u].at = day /\ ledger[u].copy.anchor <= day
    /\ ledger[u].step \in {"track", "count"} =>
          /\ ledger[u].copy.anchor <= day
          /\ ledger[u].used = UsedThen(ledger[u].copy) + 1
          /\ ledger[u].window = day

\* As long as nothing went wrong today, whoever was reached is counted or is
\* about to be, and whoever is queued fits into what is left.
Accounted ==
    blame = {} =>
        /\ \A u \in Audience : SenderAdds(u)
        /\ Cardinality(reached) <= UsedToday + Cardinality(OnTheWay)
        /\ Cardinality(reached) + Cardinality(Waiting) <= Allowance

TierInv == TierTyped /\ PendingUnqueued /\ NotedOnly /\ NoneAhead /\ Accounted

-----------------------------------------------------------------------------
(***************************************************************************)
(* Rates and slots.                                                        *)
(***************************************************************************)
\* Times one: more slots take at least as long.
LEMMA Longer ==
  ASSUME NEW gap \in Nat, NEW a \in Nat, NEW b \in Nat, a <= b
  PROVE  /\ a * gap \in Nat /\ b * gap \in Nat /\ a * gap <= b * gap
         /\ (a + 1) * gap = a * gap + gap
OBVIOUS

\* Both lanes move, and their rates add up to the ceiling: laneRate.
LEMMA RatesFit ==
  ASSUME NEW ceiling \in Nat \ {0}, NEW share \in 0..10
  PROVE  /\ LaneRate("INTERACTIVE", ceiling, share) \in Nat \ {0}
         /\ LaneRate("CAMPAIGN", ceiling, share) \in Nat \ {0}
         /\ LaneRate("INTERACTIVE", ceiling, share) + LaneRate("CAMPAIGN", ceiling, share) = 10 * ceiling
<1> DEFINE wanted == ceiling * share
           floor == Least(10, 5 * ceiling)
           first == Greatest(10 * LaneMinimum, wanted)
<1>1. wanted \in Nat
  OBVIOUS
<1>2. LaneMinimum \in Nat \ {0}
  BY SendPacingAssumption
<1>3. floor \in Int /\ 1 <= floor /\ floor <= 5 * ceiling
  BY DEF Least
<1> HIDE DEF wanted
<1>4. first \in Nat /\ 1 <= first
  BY <1>1, <1>2 DEF Greatest
<1> HIDE DEF floor, first
<1>5. Least(first, 10 * ceiling - floor) \in 1..(10 * ceiling - 1)
  BY <1>3, <1>4 DEF Least
<1>6. /\ LaneRate("INTERACTIVE", ceiling, share) = Least(first, 10 * ceiling - floor)
      /\ LaneRate("CAMPAIGN", ceiling, share) = 10 * ceiling - Least(first, 10 * ceiling - floor)
  BY DEF LaneRate, first, floor, wanted
<1> QED
  BY <1>5, <1>6

\* The spacing of a lane is a number of ticks of the clock.
LEMMA SpacingType == \A l \in Lanes : Spacing(l) \in Nat
<1> SUFFICES ASSUME NEW l \in Lanes PROVE Spacing(l) \in Nat
  OBVIOUS
<1>1. LaneRate(l, Ceiling, Share) \in Nat \ {0}
  BY RatesFit, SendPacingAssumption DEF Lanes
<1>2. 10 * Second \in Nat
  BY SendPacingAssumption
<1>3. \A a \in Nat, b \in Nat \ {0} : a \div b \in Nat
  OBVIOUS
<1> QED
  BY <1>1, <1>2, <1>3 DEF Spacing

\* The slots of a batch lie in the time it has for itself, a gap apart.
LEMMA SlotsFit ==
  ASSUME NEW l \in Lanes, NEW start \in Nat, NEW n \in Nat, NEW landed \in 0..n
  PROVE  /\ SlotsFrom(l, start, landed) \in Seq(Nat)
         /\ Len(SlotsFrom(l, start, landed)) = landed
         /\ \A i \in 1..landed :
              LET v == SlotsFrom(l, start, landed)[i] IN
              /\ v \in Nat /\ start <= v /\ Before(v, start + n * Spacing(l), Spacing(l))
              /\ \A j \in 1..landed : i < j =>
                    Before(v, SlotsFrom(l, start, landed)[j], Spacing(l))
<1> DEFINE gap == Spacing(l)
           slots == SlotsFrom(l, start, landed)
<1>1. gap \in Nat
  BY SpacingType
<1>2. \A i \in 1..landed : slots[i] = start + (i - 1) * gap
  BY DEF SlotsFrom
<1> HIDE DEF gap
<1>3. ASSUME NEW i \in 1..landed
      PROVE  (i - 1) * gap \in Nat /\ (i - 1) * gap + gap <= n * gap
  <2>1. i - 1 \in Nat /\ i \in Nat /\ n \in Nat /\ i - 1 <= i /\ i <= n
    BY <1>3
  <2>2. i * gap = (i - 1) * gap + gap
    <3>1. ((i - 1) + 1) * gap = (i - 1) * gap + gap
      BY <2>1, <1>1, Longer
    <3> QED
      BY <3>1, <2>1
  <2>3. i * gap <= n * gap /\ i * gap \in Nat /\ n * gap \in Nat /\ (i - 1) * gap \in Nat
    BY <2>1, <1>1, Longer
  <2> QED
    BY <2>2, <2>3
<1>4. ASSUME NEW i \in 1..landed, NEW j \in 1..landed, i < j
      PROVE  (i - 1) * gap + gap <= (j - 1) * gap
  <2>1. i - 1 \in Nat /\ j - 1 \in Nat /\ i \in Nat /\ i <= j - 1 /\ i - 1 <= i
    BY <1>4
  <2>2. i * gap = (i - 1) * gap + gap
    <3>1. ((i - 1) + 1) * gap = (i - 1) * gap + gap
      BY <2>1, <1>1, Longer
    <3> QED
      BY <3>1, <2>1
  <2>3. i * gap <= (j - 1) * gap
    BY <2>1, <1>1, Longer
  <2> QED
    BY <2>2, <2>3
<1>5. slots \in Seq(Nat) /\ Len(slots) = landed
  <2>1. \A i \in 1..landed : start + (i - 1) * gap \in Nat
    BY <1>3
  <2>2. slots \in [1..landed -> Nat]
    BY <2>1, <1>2 DEF SlotsFrom, gap
  <2>3. landed \in Nat
    OBVIOUS
  <2> HIDE DEF slots
  <2> QED
    BY <2>2, <2>3
<1> HIDE DEF slots
<1>6. ASSUME NEW i \in 1..landed
      PROVE  /\ slots[i] \in Nat /\ start <= slots[i] /\ Before(slots[i], start + n * gap, gap)
             /\ \A j \in 1..landed : i < j => Before(slots[i], slots[j], gap)
  <2>1. n * gap \in Nat
    BY <1>1
  <2>2. (i - 1) * gap \in Nat /\ (i - 1) * gap + gap <= n * gap /\ slots[i] = start + (i - 1) * gap
    BY <1>2, <1>3
  <2>3. slots[i] \in Nat /\ start <= slots[i] /\ Before(slots[i], start + n * gap, gap)
    BY <1>1, <2>1, <2>2 DEF Before
  <2>4. ASSUME NEW j \in 1..landed, i < j PROVE Before(slots[i], slots[j], gap)
    <3>1. (j - 1) * gap \in Nat /\ slots[j] = start + (j - 1) * gap
      BY <1>2, <1>3
    <3>2. (i - 1) * gap + gap <= (j - 1) * gap
      BY <1>4, <2>4
    <3> QED
      BY <1>1, <2>2, <3>1, <3>2 DEF Before
  <2> QED
    BY <2>3, <2>4
<1> QED
  BY <1>5, <1>6 DEF gap, slots

\* Which step a caller is at.
LEMMA PacerSteps ==
  /\ NotPacing.step = "idle" /\ NotPacing \notin Paced
  /\ \A k \in Loaded : k.step = "loaded" /\ k \notin Paced /\ k.lane \in Lanes
                       /\ k.n \in Nat /\ k.copy \in Nat
  /\ \A k \in Paced : k.step = "paced" /\ k.lane \in Lanes /\ k.n \in Nat /\ k.start \in Nat
BY DEF NotPacing, Loaded, Paced

(***************************************************************************)
(* PaceIsKept.                                                             *)
(***************************************************************************)
\* Nothing is scheduled at first.
LEMMA PacingStarts == PacingInit => PacingInv
<1> SUFFICES ASSUME PacingInit PROVE PacingInv
  OBVIOUS
<1>1. <<>> \in Seq(Nat)
  OBVIOUS
<1>2. PacingTyped
  BY <1>1 DEF PacingInit, PacingTyped
<1>3. \A p \in Pacers : pacer[p] \notin Paced
  BY PacerSteps DEF PacingInit
<1>4. \A l \in Lanes : laneSlots[l] = <<>> /\ DOMAIN laneSlots[l] = {}
  BY DEF PacingInit
<1> QED
  BY <1>2, <1>3, <1>4 DEF PacingInv, Reserved, Disjoint, Placed, Apart, Holds

\* A caller that only reads the cursor changes nothing on any lane.
LEMMA PaceLoads ==
  ASSUME PacingInv, NEW p \in Pacers, NEW lane \in Lanes, NEW n \in 1..MaxBatch,
         LoadCursor(p, lane, n)
  PROVE  PacingInv'
<1> DEFINE k == [step |-> "loaded", lane |-> lane, n |-> n, copy |-> laneCursor[lane]]
<1>1. /\ pacer[p] = NotPacing /\ pacer' = [pacer EXCEPT ![p] = k]
      /\ UNCHANGED <<laneClock, laneCursor, laneSlots, laneShared>>
  BY DEF LoadCursor
<1>2. k \in Loaded
  <2>1. n \in Nat
    BY SendPacingAssumption
  <2> QED
    BY <2>1 DEF Loaded, PacingInv, PacingTyped
<1> HIDE DEF k
<1>3. PacingTyped'
  BY <1>1, <1>2 DEF PacingInv, PacingTyped
<1>4. \A q \in Pacers : /\ pacer'[q] \in Paced => pacer'[q] = pacer[q]
                        /\ pacer[q] \in Paced => pacer'[q] = pacer[q]
  BY <1>1, <1>2, PacerSteps DEF PacingInv, PacingTyped
<1>5. ASSUME NEW l \in Lanes \ laneShared'
      PROVE  Reserved(l)' /\ Disjoint(l)' /\ Placed(l)' /\ Apart(l)'
  <2>1. Reserved(l) /\ Disjoint(l) /\ Placed(l) /\ Apart(l)
    BY <1>1, <1>5 DEF PacingInv
  <2>2. \A q \in Pacers : Holds(q, l)' => /\ Holds(q, l) /\ End(q)' = End(q) /\ Start(q)' = Start(q)
    BY <1>4 DEF Holds, End, Start
  <2> QED
    BY <2>1, <2>2, <1>1 DEF Reserved, Disjoint, Placed, Apart
<1> QED
  BY <1>3, <1>5 DEF PacingInv

\* The cursor is moved past the batch before anything is enqueued.
LEMMA PaceAdvances ==
  ASSUME PacingInv, NEW p \in Pacers, AdvanceCursor(p)
  PROVE  PacingInv'
<1> DEFINE lane == pacer[p].lane
           start == SlotStart(pacer[p].copy, laneClock)
           end == start + pacer[p].n * Spacing(lane)
           k == [step |-> "paced", lane |-> lane, n |-> pacer[p].n, start |-> start]
<1>1. /\ pacer[p].step = "loaded" /\ pacer' = [pacer EXCEPT ![p] = k]
      /\ laneCursor' = [laneCursor EXCEPT ![lane] = end]
      /\ laneShared' = IF laneCursor[lane] = pacer[p].copy THEN laneShared ELSE laneShared \union {lane}
      /\ UNCHANGED <<laneClock, laneSlots>>
  BY DEF AdvanceCursor
<1>2. pacer[p] \in Loaded
  BY <1>1, PacerSteps DEF PacingInv, PacingTyped
<1>3. lane \in Lanes /\ pacer[p].n \in Nat /\ pacer[p].copy \in Nat /\ laneClock \in Nat
  BY <1>2, PacerSteps DEF PacingInv, PacingTyped
<1>4. start \in Nat /\ pacer[p].copy <= start
  BY <1>3 DEF SlotStart, Greatest
<1>5. end \in Nat /\ start <= end
  <2>1. Spacing(lane) \in Nat
    BY <1>3, SpacingType
  <2>2. pacer[p].n * Spacing(lane) \in Nat
    BY <1>3, <2>1
  <2> QED
    BY <1>4, <2>2
<1>6. k \in Paced /\ k.lane = lane /\ k.start = start /\ k.n = pacer[p].n
  BY <1>3, <1>4 DEF Paced
<1> HIDE DEF k, start
<1>7. PacingTyped'
  BY <1>1, <1>3, <1>5, <1>6 DEF PacingInv, PacingTyped
<1>8. pacer'[p] = k /\ \A q \in Pacers \ {p} : pacer'[q] = pacer[q]
  BY <1>1 DEF PacingInv, PacingTyped
<1>9. Start(p)' = start /\ End(p)' = end
  BY <1>6, <1>8 DEF Start, End
<1> HIDE DEF end
<1>10. ASSUME NEW l \in Lanes \ laneShared'
       PROVE  Reserved(l)' /\ Disjoint(l)' /\ Placed(l)' /\ Apart(l)'
  <2>1. Reserved(l) /\ Disjoint(l) /\ Placed(l) /\ Apart(l)
    BY <1>1, <1>10 DEF PacingInv
  <2>2. \A q \in Pacers \ {p} : Holds(q, l)' => /\ Holds(q, l) /\ End(q)' = End(q) /\ Start(q)' = Start(q)
    BY <1>8 DEF Holds, End, Start
  <2>3. CASE l # lane
    <3>1. ~ Holds(p, l)'
      BY <2>3, <1>6, <1>8 DEF Holds
    <3>2. laneCursor'[l] = laneCursor[l]
      BY <2>3, <1>1, <1>7 DEF PacingTyped, PacingInv
    <3>3. \A q \in Pacers : Holds(q, l)' => /\ Holds(q, l) /\ End(q)' = End(q) /\ Start(q)' = Start(q)
      BY <2>2, <3>1
    <3> QED
      BY <2>1, <3>2, <3>3, <1>1 DEF Reserved, Disjoint, Placed, Apart
  <2>4. CASE l = lane
    <3>1. laneCursor[l] = pacer[p].copy
      BY <2>4, <1>1, <1>10
    <3>2. laneCursor'[l] = end /\ laneCursor[l] <= start /\ laneCursor[l] \in Nat
      BY <2>4, <3>1, <1>1, <1>3, <1>4 DEF PacingInv, PacingTyped
    <3>3. \A q \in Pacers : Holds(q, l) => End(q) \in Nat /\ Start(q) \in Nat
      <4>1. \A q \in Pacers : Holds(q, l) => pacer[q].n \in Nat /\ pacer[q].start \in Nat /\ pacer[q].lane = l
        BY PacerSteps DEF Holds
      <4>2. Spacing(l) \in Nat
        BY SpacingType
      <4>3. \A a \in Nat : a * Spacing(l) \in Nat
        BY <4>2
      <4> QED
        BY <4>1, <4>3 DEF End, Start
    <3>4. Reserved(l)'
      BY <2>1, <2>2, <3>2, <3>3, <1>5, <1>4, <1>9 DEF Reserved
    <3>5. Disjoint(l)'
      BY <2>1, <2>2, <3>2, <3>3, <1>5, <1>4, <1>9 DEF Reserved, Disjoint
    <3>6. \A i \in DOMAIN laneSlots[l] : laneSlots[l][i] \in Nat
      BY DEF PacingInv, PacingTyped
    <3>7. Spacing(l) \in Nat
      BY SpacingType
    <3>8. Placed(l)'
      <4>1. ASSUME NEW i \in DOMAIN laneSlots[l]
            PROVE  /\ Before(laneSlots[l][i], end, Spacing(l))
                   /\ Before(laneSlots[l][i], start, Spacing(l))
        <5>1. Before(laneSlots[l][i], laneCursor[l], Spacing(l))
          BY <2>1, <4>1 DEF Placed
        <5> QED
          BY <5>1, <3>2, <3>6, <3>7, <1>4, <1>5 DEF Before
      <4> QED
        BY <4>1, <2>1, <2>2, <3>2, <1>1, <1>9 DEF Placed
    <3> QED
      BY <2>1, <3>4, <3>5, <3>8, <1>1 DEF Apart
  <2> QED
    BY <2>3, <2>4
<1> QED
  BY <1>7, <1>10 DEF PacingInv

\* The jobs of a batch take slots of the time it has for itself, all or the
\* first few.
LEMMA PaceEnqueues ==
  ASSUME PacingInv, NEW p \in Pacers, EnqueueSlots(p)
  PROVE  PacingInv'
<1> DEFINE lane == pacer[p].lane
<1>1. /\ pacer[p].step = "paced" /\ pacer' = [pacer EXCEPT ![p] = NotPacing]
      /\ UNCHANGED <<laneClock, laneCursor, laneShared>>
  BY DEF EnqueueSlots
<1>2. pacer[p] \in Paced
  BY <1>1, PacerSteps DEF PacingInv, PacingTyped
<1>3. lane \in Lanes /\ pacer[p].n \in Nat /\ Start(p) \in Nat
  BY <1>2, PacerSteps DEF Start
<1>4. PICK landed \in 0..pacer[p].n :
        laneSlots' = [laneSlots EXCEPT ![lane] = @ \o SlotsFrom(lane, Start(p), landed)]
  BY DEF EnqueueSlots, Start
<1> DEFINE batch == SlotsFrom(lane, Start(p), landed)
           given == laneSlots[lane]
<1>5. /\ batch \in Seq(Nat) /\ Len(batch) = landed
      /\ \A i \in 1..landed :
           /\ batch[i] \in Nat /\ Start(p) <= batch[i]
           /\ Before(batch[i], End(p), Spacing(lane))
           /\ \A j \in 1..landed : i < j => Before(batch[i], batch[j], Spacing(lane))
  <2>1. End(p) = Start(p) + pacer[p].n * Spacing(lane)
    BY DEF End, Start
  <2> QED
    BY ZenonT(30), <2>1, <1>3, SlotsFit
<1>6. given \in Seq(Nat) /\ laneSlots'[lane] = given \o batch
      /\ \A l \in Lanes \ {lane} : laneSlots'[l] = laneSlots[l]
  BY <1>3, <1>4 DEF PacingInv, PacingTyped
<1> HIDE DEF batch, given
<1>7. /\ given \o batch \in Seq(Nat)
      /\ DOMAIN (given \o batch) = 1..(Len(given) + landed)
      /\ DOMAIN given = 1..Len(given) /\ Len(given) \in Nat /\ landed \in Nat
      /\ \A i \in 1..Len(given) : (given \o batch)[i] = given[i]
      /\ \A i \in 1..landed : (given \o batch)[Len(given) + i] = batch[i]
  <2>1. batch \in Seq(Nat) /\ Len(batch) = landed /\ given \in Seq(Nat) /\ landed \in Nat
    BY <1>5, <1>6
  <2>2. given \o batch \in Seq(Nat) /\ Len(given \o batch) = Len(given) + landed
    BY <2>1, ConcatProperties, Zenon
  <2>3. DOMAIN (given \o batch) = 1..(Len(given) + landed)
    BY <2>2
  <2>4. DOMAIN given = 1..Len(given) /\ Len(given) \in Nat
    BY <2>1
  <2>5. \A i \in 1..Len(given) : (given \o batch)[i] = given[i]
    BY <2>1, <2>4
  <2>6. \A i \in 1..landed : (given \o batch)[Len(given) + i] = batch[i]
    BY <2>1, <2>4
  <2> QED
    BY <2>1, <2>2, <2>3, <2>4, <2>5, <2>6
<1>8. PacingTyped'
  <2>1. laneSlots' \in [Lanes -> Seq(Nat)]
    BY <1>3, <1>4, <1>6, <1>7 DEF PacingInv, PacingTyped
  <2> QED
    BY <2>1, <1>1 DEF PacingInv, PacingTyped
<1>9. pacer'[p] = NotPacing /\ \A q \in Pacers \ {p} : pacer'[q] = pacer[q]
  BY <1>1 DEF PacingInv, PacingTyped
<1>10. ASSUME NEW l \in Lanes \ laneShared'
       PROVE  Reserved(l)' /\ Disjoint(l)' /\ Placed(l)' /\ Apart(l)'
  <2>1. Reserved(l) /\ Disjoint(l) /\ Placed(l) /\ Apart(l)
    BY <1>1, <1>10 DEF PacingInv
  <2>2. \A q \in Pacers : Holds(q, l)' =>
           /\ q # p /\ Holds(q, l) /\ End(q)' = End(q) /\ Start(q)' = Start(q)
    BY <1>9, PacerSteps DEF Holds, End, Start
  <2>3. Reserved(l)' /\ Disjoint(l)'
    BY <2>1, <2>2, <1>1 DEF Reserved, Disjoint
  <2>4. CASE l # lane
    BY <2>1, <2>2, <2>3, <2>4, <1>1, <1>6 DEF Placed, Apart
  <2>5. CASE l = lane
    <3>1. Holds(p, l)
      BY <2>5, <1>2 DEF Holds
    <3>2. Spacing(l) \in Nat /\ laneCursor[l] \in Nat /\ End(p) <= laneCursor[l]
      BY <2>1, <3>1, SpacingType DEF Reserved, PacingInv, PacingTyped
    <3>3. End(p) \in Nat
      <4>1. pacer[p].n * Spacing(l) \in Nat
        BY <3>2, <1>3
      <4> QED
        BY <4>1, <2>5, <1>3 DEF End, Start
    <3>4. \A q \in Pacers : Holds(q, l) => End(q) \in Nat /\ Start(q) \in Nat
      <4>1. \A q \in Pacers : Holds(q, l) => pacer[q].n \in Nat /\ pacer[q].start \in Nat /\ pacer[q].lane = l
        BY PacerSteps DEF Holds
      <4>2. \A a \in Nat : a * Spacing(l) \in Nat
        BY <3>2
      <4> QED
        BY <4>1, <4>2 DEF End, Start
    <3>5. \A i \in 1..Len(given) :
            /\ given[i] \in Nat /\ Before(given[i], laneCursor[l], Spacing(l))
            /\ \A q \in Pacers : Holds(q, l) =>
                  Before(given[i], Start(q), Spacing(l)) \/ End(q) <= given[i]
            /\ \A j \in 1..Len(given) : i # j =>
                  Before(given[i], given[j], Spacing(l)) \/ Before(given[j], given[i], Spacing(l))
      <4>1. given = laneSlots[l] /\ DOMAIN laneSlots[l] = 1..Len(given)
        BY <2>5, <1>7 DEF given
      <4>2. \A i \in 1..Len(given) : given[i] \in Nat
        BY <1>6
      <4>3. \A i \in 1..Len(given) :
              /\ Before(given[i], laneCursor[l], Spacing(l))
              /\ \A q \in Pacers : Holds(q, l) =>
                    Before(given[i], Start(q), Spacing(l)) \/ End(q) <= given[i]
        BY <2>1, <4>1 DEF Placed
      <4>4. \A i, j \in 1..Len(given) : i # j =>
              Before(given[i], given[j], Spacing(l)) \/ Before(given[j], given[i], Spacing(l))
        BY <2>1, <4>1 DEF Apart
      <4> QED
        BY <4>2, <4>3, <4>4
    <3>6. \A i \in 1..landed :
            /\ batch[i] \in Nat /\ Before(batch[i], laneCursor[l], Spacing(l))
            /\ \A q \in Pacers : Holds(q, l) /\ q # p =>
                  Before(batch[i], Start(q), Spacing(l)) \/ End(q) <= batch[i]
            /\ \A j \in 1..landed : i # j =>
                  Before(batch[i], batch[j], Spacing(l)) \/ Before(batch[j], batch[i], Spacing(l))
            /\ \A j \in 1..Len(given) :
                  Before(batch[i], given[j], Spacing(l)) \/ Before(given[j], batch[i], Spacing(l))
      <4> SUFFICES ASSUME NEW i \in 1..landed
                   PROVE  /\ batch[i] \in Nat /\ Before(batch[i], laneCursor[l], Spacing(l))
                          /\ \A q \in Pacers : Holds(q, l) /\ q # p =>
                                Before(batch[i], Start(q), Spacing(l)) \/ End(q) <= batch[i]
                          /\ \A j \in 1..landed : i # j =>
                                Before(batch[i], batch[j], Spacing(l)) \/ Before(batch[j], batch[i], Spacing(l))
                          /\ \A j \in 1..Len(given) :
                                Before(batch[i], given[j], Spacing(l)) \/ Before(given[j], batch[i], Spacing(l))
        OBVIOUS
      <4>1. batch[i] \in Nat /\ Start(p) <= batch[i] /\ batch[i] + Spacing(l) <= End(p)
        BY <1>5, <2>5 DEF Before
      <4>2. Before(batch[i], laneCursor[l], Spacing(l))
        BY <4>1, <3>2, <3>3 DEF Before
      <4>3. ASSUME NEW q \in Pacers, Holds(q, l), q # p
            PROVE  Before(batch[i], Start(q), Spacing(l)) \/ End(q) <= batch[i]
        <5>1. End(p) <= Start(q) \/ End(q) <= Start(p)
          BY <2>1, <3>1, <4>3 DEF Disjoint
        <5> QED
          BY <5>1, <4>1, <4>3, <3>2, <3>3, <3>4, <1>3 DEF Before
      <4>4. ASSUME NEW j \in 1..landed, i # j
            PROVE  Before(batch[i], batch[j], Spacing(l)) \/ Before(batch[j], batch[i], Spacing(l))
        BY <4>4, <1>5, <2>5
      <4>5. ASSUME NEW j \in 1..Len(given)
            PROVE  Before(batch[i], given[j], Spacing(l)) \/ Before(given[j], batch[i], Spacing(l))
        <5>1. given[j] \in Nat /\ (given[j] + Spacing(l) <= Start(p) \/ End(p) <= given[j])
          BY <3>1, <3>5 DEF Before
        <5> QED
          BY <5>1, <4>1, <3>2, <3>3, <1>3 DEF Before
      <4> QED
        BY <4>1, <4>2, <4>3, <4>4, <4>5
    <3> DEFINE new == given \o batch
    <3>7. \A i \in DOMAIN new :
            \/ i \in 1..Len(given) /\ new[i] = given[i]
            \/ \E k \in 1..landed : i = Len(given) + k /\ new[i] = batch[k]
      <4> SUFFICES ASSUME NEW i \in DOMAIN new, i \notin 1..Len(given)
                   PROVE  \E k \in 1..landed : i = Len(given) + k /\ new[i] = batch[k]
        BY <1>7
      <4>1. i - Len(given) \in 1..landed /\ i = Len(given) + (i - Len(given))
        BY <1>7
      <4> QED
        BY <4>1, <1>7
    <3> HIDE DEF new
    <3>8. Placed(l)'
      <4>1. laneSlots'[l] = new /\ laneCursor' = laneCursor
        BY <2>5, <1>1, <1>6 DEF new
      <4>2. ASSUME NEW i \in DOMAIN new
            PROVE  /\ Before(new[i], laneCursor[l], Spacing(l))
                   /\ \A q \in Pacers : Holds(q, l) /\ q # p =>
                         Before(new[i], Start(q), Spacing(l)) \/ End(q) <= new[i]
        BY <3>5, <3>6, <3>7
      <4> QED
        BY <4>1, <4>2, <2>2 DEF Placed
    <3>9. Apart(l)'
      <4>1. laneSlots'[l] = new
        BY <2>5, <1>6 DEF new
      <4>2. ASSUME NEW i \in DOMAIN new, NEW j \in DOMAIN new, i # j
            PROVE  Before(new[i], new[j], Spacing(l)) \/ Before(new[j], new[i], Spacing(l))
        <5>1. CASE i \in 1..Len(given) /\ new[i] = given[i]
          BY <5>1, <3>5, <3>6, <3>7, <4>2
        <5>2. ASSUME NEW k \in 1..landed, i = Len(given) + k, new[i] = batch[k]
              PROVE  Before(new[i], new[j], Spacing(l)) \/ Before(new[j], new[i], Spacing(l))
          BY <5>2, <3>6, <3>7, <4>2
        <5> QED
          BY <5>1, <5>2, <3>7
      <4> QED
        BY <4>1, <4>2 DEF Apart
    <3> QED
      BY <2>3, <3>8, <3>9
  <2> QED
    BY <2>4, <2>5
<1> QED
  BY <1>8, <1>10 DEF PacingInv

\* Every step keeps the lanes in order.
LEMMA PacingStep == PacingInv /\ [PacingNext]_pacingVars => PacingInv'
<1> SUFFICES ASSUME PacingInv, [PacingNext]_pacingVars PROVE PacingInv'
  OBVIOUS
<1>1. CASE PacingTime \/ UNCHANGED pacingVars
  <2>1. /\ UNCHANGED <<laneCursor, pacer, laneSlots, laneShared>>
        /\ laneClock' \in {laneClock, laneClock + 1}
    BY <1>1 DEF PacingTime, pacingVars
  <2>2. PacingTyped'
    BY <2>1 DEF PacingInv, PacingTyped
  <2>3. ASSUME NEW l \in Lanes \ laneShared'
        PROVE  Reserved(l)' /\ Disjoint(l)' /\ Placed(l)' /\ Apart(l)'
    <3>1. Reserved(l) /\ Disjoint(l) /\ Placed(l) /\ Apart(l)
      BY <2>1, <2>3 DEF PacingInv
    <3>2. \A q \in Pacers : (Holds(q, l)' <=> Holds(q, l)) /\ End(q)' = End(q) /\ Start(q)' = Start(q)
      BY <2>1 DEF Holds, End, Start
    <3> QED
      BY <3>1, <3>2, <2>1 DEF Reserved, Disjoint, Placed, Apart
  <2> QED
    BY <2>2, <2>3 DEF PacingInv
<1> QED
  BY <1>1, PaceLoads, PaceAdvances, PaceEnqueues DEF PacingNext

\* The inductive invariant gives the property.
LEMMA PaceFollows == PacingInv => PaceIsKept
<1> SUFFICES ASSUME PacingInv PROVE PaceIsKept
  OBVIOUS
<1>1. LaneRatesFit
  <2> SUFFICES ASSUME NEW ceiling \in 1..MaxCeiling, NEW share \in 0..10
               PROVE  /\ LaneRate("INTERACTIVE", ceiling, share) + LaneRate("CAMPAIGN", ceiling, share)
                           = 10 * ceiling
                      /\ \A l \in Lanes : LaneRate(l, ceiling, share) > 0
    BY DEF LaneRatesFit
  <2>1. ceiling \in Nat \ {0}
    BY SendPacingAssumption
  <2> QED
    BY SMTT(30), <2>1, RatesFit DEF Lanes
<1>2. ASSUME NEW l \in Lanes \ laneShared, NEW i \in DOMAIN laneSlots[l],
             NEW j \in DOMAIN laneSlots[l], i # j
      PROVE  laneSlots[l][j] - laneSlots[l][i] \notin (1 - Spacing(l))..(Spacing(l) - 1)
  <2>1. laneSlots[l][i] \in Nat /\ laneSlots[l][j] \in Nat /\ Spacing(l) \in Nat
    BY <1>2, SpacingType DEF PacingInv, PacingTyped
  <2>2. \/ Before(laneSlots[l][i], laneSlots[l][j], Spacing(l))
        \/ Before(laneSlots[l][j], laneSlots[l][i], Spacing(l))
    BY <1>2 DEF PacingInv, Apart
  <2> QED
    BY <2>1, <2>2 DEF Before
<1> QED
  BY <1>1, <1>2 DEF PaceIsKept

-----------------------------------------------------------------------------
(***************************************************************************)
(* TierLedger.                                                             *)
(***************************************************************************)
\* What the ledger can hold for a user, by the step its sender is at.
LEMMA LedgerShape ==
  ASSUME TierTyped, NEW u \in Audience
  PROVE  /\ ledger[u].step \in {"none", "queued", "counted", "lookup", "track", "count"}
         /\ (ledger[u] = Unqueued) <=> ledger[u].step = "none"
         /\ (ledger[u] = Queued) <=> ledger[u].step = "queued"
         /\ (ledger[u] = Counted) <=> ledger[u].step = "counted"
         /\ ledger[u].step = "lookup" =>
              /\ ledger[u].copy \in Account
              /\ ledger[u].at \in Windows
         /\ ledger[u].step \in {"track", "count"} =>
              /\ ledger[u] \in [step : {"track", "count"}, copy : Account, window : Windows,
                                used : Nat, set : SUBSET Audience]
              /\ ledger[u].copy \in Account
              /\ ledger[u].window \in Windows
              /\ ledger[u].used \in Nat
              /\ ledger[u].set \subseteq Audience
<1>1. ledger[u] \in LedgerSteps
  BY DEF TierTyped
<1>2. CASE ledger[u] \in [step : {"none", "queued", "counted"}]
  BY <1>2 DEF Unqueued, Queued, Counted
<1>3. CASE ledger[u] \in [step : {"lookup"}, copy : Account, at : Windows]
  BY <1>3 DEF Unqueued, Queued, Counted
<1>4. CASE ledger[u] \in [step : {"track", "count"}, copy : Account, window : Windows,
                          used : Nat, set : SUBSET Audience]
  BY <1>4 DEF Unqueued, Queued, Counted
<1> QED
  BY <1>1, <1>2, <1>3, <1>4 DEF LedgerSteps

\* Users are finitely many, and so are those at any step.
LEMMA UsersCount ==
  ASSUME NEW S, S \subseteq Audience
  PROVE  IsFiniteSet(S) /\ Cardinality(S) \in Nat
<1>1. IsFiniteSet(S)
  BY TierLedgerAssumption, FS_Subset
<1> QED
  BY <1>1, FS_CardinalityType

\* The bounds, and what is left of the allowance.
LEMMA AllowanceLeft ==
  ASSUME TierTyped
  PROVE  /\ Allowance \in Nat /\ ClaimSize \in Nat /\ Days \in Nat \ {0}
         /\ day \in Nat \ {0} /\ day \in Windows
         /\ tier.used \in Nat /\ tier.anchor \in Windows /\ tier.anchor \in Nat
         /\ tier.anchor <= day
         /\ UsedToday \in Nat /\ UsedToday <= tier.used
         /\ Available(tier) \in Nat
         /\ Available(tier) # 0 => Available(tier) + tier.used = Allowance
<1>1. Allowance \in Nat /\ ClaimSize \in Nat /\ Days \in Nat \ {0}
  BY TierLedgerAssumption
<1>2. day \in Nat \ {0} /\ day \in Windows
  BY <1>1 DEF TierTyped, Windows, Unanchored
<1>3. tier.used \in Nat /\ tier.anchor \in Windows /\ tier.anchor \in Nat /\ tier.anchor <= day
  BY <1>1 DEF TierTyped, Account, Windows
<1>4. UsedToday \in Nat /\ UsedToday <= tier.used
  BY <1>3 DEF UsedToday
<1>5. Available(tier) \in Nat /\ (Available(tier) # 0 => Available(tier) + tier.used = Allowance)
  BY <1>1, <1>3 DEF Available
<1> QED
  BY <1>1, <1>2, <1>3, <1>4, <1>5

\* Nobody is reached, queued or counted at first.
LEMMA TierStarts == TierInit => TierInv
<1> SUFFICES ASSUME TierInit PROVE TierInv
  OBVIOUS
<1>1. Allowance \in Nat /\ Days \in Nat \ {0}
  BY TierLedgerAssumption
<1>2. TierTyped
  <2>1. day \in Windows \ {Unanchored} /\ tier \in Account /\ tier.anchor <= day
    BY <1>1 DEF TierInit, Windows, Unanchored, Account
  <2>2. /\ tracked \in [Windows -> SUBSET Audience]
        /\ pending \subseteq Audience /\ reached \subseteq Audience
    BY DEF TierInit
  <2>3. ledger \in [Audience -> LedgerSteps]
    BY DEF TierInit, LedgerSteps, Unqueued
  <2> QED
    BY <2>1, <2>2, <2>3 DEF TierTyped
<1>3. PendingUnqueued
  BY DEF TierInit, PendingUnqueued
<1>4. \A u \in Audience : ledger[u].step = "none" /\ ledger[u] = Unqueued
  BY DEF TierInit, Unqueued
<1>5. NotedOnly
  BY <1>4 DEF TierInit, NotedOnly
<1>6. NoneAhead
  BY <1>4 DEF NoneAhead, NotAhead
<1>7. Accounted
  <2>1. \A u \in Audience : SenderAdds(u)
    BY <1>4 DEF SenderAdds
  <2>2. OnTheWay = {} /\ Waiting = {}
    BY <1>4, <1>2, LedgerShape DEF OnTheWay, Waiting
  <2>3. reached = {} /\ Cardinality({}) = 0
    BY FS_EmptySet DEF TierInit
  <2>4. UsedToday \in Nat
    BY <1>2, AllowanceLeft
  <2> QED
    BY <1>1, <2>1, <2>2, <2>3, <2>4 DEF Accounted
<1> QED
  BY <1>2, <1>3, <1>5, <1>7, <1>6 DEF TierInv

\* A batch is claimed: what it takes is within what the counter leaves, and
\* the counter is right unless an earlier batch is still on its way.
LEMMA TierTicks ==
  ASSUME TierInv, TierTick
  PROVE  TierInv'
<1>1. UNCHANGED <<day, tier, tracked, reached>>
  BY DEF TierTick
<1>2. CASE UNCHANGED <<pending, ledger, blame>>
  <2>1. TierTyped' /\ PendingUnqueued' /\ NotedOnly' /\ NoneAhead'
    BY <1>1, <1>2 DEF TierInv, TierTyped, PendingUnqueued, NotedOnly, Noted, NoneAhead, NotAhead
  <2>2. UsedToday' = UsedToday /\ Waiting' = Waiting /\ OnTheWay' = OnTheWay
    BY <1>1, <1>2 DEF UsedToday, WindowExpired, Waiting, OnTheWay
  <2>3. \A u \in Audience : SenderAdds(u) => SenderAdds(u)'
    BY <1>1, <1>2 DEF SenderAdds, UsedThen, Lapsed
  <2> QED
    BY <1>1, <1>2, <2>1, <2>2, <2>3 DEF TierInv, Accounted
<1>3. ASSUME NEW batch \in SUBSET pending,
             batch # {}, Available(tier) # 0,
             Cardinality(batch) <= Available(tier),
             pending' = pending \ batch,
             ledger' = [u \in Audience |-> IF u \in batch THEN Queued ELSE ledger[u]],
             blame' = blame \union Blamed("inflight", Uncounted # {})
      PROVE  TierInv'
  <2> USE DEF TierInv
  <2>1. /\ pending \subseteq Audience /\ batch \subseteq Audience
        /\ \A u \in batch : ledger[u].step = "none"
    BY <1>3, LedgerShape DEF TierTyped, PendingUnqueued
  <2>2. \A u \in Audience : ledger'[u] = IF u \in batch THEN Queued ELSE ledger[u]
    BY <1>3
  <2>3. TierTyped'
    <3>1. Queued \in LedgerSteps
      BY DEF Queued, LedgerSteps
    <3>2. ledger' \in [Audience -> LedgerSteps]
      BY <1>3, <3>1 DEF TierTyped
    <3> QED
      BY <1>1, <1>3, <3>2 DEF TierTyped
  <2>4. PendingUnqueued'
    BY <1>3, <2>1, <2>2 DEF PendingUnqueued
  <2>5. \A u \in Audience : ledger'[u].step = IF u \in batch THEN "queued" ELSE ledger[u].step
    BY <2>2 DEF Queued
  <2>6. NotedOnly'
    <3>1. \A u \in Audience : Noted(u)' <=> Noted(u)
      BY <2>1, <2>5 DEF Noted
    <3>2. \A w \in Windows : \A u \in tracked'[w] : Noted(u)'
      BY <1>1, <3>1 DEF NotedOnly, TierTyped
    <3>3. ASSUME NEW v \in Audience, ledger'[v].step = "track", NEW u \in ledger'[v].set
          PROVE  u = v \/ Noted(u)'
      <4>1. ledger[v].step = "track" /\ ledger'[v] = ledger[v]
        BY <3>3, <2>2, <2>5
      <4>2. u \in Audience
        BY <4>1, <3>3, LedgerShape
      <4> QED
        BY <4>1, <4>2, <3>1, <3>3 DEF NotedOnly
    <3> QED
      BY <3>2, <3>3 DEF NotedOnly
  <2>7. NoneAhead'
    BY <1>1, <2>2, <2>5 DEF NoneAhead, NotAhead
  <2>8. Accounted'
    <3> SUFFICES ASSUME blame' = {} PROVE Accounted'
      BY DEF Accounted
    <3>1. blame = {} /\ Uncounted = {}
      BY <1>3 DEF Blamed
    <3>2. \A u \in Audience : ledger[u].step \in {"none", "counted"}
      BY <3>1, LedgerShape DEF Uncounted
    <3>3. OnTheWay = {} /\ OnTheWay' = {} /\ Waiting' = batch
      <4>1. OnTheWay = {} /\ OnTheWay' = {}
        BY <3>2, <2>5 DEF OnTheWay
      <4>2. \A u \in Audience : ledger'[u] = Queued <=> u \in batch
        BY <2>2, <3>2, LedgerShape
      <4> QED
        BY <4>1, <4>2, <2>1 DEF Waiting
    <3>4. \A u \in Audience : SenderAdds(u)'
      BY <2>5, <3>2 DEF SenderAdds
    <3>5. UsedToday' = UsedToday
      BY <1>1 DEF UsedToday, WindowExpired
    <3>6. /\ Cardinality(reached) \in Nat /\ Cardinality(batch) \in Nat
          /\ Cardinality({}) = 0
      BY <2>1, UsersCount, FS_EmptySet DEF TierTyped
    <3>7. Cardinality(reached) <= UsedToday
      BY <3>1, <3>3, <3>6, AllowanceLeft DEF Accounted
    <3>8. Cardinality(reached) + Cardinality(batch) <= Allowance
      BY <1>3, <3>6, <3>7, AllowanceLeft
    <3> QED
      BY <1>1, <3>3, <3>4, <3>5, <3>6, <3>7, <3>8, AllowanceLeft DEF Accounted
  <2> QED
    BY <2>3, <2>4, <2>6, <2>7, <2>8
<1> QED
  BY <1>2, <1>3 DEF TierTick

\* One sender moves on, and forgets nobody.
MovesOn(u, at) ==
    /\ at \in LedgerSteps /\ at # Unqueued /\ u \notin pending
    /\ ledger' = [ledger EXCEPT ![u] = at] /\ UNCHANGED <<pending, day>>
    /\ at.step = "lookup" => at.at <= day /\ at.copy.anchor <= day
    /\ at.step \in {"track", "count"} => at.window <= day
    /\ Noted(u) => at.step \in {"count", "counted"}
    /\ at.step = "track" => \A v \in at.set : v \in Audience /\ (v = u \/ Noted(v))
    /\ \A w \in Windows : \A v \in tracked'[w] :
          v \in Audience /\ (Noted(v) \/ (v = u /\ at.step \in {"count", "counted"}))

\* Then what is noted stays noted.
LEMMA NotedStays ==
  ASSUME TierTyped, PendingUnqueued, NotedOnly, NoneAhead,
         NEW u \in Audience, NEW at, MovesOn(u, at)
  PROVE  /\ ledger' \in [Audience -> LedgerSteps]
         /\ ledger'[u] = at /\ \A v \in Audience \ {u} : ledger'[v] = ledger[v]
         /\ PendingUnqueued' /\ NotedOnly' /\ NoneAhead'
<1> USE DEF MovesOn
<1>1. /\ ledger' \in [Audience -> LedgerSteps]
      /\ ledger'[u] = at /\ \A v \in Audience \ {u} : ledger'[v] = ledger[v]
  BY DEF TierTyped
<1>2. PendingUnqueued'
  BY <1>1 DEF PendingUnqueued, TierTyped
<1>3. \A v \in Audience : Noted(v) => Noted(v)'
  BY <1>1 DEF Noted
<1>4. \A w \in Windows : \A v \in tracked'[w] : Noted(v)'
  BY <1>1, <1>3 DEF Noted
<1>5. ASSUME NEW v \in Audience, ledger'[v].step = "track", NEW x \in ledger'[v].set
      PROVE  x = v \/ Noted(x)'
  <2>1. CASE v = u
    BY <2>1, <1>1, <1>3, <1>5
  <2>2. CASE v # u
    <3>1. ledger'[v] = ledger[v] /\ x \in Audience
      BY <2>2, <1>1, <1>5, LedgerShape
    <3> QED
      BY <3>1, <1>3, <1>5 DEF NotedOnly
  <2> QED
    BY <2>1, <2>2
<1>6. NoneAhead'
  BY <1>1 DEF NoneAhead, NotAhead
<1> QED
  BY <1>1, <1>2, <1>4, <1>5, <1>6 DEF NotedOnly

\* A sender that does not move is not disturbed.
LEMMA OthersAdd ==
  ASSUME NEW v \in Audience, SenderAdds(v), ledger'[v] = ledger[v], day' = day
  PROVE  SenderAdds(v)'
BY DEF SenderAdds, UsedThen, Lapsed

\* Meta accepts: one more user reached, and one fewer in the queue.
LEMMA SenderAccepted ==
  ASSUME TierInv, NEW u \in Audience, Accepted(u)
  PROVE  TierInv'
<1> DEFINE at == [step |-> "lookup", copy |-> tier, at |-> day]
<1>1. /\ ledger[u] = Queued /\ ledger' = [ledger EXCEPT ![u] = at]
      /\ reached' = reached \union {u}
      /\ UNCHANGED <<day, tier, tracked, pending, blame>>
  BY DEF Accepted
<1>2. TierTyped /\ PendingUnqueued /\ NotedOnly /\ NoneAhead /\ Accounted
  BY DEF TierInv
<1>3. ledger[u].step = "queued" /\ u \notin pending
  BY <1>1, <1>2, LedgerShape DEF PendingUnqueued
<1>4. at \in LedgerSteps /\ at # Unqueued /\ at.step = "lookup"
  <2>1. tier \in Account /\ day \in Windows
    BY <1>2 DEF TierTyped
  <2> QED
    BY <2>1 DEF LedgerSteps, Unqueued
<1> HIDE DEF at
<1>5. \A w \in Windows : \A v \in tracked'[w] : v \in Audience /\ Noted(v)
  BY <1>1, <1>2 DEF TierTyped, NotedOnly
<1>6. ledger' \in [Audience -> LedgerSteps] /\ PendingUnqueued' /\ NotedOnly' /\ NoneAhead'
  <2>1. ~ Noted(u) /\ at.step # "track" /\ pending' = pending
    BY <1>1, <1>3, <1>4 DEF Noted
  <2>2. Noted(u) => at.step \in {"count", "counted"}
    BY <2>1
  <2>3. at.step = "track" => \A v \in at.set : v \in Audience /\ (v = u \/ Noted(v))
    BY <2>1
  <2>4. \A w \in Windows : \A v \in tracked'[w] :
          v \in Audience /\ (Noted(v) \/ (v = u /\ at.step \in {"count", "counted"}))
    BY <1>5
  <2>5. at.at <= day /\ at.copy.anchor <= day
    BY <1>2, AllowanceLeft DEF at
  <2>6. MovesOn(u, at)
    BY <1>1, <1>3, <1>4, <2>1, <2>2, <2>3, <2>4, <2>5 DEF MovesOn
  <2> QED
    BY <1>1, <1>2, <2>6, NotedStays
<1>7. TierTyped'
  BY <1>1, <1>2, <1>6 DEF TierTyped
<1>8. ledger'[u] = at /\ \A v \in Audience \ {u} : ledger'[v] = ledger[v]
  BY <1>1, <1>2 DEF TierTyped
<1>9. Accounted'
  <2> SUFFICES ASSUME blame' = {} PROVE Accounted'
    BY DEF Accounted
  <2>1. /\ \A v \in Audience : SenderAdds(v)
        /\ Cardinality(reached) <= UsedToday + Cardinality(OnTheWay)
        /\ Cardinality(reached) + Cardinality(Waiting) <= Allowance
    BY <1>1, <1>2 DEF Accounted
  <2>2. ASSUME NEW v \in Audience PROVE SenderAdds(v)'
    <3>1. CASE v = u
      <4>1. at.at = day /\ at.copy.anchor <= day
        BY <1>2, AllowanceLeft DEF at
      <4> QED
        BY <3>1, <4>1, <1>1, <1>4, <1>8 DEF SenderAdds
    <3>2. CASE v # u
      BY <3>2, <2>1, <1>1, <1>8, OthersAdd
    <3> QED
      BY <3>1, <3>2
  <2>3. Waiting' = Waiting \ {u} /\ u \in Waiting
    <3>1. at # Queued
      BY <1>4 DEF Queued
    <3> QED
      BY <3>1, <1>1, <1>8 DEF Waiting
  <2>4. OnTheWay' = OnTheWay \union {u} /\ u \notin OnTheWay
    BY <1>3, <1>4, <1>8 DEF OnTheWay
  <2>5. /\ IsFiniteSet(Waiting) /\ Cardinality(Waiting) \in Nat
        /\ IsFiniteSet(OnTheWay) /\ Cardinality(OnTheWay) \in Nat
        /\ IsFiniteSet(reached) /\ Cardinality(reached) \in Nat
    BY <1>2, UsersCount DEF Waiting, OnTheWay, TierTyped
  <2>6. Cardinality(Waiting') = Cardinality(Waiting) - 1
    BY <2>3, <2>5, FS_RemoveElement
  <2>7. Cardinality(OnTheWay') = Cardinality(OnTheWay) + 1
    BY <2>4, <2>5, FS_AddElement
  <2>8. Cardinality(reached') \in {Cardinality(reached), Cardinality(reached) + 1}
    BY <1>1, <2>5, FS_AddElement
  <2>9. UsedToday' = UsedToday
    BY <1>1 DEF UsedToday, WindowExpired
  <2> QED
    BY <1>2, <2>1, <2>2, <2>5, <2>6, <2>7, <2>8, <2>9, AllowanceLeft DEF Accounted
<1> QED
  BY <1>6, <1>7, <1>9 DEF TierInv

\* The sender looks its user up: the branch in which the user was counted
\* before is never taken, as only its own sender notes it.
LEMMA SenderLooksUp ==
  ASSUME TierInv, NEW u \in Audience, LedgerLookup(u)
  PROVE  TierInv'
<1> DEFINE copy == ledger[u].copy
           expired == copy.anchor = Unanchored \/ ledger[u].at > copy.anchor
           window == IF expired THEN ledger[u].at ELSE copy.anchor
           used == (IF expired THEN 0 ELSE copy.used) + 1
           set == tracked[window] \union {u}
           at == [step |-> "track", copy |-> copy, window |-> window, used |-> used, set |-> set]
<1>1. /\ ledger[u].step = "lookup"
      /\ ledger' = [ledger EXCEPT ![u] = IF u \in tracked[window] THEN Counted ELSE at]
      /\ UNCHANGED <<day, tier, tracked, pending, reached, blame>>
  BY DEF LedgerLookup
<1>2. TierTyped /\ PendingUnqueued /\ NotedOnly /\ NoneAhead /\ Accounted
  BY DEF TierInv
<1>3. copy \in Account /\ ledger[u].at \in Windows /\ copy.anchor \in Windows /\ copy.used \in Nat
  BY <1>1, <1>2, LedgerShape DEF Account
<1>4. window \in Windows /\ used \in Nat
  BY <1>3
<1>5. ~ Noted(u)
  BY <1>1 DEF Noted
<1>6. u \notin tracked[window] /\ tracked[window] \subseteq Audience
  BY <1>2, <1>4, <1>5 DEF NotedOnly, TierTyped
<1>7. \A v \in set : v \in Audience /\ (v = u \/ Noted(v))
  BY <1>2, <1>4, <1>6 DEF NotedOnly
<1>8. set \in SUBSET Audience
  BY <1>6
<1> HIDE DEF window, used, set, expired, copy
<1>9. /\ at \in [step : {"track", "count"}, copy : Account, window : Windows,
                 used : Nat, set : SUBSET Audience]
      /\ at.step = "track" /\ at # Unqueued /\ at.set = set
      /\ at.copy = copy /\ at.window = window /\ at.used = used
  BY <1>3, <1>4, <1>8 DEF Unqueued
<1>10. at \in LedgerSteps
  BY <1>9 DEF LedgerSteps
<1>11. ledger' = [ledger EXCEPT ![u] = at]
  BY <1>1, <1>6
<1> HIDE DEF at
<1>12. u \notin pending
  BY <1>1, <1>2, LedgerShape DEF PendingUnqueued
<1>13. \A w \in Windows : \A v \in tracked'[w] :
         v \in Audience /\ (Noted(v) \/ (v = u /\ at.step \in {"count", "counted"}))
  BY <1>1, <1>2 DEF TierTyped, NotedOnly
<1>14. window <= day
  BY <1>1, <1>2 DEF NoneAhead, NotAhead, window, copy
<1>15. MovesOn(u, at)
  BY <1>1, <1>14, <1>5, <1>7, <1>9, <1>10, <1>11, <1>12, <1>13 DEF MovesOn
<1>16. /\ ledger' \in [Audience -> LedgerSteps]
       /\ ledger'[u] = at /\ \A v \in Audience \ {u} : ledger'[v] = ledger[v]
       /\ PendingUnqueued' /\ NotedOnly' /\ NoneAhead'
  BY <1>2, <1>15, NotedStays
<1>17. TierTyped'
  BY <1>1, <1>2, <1>16 DEF TierTyped
<1>18. Accounted'
  <2> SUFFICES ASSUME blame' = {} PROVE Accounted'
    BY DEF Accounted
  <2>1. /\ \A v \in Audience : SenderAdds(v)
        /\ Cardinality(reached) <= UsedToday + Cardinality(OnTheWay)
        /\ Cardinality(reached) + Cardinality(Waiting) <= Allowance
    BY <1>1, <1>2 DEF Accounted
  <2>2. ASSUME NEW v \in Audience PROVE SenderAdds(v)'
    <3>1. CASE v = u
      <4>1. ledger[u].at = day /\ copy.anchor <= day
        BY <2>1, <1>1 DEF SenderAdds, copy
      <4>2. expired = Lapsed(copy)
        BY <4>1 DEF expired, Lapsed
      <4>3. used = UsedThen(copy) + 1
        BY <4>2 DEF used, UsedThen
      <4>4. day \in Nat /\ copy.anchor \in Nat
        BY <1>2, <1>3, AllowanceLeft DEF Windows
      <4>5. window = day
        BY <4>1, <4>4 DEF window, expired
      <4>6. UsedThen(copy) = IF copy.anchor = Unanchored \/ day > copy.anchor THEN 0 ELSE copy.used
        BY DEF UsedThen, Lapsed
      <4>7. /\ ledger'[u] = at /\ day' = day /\ at.step = "track"
            /\ at.copy = copy /\ at.window = day /\ copy.anchor <= day
            /\ at.used = (IF copy.anchor = Unanchored \/ day > copy.anchor THEN 0 ELSE copy.used) + 1
        BY <1>1, <1>9, <1>16, <4>1, <4>3, <4>5, <4>6
      <4> HIDE DEF copy
      <4> QED
        BY <3>1, <4>7 DEF SenderAdds, UsedThen, Lapsed
    <3>2. CASE v # u
      BY <3>2, <2>1, <1>1, <1>16, OthersAdd
    <3> QED
      BY <3>1, <3>2
  <2>3. Waiting' = Waiting /\ OnTheWay' = OnTheWay
    <3>1. at # Queued /\ ledger[u] # Queued
      BY <1>1, <1>9 DEF Queued
    <3> QED
      BY <3>1, <1>1, <1>9, <1>16 DEF Waiting, OnTheWay
  <2>4. UsedToday' = UsedToday
    BY <1>1 DEF UsedToday, WindowExpired
  <2> QED
    BY <1>1, <2>1, <2>2, <2>3, <2>4 DEF Accounted
<1> QED
  BY <1>16, <1>17, <1>18 DEF TierInv

\* The sender writes the set back, with its user in it.
LEMMA SenderTracks ==
  ASSUME TierInv, NEW u \in Audience, LedgerTrack(u)
  PROVE  TierInv'
<1> DEFINE at == [ledger[u] EXCEPT !.step = "count"]
<1>1. /\ ledger[u].step = "track"
      /\ tracked' = [tracked EXCEPT ![ledger[u].window] = ledger[u].set]
      /\ ledger' = [ledger EXCEPT ![u] = at]
      /\ UNCHANGED <<day, tier, pending, reached, blame>>
  BY DEF LedgerTrack
<1>2. TierTyped /\ PendingUnqueued /\ NotedOnly /\ NoneAhead /\ Accounted
  BY DEF TierInv
<1>3. /\ ledger[u] \in [step : {"track", "count"}, copy : Account, window : Windows,
                        used : Nat, set : SUBSET Audience]
      /\ ledger[u].window \in Windows /\ ledger[u].set \subseteq Audience
  BY <1>1, <1>2, LedgerShape
<1>4. /\ at \in [step : {"track", "count"}, copy : Account, window : Windows,
                 used : Nat, set : SUBSET Audience]
      /\ at.step = "count" /\ at.copy = ledger[u].copy
      /\ at.window = ledger[u].window /\ at.used = ledger[u].used
  BY <1>3
<1> HIDE DEF at
<1>5. at \in LedgerSteps /\ at # Unqueued
  BY <1>4 DEF LedgerSteps, Unqueued
<1>6. u \notin pending
  BY <1>1, <1>2, LedgerShape DEF PendingUnqueued
<1>7. tracked' \in [Windows -> SUBSET Audience]
  BY <1>1, <1>2, <1>3 DEF TierTyped
<1>8. \A w \in Windows : \A v \in tracked'[w] :
         v \in Audience /\ (Noted(v) \/ (v = u /\ at.step \in {"count", "counted"}))
  <2> SUFFICES ASSUME NEW w \in Windows, NEW v \in tracked'[w]
               PROVE  v \in Audience /\ (Noted(v) \/ v = u)
    BY <1>4
  <2>1. v \in Audience
    BY <1>7
  <2>2. v \in tracked[w] \/ v \in ledger[u].set
    BY <1>1, <1>2, <1>3 DEF TierTyped
  <2>3. Noted(v) \/ v = u
    BY <2>2, <1>1, <1>2 DEF NotedOnly
  <2> QED
    BY <2>1, <2>3
<1>9. at.window <= day
  BY <1>1, <1>2, <1>4 DEF NoneAhead, NotAhead
<1>10. MovesOn(u, at)
  BY <1>1, <1>9, <1>4, <1>5, <1>6, <1>8 DEF MovesOn
<1>11. /\ ledger' \in [Audience -> LedgerSteps]
       /\ ledger'[u] = at /\ \A v \in Audience \ {u} : ledger'[v] = ledger[v]
       /\ PendingUnqueued' /\ NotedOnly' /\ NoneAhead'
  BY <1>2, <1>10, NotedStays
<1>12. TierTyped'
  BY <1>1, <1>2, <1>7, <1>11 DEF TierTyped
<1>13. Accounted'
  <2> SUFFICES ASSUME blame' = {} PROVE Accounted'
    BY DEF Accounted
  <2>1. /\ \A v \in Audience : SenderAdds(v)
        /\ Cardinality(reached) <= UsedToday + Cardinality(OnTheWay)
        /\ Cardinality(reached) + Cardinality(Waiting) <= Allowance
    BY <1>1, <1>2 DEF Accounted
  <2>2. ASSUME NEW v \in Audience PROVE SenderAdds(v)'
    <3>1. CASE v = u
      <4>1. SenderAdds(u)
        BY <2>1
      <4>2. /\ ledger'[u].step = "count" /\ ledger'[u].copy = ledger[u].copy
            /\ ledger'[u].window = ledger[u].window /\ ledger'[u].used = ledger[u].used
        BY <1>4, <1>11
      <4> QED
        BY <3>1, <4>1, <4>2, <1>1 DEF SenderAdds, UsedThen, Lapsed
    <3>2. CASE v # u
      BY <3>2, <2>1, <1>1, <1>11, OthersAdd
    <3> QED
      BY <3>1, <3>2
  <2>3. Waiting' = Waiting /\ OnTheWay' = OnTheWay
    <3>1. at # Queued /\ ledger[u] # Queued
      BY <1>1, <1>4 DEF Queued
    <3> QED
      BY <3>1, <1>1, <1>4, <1>11 DEF Waiting, OnTheWay
  <2>4. UsedToday' = UsedToday
    BY <1>1 DEF UsedToday, WindowExpired
  <2> QED
    BY <1>1, <2>1, <2>2, <2>3, <2>4 DEF Accounted
<1> QED
  BY <1>11, <1>12, <1>13 DEF TierInv

\* The sender is done with its user, counted or not.
LEMMA SenderEnds ==
  ASSUME TierInv, NEW u \in Audience,
         ledger[u].step \in {"lookup", "track", "count"},
         ledger' = [ledger EXCEPT ![u] = Counted],
         UNCHANGED <<day, tracked, pending>>
  PROVE  /\ ledger' \in [Audience -> LedgerSteps]
         /\ ledger'[u] = Counted /\ \A v \in Audience \ {u} : ledger'[v] = ledger[v]
         /\ PendingUnqueued' /\ NotedOnly' /\ NoneAhead'
<1>1. TierTyped /\ PendingUnqueued /\ NotedOnly /\ NoneAhead
  BY DEF TierInv
<1>2. Counted \in LedgerSteps /\ Counted # Unqueued /\ Counted.step = "counted"
  BY DEF Counted, LedgerSteps, Unqueued
<1>3. u \notin pending
  BY <1>1, LedgerShape DEF PendingUnqueued
<1>4. \A w \in Windows : \A v \in tracked'[w] : v \in Audience /\ Noted(v)
  BY <1>1 DEF TierTyped, NotedOnly
<1>5. MovesOn(u, Counted)
  BY <1>2, <1>3, <1>4 DEF MovesOn
<1> QED
  BY <1>1, <1>5, NotedStays

\* The counter is written: from a copy nobody had changed meanwhile it goes
\* up by one, as one sender fewer is on its way.
LEMMA SenderCounts ==
  ASSUME TierInv, NEW u \in Audience, LedgerCount(u)
  PROVE  TierInv'
<1>1. /\ ledger[u].step = "count"
      /\ tier' = [used |-> ledger[u].used, anchor |-> NewAnchor(u)]
      /\ blame' = blame \union Blamed("race", tier # ledger[u].copy)
      /\ ledger' = [ledger EXCEPT ![u] = Counted]
      /\ UNCHANGED <<day, tracked, pending, reached>>
  BY DEF LedgerCount
<1>2. TierTyped /\ PendingUnqueued /\ NotedOnly /\ NoneAhead /\ Accounted
  BY DEF TierInv
<1>3. /\ ledger' \in [Audience -> LedgerSteps]
      /\ ledger'[u] = Counted /\ \A v \in Audience \ {u} : ledger'[v] = ledger[v]
      /\ PendingUnqueued' /\ NotedOnly' /\ NoneAhead'
  BY <1>1, SenderEnds
<1>4. ledger[u].window \in Windows /\ ledger[u].used \in Nat /\ ledger[u].window <= day
  BY <1>1, <1>2, LedgerShape DEF NoneAhead, NotAhead
<1>5. /\ tier'.used = ledger[u].used /\ tier'.anchor = NewAnchor(u)
      /\ NewAnchor(u) \in Windows /\ NewAnchor(u) <= day
  BY <1>1, <1>2, <1>4, AllowanceLeft DEF NewAnchor
<1>6. TierTyped'
  <2>1. tier' \in Account
    BY <1>1, <1>4, <1>5 DEF Account
  <2> QED
    BY <1>1, <1>2, <1>3, <1>5, <2>1 DEF TierTyped
<1>7. Accounted'
  <2> SUFFICES ASSUME blame' = {} PROVE Accounted'
    BY DEF Accounted
  <2>1. blame = {} /\ tier = ledger[u].copy
    BY <1>1 DEF Blamed
  <2>2. /\ \A v \in Audience : SenderAdds(v)
        /\ Cardinality(reached) <= UsedToday + Cardinality(OnTheWay)
        /\ Cardinality(reached) + Cardinality(Waiting) <= Allowance
    BY <1>2, <2>1 DEF Accounted
  <2>3. ASSUME NEW v \in Audience PROVE SenderAdds(v)'
    <3>1. CASE v = u
      BY <3>1, <1>3 DEF SenderAdds, Counted
    <3>2. CASE v # u
      BY <3>2, <2>2, <1>1, <1>3, OthersAdd
    <3> QED
      BY <3>1, <3>2
  <2>4. Waiting' = Waiting
    <3>1. Counted # Queued /\ ledger[u] # Queued
      BY <1>1 DEF Counted, Queued
    <3> QED
      BY <3>1, <1>3 DEF Waiting
  <2>5. OnTheWay' = OnTheWay \ {u} /\ u \in OnTheWay
    BY <1>1, <1>3 DEF OnTheWay, Counted
  <2>6. IsFiniteSet(OnTheWay) /\ Cardinality(OnTheWay) \in Nat /\ Cardinality(reached) \in Nat
    BY <1>2, UsersCount DEF OnTheWay, TierTyped
  <2>7. Cardinality(OnTheWay') = Cardinality(OnTheWay) - 1
    BY <2>5, <2>6, FS_RemoveElement
  <2>8. UsedToday' = UsedToday + 1
    <3>1. /\ ledger[u].window = day
          /\ ledger[u].used = (IF tier.anchor = Unanchored \/ day > tier.anchor THEN 0 ELSE tier.used) + 1
      BY <2>1, <2>2, <1>1 DEF SenderAdds, UsedThen, Lapsed
    <3>2. NewAnchor(u) = day
      BY <3>1, <2>1 DEF NewAnchor
    <3>3. day # Unanchored /\ day \in Nat
      BY <1>2, AllowanceLeft DEF Unanchored
    <3>4. UsedToday = IF tier.anchor = Unanchored \/ day > tier.anchor THEN 0 ELSE tier.used
      BY DEF UsedToday, WindowExpired
    <3>5. tier'.anchor = day /\ day' = day /\ tier'.used = UsedToday + 1
      BY <1>1, <1>5, <3>1, <3>2, <3>4
    <3> QED
      BY <3>3, <3>5 DEF UsedToday, WindowExpired
  <2>9. UsedToday \in Nat
    BY <1>2, AllowanceLeft
  <2> QED
    BY <1>1, <2>2, <2>3, <2>4, <2>6, <2>7, <2>8, <2>9 DEF Accounted
<1> QED
  BY <1>3, <1>6, <1>7 DEF TierInv

\* The health check rolls the window: a counter of an earlier day counts as
\* nothing already.
LEMMA HealthRollsOver ==
  ASSUME TierInv, HealthRolls
  PROVE  TierInv'
<1>1. /\ tier' = [used |-> 0, anchor |-> day]
      /\ blame' = blame \union Blamed("race", ~ WindowExpired(tier))
      /\ UNCHANGED <<day, tracked, pending, ledger, reached>>
  BY DEF HealthRolls
<1>2. TierTyped /\ PendingUnqueued /\ NotedOnly /\ NoneAhead /\ Accounted
  BY DEF TierInv
<1>3. tier'.used = 0 /\ tier'.anchor = day /\ tier' \in Account /\ day \in Nat \ {0}
  BY <1>1, <1>2, AllowanceLeft DEF Account
<1>4. TierTyped'
  BY <1>1, <1>2, <1>3 DEF TierTyped
<1>5. PendingUnqueued' /\ NotedOnly' /\ NoneAhead'
  BY <1>1, <1>2 DEF PendingUnqueued, NotedOnly, Noted, NoneAhead, NotAhead
<1>6. Accounted'
  <2> SUFFICES ASSUME blame' = {} PROVE Accounted'
    BY DEF Accounted
  <2>1. blame = {} /\ WindowExpired(tier)
    BY <1>1 DEF Blamed
  <2>2. UsedToday = 0 /\ UsedToday' = 0
    BY <2>1, <1>1, <1>3 DEF UsedToday, WindowExpired, Unanchored
  <2>3. Waiting' = Waiting /\ OnTheWay' = OnTheWay
    BY <1>1 DEF Waiting, OnTheWay
  <2>4. \A v \in Audience : SenderAdds(v) => SenderAdds(v)'
    BY <1>1 DEF SenderAdds, UsedThen, Lapsed
  <2> QED
    BY <1>1, <1>2, <2>1, <2>2, <2>3, <2>4 DEF Accounted
<1> QED
  BY <1>4, <1>5, <1>6 DEF TierInv

\* A day begins: nobody was reached in it, and nothing is blamed on it if
\* nothing was left over.
LEMMA DayBegins ==
  ASSUME TierInv, NextDay
  PROVE  TierInv'
<1>1. /\ day < Days /\ day' = day + 1 /\ reached' = {}
      /\ blame' = Blamed("overnight", Uncounted # {} \/ roll # "idle")
      /\ UNCHANGED <<tier, tracked, pending, ledger>>
  BY DEF NextDay
<1>2. TierTyped /\ PendingUnqueued /\ NotedOnly /\ NoneAhead
  BY DEF TierInv
<1>3. /\ day \in Nat \ {0} /\ Days \in Nat /\ Allowance \in Nat
      /\ tier.anchor \in Nat /\ tier.anchor <= day
  BY <1>2, AllowanceLeft
<1>4. TierTyped'
  <2>1. day' \in Windows \ {Unanchored} /\ tier'.anchor <= day'
    BY <1>1, <1>3 DEF Windows, Unanchored
  <2> QED
    BY <1>1, <1>2, <2>1 DEF TierTyped
<1>5. PendingUnqueued' /\ NotedOnly'
  BY <1>1, <1>2 DEF PendingUnqueued, NotedOnly, Noted
<1>6. NoneAhead'
  <2> SUFFICES ASSUME NEW u \in Audience PROVE NotAhead(u)'
    BY DEF NoneAhead
  <2>1. NotAhead(u)
    BY <1>2 DEF NoneAhead
  <2>2. ledger[u].step = "lookup" => ledger[u].at \in Nat /\ ledger[u].copy.anchor \in Nat
    BY <1>2, <1>3, LedgerShape DEF Windows, Account
  <2>3. ledger[u].step \in {"track", "count"} => ledger[u].window \in Nat
    BY <1>2, <1>3, LedgerShape DEF Windows
  <2> QED
    BY <2>1, <2>2, <2>3, <1>1, <1>3 DEF NotAhead
<1>7. Accounted'
  <2> SUFFICES ASSUME blame' = {} PROVE Accounted'
    BY DEF Accounted
  <2>1. Uncounted = {}
    BY <1>1 DEF Blamed
  <2>2. \A u \in Audience : ledger[u].step \in {"none", "counted"}
    BY <2>1, <1>2, LedgerShape DEF Uncounted
  <2>3. \A u \in Audience : SenderAdds(u)'
    BY <2>2, <1>1 DEF SenderAdds
  <2>4. Waiting' = {} /\ OnTheWay' = {}
    BY <2>2, <1>1 DEF Waiting, OnTheWay, Queued
  <2>5. UsedToday' \in Nat
    <3>1. tier.used \in Nat
      BY <1>2, AllowanceLeft
    <3> QED
      BY <3>1, <1>1 DEF UsedToday
  <2>6. Cardinality({}) = 0
    BY FS_EmptySet
  <2> QED
    BY <1>1, <1>3, <2>3, <2>4, <2>5, <2>6 DEF Accounted
<1> QED
  BY <1>4, <1>5, <1>6, <1>7 DEF TierInv

\* Every step keeps the counter ahead of the users.
LEMMA TierStep == TierInv /\ [TierNext]_tierVars => TierInv'
<1> SUFFICES ASSUME TierInv, [TierNext]_tierVars PROVE TierInv'
  OBVIOUS
<1>1. CASE UNCHANGED <<day, tier, tracked, pending, ledger, reached, blame>>
  <2>1. UsedToday' = UsedToday /\ Waiting' = Waiting /\ OnTheWay' = OnTheWay
    BY <1>1 DEF UsedToday, WindowExpired, Waiting, OnTheWay
  <2>2. \A v \in Audience : SenderAdds(v) => SenderAdds(v)'
    BY <1>1 DEF SenderAdds, UsedThen, Lapsed
  <2>3. Accounted'
    BY <1>1, <2>1, <2>2 DEF TierInv, Accounted
  <2> QED
    BY <1>1, <2>3
    DEF TierInv, TierTyped, PendingUnqueued, NotedOnly, Noted, NoneAhead, NotAhead
<1>2. ASSUME NEW u \in Audience, LedgerLapses(u)
      PROVE  TierInv'
  <2>1. /\ ledger[u].step \in {"lookup", "track", "count"}
        /\ ledger' = [ledger EXCEPT ![u] = Counted]
        /\ UNCHANGED <<day, tier, tracked, pending, reached>>
        /\ blame' # {}
    BY <1>2 DEF LedgerLapses
  <2>2. ledger' \in [Audience -> LedgerSteps] /\ PendingUnqueued' /\ NotedOnly' /\ NoneAhead'
    BY <2>1, SenderEnds
  <2> QED
    BY <2>1, <2>2 DEF TierInv, TierTyped, Accounted
<1>3. CASE TierTick
  BY <1>3, TierTicks
<1>4. CASE TierResume \/ HealthReads \/ UNCHANGED tierVars
  BY <1>1, <1>4 DEF TierResume, HealthReads, tierVars
<1>5. CASE HealthRolls \/ NextDay
  BY <1>5, HealthRollsOver, DayBegins
<1>6. ASSUME NEW u \in Audience,
             Accepted(u) \/ LedgerLookup(u) \/ LedgerTrack(u) \/ LedgerCount(u)
      PROVE  TierInv'
  BY <1>6, SenderAccepted, SenderLooksUp, SenderTracks, SenderCounts
<1> QED
  BY <1>2, <1>3, <1>4, <1>5, <1>6 DEF TierNext

\* The inductive invariant gives the property.
LEMMA TierFollows == TierInv => ReserveIsKept
<1> SUFFICES ASSUME TierInv, blame = {} PROVE Cardinality(reached) <= Allowance
  BY DEF ReserveIsKept
<1>1. /\ Cardinality(reached) \in Nat /\ Cardinality(Waiting) \in Nat /\ Allowance \in Nat
  BY UsersCount, AllowanceLeft DEF TierInv, TierTyped, Waiting
<1>2. Cardinality(reached) + Cardinality(Waiting) <= Allowance
  BY DEF TierInv, Accounted
<1> QED
  BY <1>1, <1>2

-----------------------------------------------------------------------------
(***************************************************************************)
(* CampaignRounds.                                                         *)
(***************************************************************************)
\* The lists are sequences, besides.
RoundsInv ==
    RoundsTypeOK /\ round \in Seq(Campaigns) /\ rollupList \in Seq(Campaigns)

\* Every campaign has one place in the rotation.
Turns(turns) ==
    /\ turns \in [1..Cardinality(Campaigns) -> Campaigns]
    /\ \A i, j \in 1..Cardinality(Campaigns) : i # j => turns[i] # turns[j]

\* A number has a least one with it, if any.
LEMMA LeastOne ==
  ASSUME NEW S \in SUBSET Nat, S # {}
  PROVE  \E n \in S : \A m \in S : n <= m
<1> DEFINE less == {ss \in Nat \X Nat : ss[1] < ss[2]}
<1>1. IsWellFoundedOn(less, Nat)
  BY NatLessThanWellFounded DEF OpToRel
<1>2. \A m, n \in Nat : <<m, n>> \notin less => n <= m
  OBVIOUS
<1> HIDE DEF less
<1>3. \E n \in S : \A m \in S : ~(<<m, n>> \in less)
  BY <1>1, WFMin
<1> QED
  BY <1>2, <1>3

\* Campaigns are finitely many.
LEMMA CampaignsCount == Cardinality(Campaigns) \in Nat
BY CampaignRoundsAssumption, FS_CardinalityType

\* Of some places, there is a first, a second, and so on to the last.
LEMMA PlacesCount ==
  ASSUME NEW n \in Nat, NEW places \in SUBSET (1..n), NEW k \in 1..Cardinality(places)
  PROVE  \E i \in places : Cardinality({j \in places : j <= i}) = k
<1> DEFINE upTo(m) == {j \in places : j <= m}
           far == {m \in 0..n : k <= Cardinality(upTo(m))}
<1>0. \A j \in places : j \in Nat /\ 1 <= j /\ j <= n
  OBVIOUS
<1>1. \A m \in Int : IsFiniteSet(upTo(m)) /\ Cardinality(upTo(m)) \in Nat
  <2>1. IsFiniteSet(1..n)
    BY FS_Interval
  <2>2. \A m \in Int : IsFiniteSet(upTo(m))
    BY <2>1, FS_Subset
  <2> QED
    BY <2>2, FS_CardinalityType
<1>2. n \in far
  <2>1. upTo(n) = places
    BY <1>0
  <2>2. Cardinality(places) \in Nat
    BY <1>1, <2>1
  <2> QED
    BY <2>1, <2>2
<1>3. PICK m \in far : \A q \in far : m <= q
  <2>1. far \in SUBSET Nat
    OBVIOUS
  <2> QED
    BY <1>2, <2>1, LeastOne
<1>4. m # 0
  <2>1. upTo(0) = {}
    <3>1. \A j \in places : ~ (j <= 0)
      BY <1>0
    <3> QED
      BY <3>1
  <2>2. 0 \notin far
    BY <2>1, FS_EmptySet
  <2> QED
    BY <1>3, <2>2
<1>5. m - 1 \in 0..n /\ Cardinality(upTo(m - 1)) < k
  <2>1. m \in 0..n /\ \A q \in 0..n : k <= Cardinality(upTo(q)) => m <= q
    BY <1>3
  <2>2. m - 1 \in 0..n /\ m - 1 < m
    BY <2>1, <1>4
  <2>3. Cardinality(upTo(m - 1)) \in Nat
    <3>1. m - 1 \in Int
      BY <2>2
    <3> QED
      BY <1>1, <3>1
  <2> HIDE DEF upTo
  <2> QED
    BY <2>1, <2>2, <2>3
<1>6. upTo(m) = IF m \in places THEN upTo(m - 1) \union {m} ELSE upTo(m - 1)
  <2>1. m \in Nat
    BY <1>3
  <2>2. \A j \in places : j <= m <=> j = m \/ j <= m - 1
    BY <1>0, <2>1
  <2>3. m <= m
    BY <2>1
  <2> QED
    BY <2>2, <2>3
<1>7. m \in places /\ Cardinality(upTo(m)) = Cardinality(upTo(m - 1)) + 1
  <2>1. k <= Cardinality(upTo(m))
    BY <1>3
  <2>2. m \in places
    <3>1. SUFFICES ASSUME m \notin places PROVE FALSE
      OBVIOUS
    <3>2. Cardinality(upTo(m)) = Cardinality(upTo(m - 1))
      BY <3>1, <1>6
    <3>3. m \in Int /\ Cardinality(upTo(m)) \in Nat
      <4>1. m \in Int
        BY <1>3
      <4> QED
        BY <1>1, <4>1
    <3> HIDE DEF upTo
    <3> QED
      BY <3>2, <3>3, <2>1, <1>5
  <2>3. m \notin upTo(m - 1) /\ IsFiniteSet(upTo(m - 1))
    <3>1. m \in Nat /\ ~ (m <= m - 1) /\ m - 1 \in Int
      BY <1>3
    <3> QED
      BY <1>1, <3>1
  <2> HIDE DEF upTo
  <2> QED
    BY <2>2, <2>3, <1>6, FS_AddElement
<1>8. Cardinality(upTo(m)) = k
  <2>1. k <= Cardinality(upTo(m))
    BY <1>3
  <2>2. Cardinality(upTo(m)) \in Nat /\ Cardinality(upTo(m - 1)) \in Nat
    <3>1. m \in Int /\ m - 1 \in Int
      BY <1>3
    <3> QED
      BY <1>1, <3>1
  <2> HIDE DEF upTo
  <2> QED
    BY <2>1, <2>2, <1>5, <1>7
<1> QED
  BY <1>7, <1>8

\* A page of the list is a sequence of campaigns: listCampaignsByStatus.
LEMMA PagesList ==
  ASSUME Turns(rotation), NEW members, NEW limit \in Nat
  PROVE  Page(members, limit) \in Seq(Campaigns)
<1> DEFINE listed == {i \in DOMAIN rotation : rotation[i] \in members}
           place(k) == CHOOSE i \in listed : Cardinality({j \in listed : j <= i}) = k
           size == IF limit < Cardinality(listed) THEN limit ELSE Cardinality(listed)
<1>1. listed \in SUBSET (1..Cardinality(Campaigns))
  BY DEF Turns
<1>2. Cardinality(listed) \in Nat
  <2>1. IsFiniteSet(1..Cardinality(Campaigns))
    BY CampaignsCount, FS_Interval
  <2> QED
    BY <2>1, <1>1, FS_Subset, FS_CardinalityType
<1> HIDE DEF listed
<1>3. \A k \in 1..Cardinality(listed) : place(k) \in listed
  BY <1>1, CampaignsCount, PlacesCount
<1> HIDE DEF place
<1>4. size \in Nat /\ size <= Cardinality(listed)
  BY <1>2
<1> HIDE DEF size
<1>5. \A k \in 1..size : rotation[place(k)] \in Campaigns
  <2>1. \A k \in 1..size : k \in 1..Cardinality(listed)
    BY <1>2, <1>4
  <2>2. \A i \in listed : rotation[i] \in Campaigns
    BY <1>1 DEF Turns
  <2> QED
    BY <1>3, <2>1, <2>2
<1>6. Page(members, limit) = [k \in 1..size |-> rotation[place(k)]]
  BY DEF Page, listed, place, size
<1>7. Page(members, limit) \in [1..size -> Campaigns]
  BY <1>5, <1>6
<1> QED
  BY <1>4, <1>7

\* What a sequence lists is in the set it is of.
LEMMA RangeOfList ==
  ASSUME NEW S, NEW s \in Seq(S)
  PROVE  Range(s) \subseteq S
BY DEF Range

\* The first order has every campaign once.
LEMMA FirstTurns == Turns(SetToSeq(Campaigns))
<1> DEFINE n == Cardinality(Campaigns)
<1>1. ExistsBijection(1..n, Campaigns)
  BY CampaignRoundsAssumption, FS_CardinalityType
<1>2. \E f \in [1..n -> Campaigns] : IsInjective(f)
  BY <1>1 DEF ExistsBijection, Bijection, Injection
<1>3. /\ SetToSeq(Campaigns) \in [1..n -> Campaigns]
      /\ IsInjective(SetToSeq(Campaigns))
  BY <1>2 DEF SetToSeq
<1> QED
  BY <1>3 DEF Turns, IsInjective

\* As many places as campaigns: none is without a place.
LEMMA EveryoneHasATurn ==
  ASSUME NEW turns, Turns(turns), NEW c \in Campaigns
  PROVE  \E i \in 1..Cardinality(Campaigns) : turns[i] = c
<1> DEFINE n == Cardinality(Campaigns)
           taken == {turns[i] : i \in 1..n}
<1>1. taken \subseteq Campaigns
  BY DEF Turns
<1>2. ExistsBijection(1..n, taken)
  <2>1. turns \in [1..n -> taken]
    BY DEF Turns
  <2>2. turns \in Bijection(1..n, taken)
    BY <2>1 DEF Turns, Bijection, Injection, Surjection, IsInjective
  <2> QED
    BY <2>2 DEF ExistsBijection
<1>3. Cardinality(taken) = n
  BY <1>2, CampaignsCount, FS_CountingElements
<1>4. taken = Campaigns
  BY <1>1, <1>3, CampaignRoundsAssumption, FS_Subset
<1> QED
  BY <1>4

\* The campaign that was served goes to the end, the others keep their order:
\* still every campaign has one place.
LEMMA ServedTurns ==
  ASSUME Turns(rotation), NEW c \in Campaigns
  PROVE  Turns(Served(c))
<1> DEFINE n == Cardinality(Campaigns)
           p == CHOOSE i \in DOMAIN rotation : rotation[i] = c
<1>1. n \in Nat /\ rotation \in Seq(Campaigns) /\ Len(rotation) = n /\ DOMAIN rotation = 1..n
  BY CampaignsCount DEF Turns
<1>2. p \in 1..n /\ rotation[p] = c
  BY <1>1, EveryoneHasATurn
<1> HIDE DEF p
<1> DEFINE before == SubSeq(rotation, 1, p - 1)
           after == SubSeq(rotation, p + 1, n)
<1>3. /\ before \in Seq(Campaigns) /\ Len(before) = p - 1
      /\ \A i \in 1..(p - 1) : before[i] = rotation[i]
  BY <1>1, <1>2
<1>4. /\ after \in Seq(Campaigns) /\ Len(after) = n - p
      /\ \A i \in 1..(n - p) : after[i] = rotation[p + i]
  BY <1>1, <1>2
<1> HIDE DEF n, before, after
<1>5. Served(c) = Append(before \o after, c)
  BY <1>1 DEF Served, RemoveAt, p, before, after
<1>6. /\ before \o after \in Seq(Campaigns) /\ Len(before \o after) = n - 1
      /\ \A i \in 1..(n - 1) :
            (before \o after)[i] = IF i < p THEN rotation[i] ELSE rotation[i + 1]
  <2>1. p \in Nat /\ 1 <= p /\ p <= n
    BY <1>1, <1>2
  <2>2. before \o after \in Seq(Campaigns) /\ Len(before \o after) = n - 1
    <3>1. Len(before \o after) = Len(before) + Len(after) /\ before \o after \in Seq(Campaigns)
      BY <1>3, <1>4
    <3> QED
      BY <3>1, <1>1, <1>3, <1>4, <2>1
  <2>3. ASSUME NEW i \in 1..(n - 1), i < p
        PROVE  (before \o after)[i] = rotation[i]
    <3>1. i \in 1..(p - 1)
      BY <1>1, <2>1, <2>3
    <3> QED
      BY <3>1, <1>3, <1>4
  <2>4. ASSUME NEW i \in 1..(n - 1), ~ (i < p)
        PROVE  (before \o after)[i] = rotation[i + 1]
    <3>1. i - (p - 1) \in 1..(n - p) /\ p + (i - (p - 1)) = i + 1
      BY <1>1, <2>1, <2>4
    <3>2. (before \o after)[i] = after[i - (p - 1)]
      BY <1>1, <1>3, <1>4, <2>1, <2>4, <3>1
    <3> QED
      BY <3>1, <3>2, <1>4
  <2> QED
    BY <2>2, <2>3, <2>4
<1>7. /\ Served(c) \in Seq(Campaigns) /\ Len(Served(c)) = n
      /\ \A i \in 1..n :
            Served(c)[i] = IF i < p THEN rotation[i] ELSE IF i < n THEN rotation[i + 1] ELSE c
  BY <1>1, <1>2, <1>5, <1>6
<1>8. \A i, j \in 1..n : i # j => rotation[i] # rotation[j]
  BY DEF Turns, n
<1>9. \A i, j \in 1..n : i # j => Served(c)[i] # Served(c)[j]
  BY <1>1, <1>2, <1>7, <1>8
<1> QED
  BY <1>1, <1>7, <1>9 DEF Turns, n

\* What a turn of the rotation is, in the type invariant.
LEMMA TurnsAre == rotation \in SetToSeqs(Campaigns) <=> Turns(rotation)
BY DEF SetToSeqs, Turns

\* Every campaign is a draft, and nothing is listed yet.
LEMMA RoundsStart == RoundsInit => RoundsInv
<1> SUFFICES ASSUME RoundsInit PROVE RoundsInv
  OBVIOUS
<1>1. Turns(rotation)
  BY FirstTurns DEF RoundsInit
<1>2. round \in Seq(Campaigns) /\ rollupList \in Seq(Campaigns)
  BY DEF RoundsInit
<1>3. Range(round) \subseteq Campaigns /\ Range(rollupList) \subseteq Campaigns
  BY <1>2, RangeOfList
<1>4. standingOf \in [Campaigns -> RoundStatus] /\ steers \in 0..MaxSteers
  BY CampaignRoundsAssumption DEF RoundsInit, RoundStatus
<1>5. jammed = {} /\ hinted = {}
  BY DEF RoundsInit
<1> QED
  BY <1>1, <1>2, <1>3, <1>4, <1>5, TurnsAre DEF RoundsInv, RoundsTypeOK

\* Every step keeps the lists of campaigns, and a place for each of them.
LEMMA RoundsStep == RoundsInv /\ [RoundsNext]_roundVars => RoundsInv'
<1> SUFFICES ASSUME RoundsInv, [RoundsNext]_roundVars PROVE RoundsInv'
  OBVIOUS
<1> DEFINE Kept(standing, order, list, other, failing, noted, count) ==
              /\ standing \in [Campaigns -> RoundStatus]
              /\ Turns(order)
              /\ list \in Seq(Campaigns) /\ other \in Seq(Campaigns)
              /\ failing \subseteq Campaigns /\ noted \subseteq Campaigns
              /\ count \in 0..MaxSteers
<1>1. Kept(standingOf, rotation, round, rollupList, jammed, hinted, steers)
  BY TurnsAre DEF RoundsInv, RoundsTypeOK
<1>2. SUFFICES Kept(standingOf', rotation', round', rollupList', jammed', hinted', steers')
  <2>1. Range(round') \subseteq Campaigns /\ Range(rollupList') \subseteq Campaigns
    BY <1>2, RangeOfList
  <2>2. rotation' \in SetToSeqs(Campaigns)
    BY <1>2 DEF SetToSeqs, Turns
  <2> QED
    BY <1>2, <2>1, <2>2 DEF RoundsInv, RoundsTypeOK
<1>3. PerTick \in Nat /\ RollupPage \in Nat /\ MaxSteers \in Nat
  BY CampaignRoundsAssumption
<1>4. CASE ListRunning
  <2>1. Page(Running, PerTick) \in Seq(Campaigns)
    BY <1>1, <1>3, PagesList
  <2> QED
    BY <1>1, <1>4, <2>1 DEF ListRunning
<1>5. CASE TickNext
  <2>1. round # <<>> /\ round' = Tail(round) /\ UNCHANGED <<jammed, rollupList, steers>>
    BY <1>5 DEF TickNext
  <2>2. Head(round) \in Campaigns /\ round' \in Seq(Campaigns)
    BY <1>1, <2>1
  <2> DEFINE c == Head(round)
  <2>3. CASE UNCHANGED <<standingOf, rotation, hinted>>
    BY <1>1, <2>1, <2>2, <2>3
  <2>4. CASE standingOf' = [standingOf EXCEPT ![c] = "PAUSED"] /\ UNCHANGED <<rotation, hinted>>
    BY <1>1, <2>1, <2>2, <2>4 DEF RoundStatus
  <2>5. CASE /\ \E to \in {"RUNNING", "COMPLETED"} : standingOf' = [standingOf EXCEPT ![c] = to]
             /\ rotation' = Served(c) /\ hinted' = hinted \union {c}
    <3>1. Turns(rotation')
      BY <1>1, <2>2, <2>5, ServedTurns
    <3>2. standingOf' \in [Campaigns -> RoundStatus] /\ hinted' \subseteq Campaigns
      BY <1>1, <2>2, <2>5 DEF RoundStatus
    <3> QED
      BY <1>1, <2>1, <2>2, <3>1, <3>2
  <2> QED
    BY <1>5, <2>3, <2>4, <2>5 DEF TickNext
<1>6. CASE ListForRollup
  <2>1. Page({c \in Campaigns : standingOf[c] # "DRAFT"}, RollupPage) \in Seq(Campaigns)
    BY <1>1, <1>3, PagesList
  <2> QED
    BY <1>1, <1>6, <2>1 DEF ListForRollup
<1>7. CASE RollupNext
  <2>1. rollupList # <<>> /\ rollupList' = Tail(rollupList) /\ hinted' \subseteq hinted
    BY <1>7 DEF RollupNext
  <2>2. rollupList' \in Seq(Campaigns)
    BY <1>1, <2>1
  <2> QED
    BY <1>1, <1>7, <2>1, <2>2 DEF RollupNext
<1>8. ASSUME NEW c \in Campaigns, Launch(c)
      PROVE  Kept(standingOf', rotation', round', rollupList', jammed', hinted', steers')
  BY <1>1, <1>8 DEF Launch, RoundStatus
<1>9. ASSUME NEW c \in Campaigns, Steer(c)
      PROVE  Kept(standingOf', rotation', round', rollupList', jammed', hinted', steers')
  <2>1. standingOf' \in [Campaigns -> RoundStatus]
    BY <1>1, <1>9 DEF Steer, RoundStatus
  <2>2. steers' \in 0..MaxSteers
    BY <1>1, <1>3, <1>9 DEF Steer
  <2> QED
    BY <1>1, <1>9, <2>1, <2>2 DEF Steer
<1>10. ASSUME NEW c \in Campaigns, Jam(c)
       PROVE  Kept(standingOf', rotation', round', rollupList', jammed', hinted', steers')
  <2>1. steers' \in 0..MaxSteers /\ jammed' \subseteq Campaigns
    BY <1>1, <1>3, <1>10 DEF Jam
  <2> QED
    BY <1>1, <1>10, <2>1 DEF Jam
<1>11. CASE UNCHANGED roundVars
  BY <1>1, <1>11 DEF roundVars
<1> HIDE DEF Kept
<1> QED
  BY <1>4, <1>5, <1>6, <1>7, <1>8, <1>9, <1>10, <1>11 DEF RoundsNext

-----------------------------------------------------------------------------
(***************************************************************************)
(* MCSending.                                                              *)
(***************************************************************************)
\* A behaviour of the four is, for each, one of its own or no step at all.
LEMMA SendingIsBoth == SendingSpec => PacingSpec /\ TierSpec
<1>1. SendingInit => PacingInit /\ TierInit
  BY DEF SendingInit
<1>2. [SendingNext]_sendingVars => [PacingNext]_pacingVars /\ [TierNext]_tierVars
  BY DEF SendingNext, sendingVars, otherVars
<1> QED
  BY <1>1, <1>2, PTL DEF SendingSpec, PacingSpec, TierSpec

\* The clock of the lanes, and the causes and states of the ledger.
Bounds ==
    /\ laneClock \in 0..MaxClock
    /\ state \in {"RUNNING", "TIER_WAITING", "COMPLETED"}
    /\ lapses \in 0..MaxLapses
    /\ blame \subseteq Blames

LEMMA BoundsStart == PacingInit /\ TierInit => Bounds
<1>1. MaxClock \in Nat /\ MaxLapses \in Nat
  BY SendPacingAssumption, TierLedgerAssumption
<1> QED
  BY <1>1 DEF PacingInit, TierInit, Bounds

\* The clock goes on by one, as far as it goes.
LEMMA ClockStep ==
  ASSUME laneClock \in 0..MaxClock, [PacingNext]_pacingVars
  PROVE  laneClock' \in 0..MaxClock
<1>1. MaxClock \in Nat
  BY SendPacingAssumption
<1>2. CASE PacingTime
  BY <1>1, <1>2 DEF PacingTime
<1>3. CASE laneClock' = laneClock
  BY <1>3
<1> QED
  BY <1>2, <1>3 DEF PacingNext, LoadCursor, AdvanceCursor, EnqueueSlots, pacingVars

\* A step of the ledger adds one of the causes, if any.
LEMMA BlameStep ==
  ASSUME blame \subseteq Blames, lapses \in 0..MaxLapses,
         state \in {"RUNNING", "TIER_WAITING", "COMPLETED"}, [TierNext]_tierVars
  PROVE  /\ blame' \subseteq Blames /\ lapses' \in 0..MaxLapses
         /\ state' \in {"RUNNING", "TIER_WAITING", "COMPLETED"}
<1>1. MaxLapses \in Nat
  BY TierLedgerAssumption
<1>2. \A b \in Blames, when \in BOOLEAN : Blamed(b, when) \subseteq Blames
  BY DEF Blamed
<1>3. CASE TierTick
  BY <1>2, <1>3 DEF TierTick, Blames, Blamed
<1>4. CASE TierResume \/ HealthReads \/ UNCHANGED tierVars
  BY <1>4 DEF TierResume, HealthReads, tierVars
<1>5. CASE HealthRolls \/ NextDay
  BY <1>5 DEF HealthRolls, NextDay, Blames, Blamed
<1>6. ASSUME NEW u \in Audience, Accepted(u) \/ LedgerLookup(u) \/ LedgerTrack(u)
      PROVE  UNCHANGED <<state, lapses, blame>>
  BY <1>6 DEF Accepted, LedgerLookup, LedgerTrack
<1>7. ASSUME NEW u \in Audience, LedgerCount(u)
      PROVE  blame' \subseteq Blames /\ UNCHANGED <<state, lapses>>
  BY <1>7 DEF LedgerCount, Blames, Blamed
<1>8. ASSUME NEW u \in Audience, LedgerLapses(u)
      PROVE  blame' \subseteq Blames /\ lapses' \in 0..MaxLapses /\ UNCHANGED state
  BY <1>1, <1>8 DEF LedgerLapses, Blames
<1> QED
  BY <1>3, <1>4, <1>5, <1>6, <1>7, <1>8 DEF TierNext

(***************************************************************************)
(* Type correctness of the lanes, the rounds and the ledger                *)
(* (computeSlots; listCampaignsByStatus, runTick, tickCampaign, the stats  *)
(* rollup; recordBusinessInitiated, checkAccount): whatever is steered,    *)
(* served or fails, every campaign keeps exactly one place in the order by *)
(* lastRunTickAt, and a list of the runner or the rollup holds campaigns   *)
(* only.                                                                   *)
(***************************************************************************)
THEOREM SendingIsTyped == SendingSpec => []SendingTypeOK
<1>1. SendingInit => PacingInv /\ RoundsInv /\ TierInv /\ Bounds
  BY PacingStarts, RoundsStart, TierStarts, BoundsStart DEF SendingInit
<1>2. [SendingNext]_sendingVars =>
         [PacingNext]_pacingVars /\ [RoundsNext]_roundVars /\ [TierNext]_tierVars
  BY DEF SendingNext, sendingVars, otherVars
<1>3. Bounds /\ [PacingNext]_pacingVars /\ [TierNext]_tierVars => Bounds'
  BY ClockStep, BlameStep DEF Bounds
<1>4. PacingInv /\ RoundsInv /\ TierInv /\ Bounds => SendingTypeOK
  <2>1. PacingInv /\ Bounds => PacingTypeOK
    BY DEF PacingInv, PacingTyped, Bounds, PacingTypeOK
  <2>2. RoundsInv => RoundsTypeOK
    BY DEF RoundsInv
  <2>3. TierInv /\ Bounds => TierTypeOK
    <3>1. Days \in Nat \ {0}
      BY TierLedgerAssumption
    <3>2. Windows \ {Unanchored} = 1..Days
      BY <3>1 DEF Windows, Unanchored
    <3> QED
      BY <3>2 DEF TierInv, TierTyped, Bounds, TierTypeOK
  <2> QED
    BY <2>1, <2>2, <2>3 DEF SendingTypeOK
<1> QED
  BY <1>1, <1>2, <1>3, <1>4, PacingStep, RoundsStep, TierStep, PTL DEF SendingSpec

(***************************************************************************)
(* The allowances are kept (scheduleSend, laneRate, computeSlots;          *)
(* recordBusinessInitiated, tickCampaign): for any number of callers,      *)
(* rates, batches, users and days, no two messages of a lane are closer    *)
(* than its rate allows unless two callers had read one cursor, and a      *)
(* campaign never reaches more users a day than Meta's allowance leaves    *)
(* it, but for the causes the ledger names.                                *)
(***************************************************************************)
THEOREM AllowancesCorrect == SendingSpec => []AllowancesAreKept
<1>1. PacingInit => PacingInv
  BY PacingStarts
<1>2. PacingInv /\ [PacingNext]_pacingVars => PacingInv'
  BY PacingStep
<1>3. PacingInv => PaceIsKept
  BY PaceFollows
<1>4. TierInit => TierInv
  BY TierStarts
<1>5. TierInv /\ [TierNext]_tierVars => TierInv'
  BY TierStep
<1>6. TierInv => ReserveIsKept
  BY TierFollows
<1>7. SendingSpec => []PaceIsKept
  BY <1>1, <1>2, <1>3, SendingIsBoth, PTL DEF PacingSpec
<1>8. SendingSpec => []ReserveIsKept
  BY <1>4, <1>5, <1>6, SendingIsBoth, PTL DEF TierSpec
<1>9. PaceIsKept /\ ReserveIsKept => AllowancesAreKept
  BY DEF AllowancesAreKept
<1> QED
  BY <1>7, <1>8, <1>9, PTL

=============================================================================

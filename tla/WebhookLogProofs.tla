--------------------------- MODULE WebhookLogProofs ---------------------------
(***************************************************************************)
(* Proofs about WebhookLog, for any number of changes, messages, workers   *)
(* and faults.                                                             *)
(***************************************************************************)
EXTENDS WebhookLog, FiniteSetTheorems, TLAPS

(***************************************************************************)
(* The inductive strengthenings.                                           *)
(***************************************************************************)
\* A worker that is not idle has a job.
JobsHeld == \A w \in Workers : worker[w].step # "idle" => worker[w].job \in Job

\* Past the create, or told that it is a duplicate: the message is there.
StoredByNow ==
    \A w \in Workers :
        worker[w].step \in {"patch", "mark", "skip"} => stored[worker[w].job.message]

\* Whatever works on an event works on a recorded one.
Recorded ==
    /\ \A e \in Events : ingest[e] # {} => row[e] # "NONE"
    /\ \A j \in jobs : row[j.event] # "NONE"
    /\ \A w \in Workers : worker[w].step # "idle" => row[worker[w].job.event] # "NONE"
    /\ replay # NoReplay => row[replay.event] # "NONE"

Stored == {m \in Messages : stored[m]}

\* The messages between their row and the thread.
Patching == {m \in Messages : \E w \in Workers :
                worker[w].step = "patch" /\ worker[w].job.message = m}

\* The create is what entitles a job to count its message.
PatchedOnce ==
    /\ \A m \in Messages : patched[m] <= 1 /\ (patched[m] > 0 => stored[m])
    /\ \A m \in Patching : patched[m] = 0
    /\ \A v, w \in Workers :
          /\ worker[v].step = "patch" /\ worker[w].step = "patch"
          /\ worker[v].job.message = worker[w].job.message
          => v = w
    /\ \A m \in seen : patched[m] > 0

\* A job's copy of the counter is from before its own message.
UnreadBounded ==
    /\ thread.unread <= Cardinality(Stored)
    /\ \A w \in Workers :
          /\ worker[w].step = "create" => worker[w].unread <= Cardinality(Stored)
          /\ worker[w].step = "patch" => worker[w].unread + 1 <= Cardinality(Stored)

Unslipped == slip \intersect {"unpatched", "overlap"} = {}

\* As long as nothing slipped, copies of the counter are the counter, and what is
\* stored is on the thread or about to be.
CopiesAgree ==
    /\ \A w \in Workers : worker[w].step \in {"create", "patch"} =>
          worker[w].unread = thread.unread
    /\ thread.unread = Cardinality(Stored \ (seen \union Patching))
    /\ \A m \in Messages : stored[m] => patched[m] = 1 \/ m \in Patching

WindowHolds ==
    /\ \A m \in Messages \ Patching : stored[m] => thread.lastInboundAt >= SentAt[m]
    /\ \A m \in Patching, n \in Messages \ Patching : stored[n] => SentAt[n] <= SentAt[m]

ThreadInv == Unslipped => CopiesAgree /\ ("late" \notin slip => WindowHolds)


-----------------------------------------------------------------------------
(***************************************************************************)
(* Type correctness.                                                       *)
(***************************************************************************)
\* The step a job goes to, and what it keeps.
LEMMA GotoTyped ==
    ASSUME TypeOK, NEW w \in Workers, NEW s \in Steps, Goto(w, s)
    PROVE  /\ worker' \in [Workers -> WorkerState]
           /\ worker'[w].step = s /\ worker'[w].job = worker[w].job
           /\ worker'[w].unread = worker[w].unread
           /\ \A v \in Workers \ {w} : worker'[v] = worker[v]
<1>1. worker[w] \in WorkerState
  BY DEF TypeOK
<1>2. worker'[w] = [worker[w] EXCEPT !.step = s]
  BY DEF Goto, TypeOK
<1>3. worker'[w] \in WorkerState
  BY <1>1, <1>2 DEF WorkerState
<1> QED
  BY <1>1, <1>2, <1>3 DEF Goto, TypeOK, WorkerState

\* An idle worker is a worker.
LEMMA IdleTyped == Idle \in WorkerState /\ Idle.step = "idle"
  BY DEF Idle, WorkerState, Steps

\* A job that ends leaves an idle worker.
LEMMA EndTyped ==
    ASSUME TypeOK, NEW w \in Workers, worker' = [worker EXCEPT ![w] = Idle]
    PROVE  /\ worker' \in [Workers -> WorkerState]
           /\ worker'[w] = Idle /\ worker'[w].step = "idle"
           /\ \A v \in Workers \ {w} : worker'[v] = worker[v]
  BY IdleTyped DEF TypeOK

\* A job that throws is queued again with a try less, or gone.
LEMMA RethrowTyped ==
    ASSUME TypeOK, JobsHeld, NEW w \in Workers, worker[w].step # "idle", Rethrow(w)
    PROVE  /\ jobs' \subseteq Job /\ jobs \subseteq jobs'
           /\ worker' \in [Workers -> WorkerState]
           /\ worker'[w] = Idle /\ worker'[w].step = "idle"
           /\ \A v \in Workers \ {w} : worker'[v] = worker[v]
           /\ worker[w].job.left # 0 =>
                 \E j \in jobs' : /\ j.event = worker[w].job.event
                                  /\ j.message = worker[w].job.message
<1> DEFINE j == worker[w].job
<1>1. j \in Job
  BY DEF JobsHeld
<1>2. CASE j.left > 0
  <2> DEFINE k == [j EXCEPT !.left = @ - 1]
  <2>1. j.left - 1 \in 0..RetryLimit
    BY <1>1, <1>2, WebhookLogAssumption DEF Job
  <2>2. k \in Job /\ k.event = j.event /\ k.message = j.message
    BY <1>1, <2>1 DEF Job
  <2>3. jobs' = jobs \union {k}
    BY <1>2 DEF Rethrow
  <2> HIDE DEF k
  <2> QED
    BY <2>2, <2>3, EndTyped DEF Rethrow, TypeOK
<1>3. CASE ~(j.left > 0)
  <2>1. j.left = 0
    BY <1>1, <1>3, WebhookLogAssumption DEF Job
  <2> QED
    BY <1>3, <2>1, EndTyped DEF Rethrow, TypeOK
<1> QED
  BY <1>2, <1>3

\* A message queued is a job.
LEMMA QueuedTyped ==
    ASSUME TypeOK, NEW e \in Events, NEW m \in Messages, NEW o \in 0..MaxReplays
    PROVE  /\ Queued(e, m, o) \subseteq Job /\ jobs \subseteq Queued(e, m, o)
           /\ \E j \in Queued(e, m, o) : j.event = e /\ j.message = m
<1> DEFINE j == [event |-> e, message |-> m, left |-> RetryLimit, origin |-> o]
<1>1. j \in Job /\ j.event = e /\ j.message = m
  BY WebhookLogAssumption DEF Job
<1>2. Queued(e, m, o) = jobs \union {j}
  BY DEF Queued
<1> HIDE DEF j
<1> QED
  BY <1>1, <1>2 DEF TypeOK

\* What is noted of an event stays, and there is something.
LEMMA NoteTyped ==
    ASSUME TypeOK, NEW e \in Events, NEW c \in Causes, Note(e, c)
    PROVE  /\ cause' \in [Events -> SUBSET Causes]
           /\ cause'[e] # {} /\ \A d \in Events : cause[d] \subseteq cause'[d]
  BY DEF Note, TypeOK

\* A fault is counted.
LEMMA FaultTyped ==
    ASSUME TypeOK, Fault
    PROVE  faults' \in 0..MaxFaults
  BY WebhookLogAssumption DEF Fault, TypeOK

\* A replay that is under way has an event and messages of it to queue.
LEMMA ReplayTyped ==
    ASSUME TypeOK
    PROVE  /\ replay # NoReplay => replay.event \in Events /\ replay.landed \in BOOLEAN
           /\ replay.todo \subseteq Messages
           /\ replay.todo # {} => replay # NoReplay
<1>1. CASE replay = NoReplay
  BY <1>1 DEF NoReplay
<1>2. CASE replay \in [event : Events, todo : SUBSET Messages, landed : BOOLEAN]
  BY <1>2 DEF NoReplay
<1> QED
  BY <1>1, <1>2 DEF TypeOK

\* The actions of a step, for the case distinctions below.
LEMMA StepCases ==
    ASSUME [Next]_vars
    PROVE  \/ \E e \in Events : RecordEvent(e) \/ IngestDies(e) \/ StartReplay(e)
           \/ \E e \in Events, m \in Messages : IngestEnqueue(e, m)
           \/ \E w \in Workers :
                 \/ StartJob(w) \/ CheckDuplicate(w) \/ UpsertThread(w)
                 \/ CreateMessage(w) \/ PatchThread(w) \/ MarkEvent(w)
                 \/ FailEvent(w) \/ KillJob(w)
           \/ \E m \in Messages : ReplayEnqueue(m)
           \/ ReplayMark \/ ReplayDies \/ MarkRead
           \/ UNCHANGED vars
  BY DEF Next, IngestStep, JobStep, ReplayStep

\* The shape of the state: what the workers hold included.
LEMMA TypeStep ==
    ASSUME TypeOK, JobsHeld, [Next]_vars
    PROVE  TypeOK' /\ JobsHeld'
<1> USE WebhookLogAssumption
<1>v. /\ "RECEIVED" \in RowStatus /\ "PROCESSED" \in RowStatus /\ "FAILED" \in RowStatus
      /\ "SKIPPED_DUPLICATE" \in RowStatus
  BY DEF RowStatus
<1>c. /\ "refused" \in Causes /\ "died" \in Causes /\ "answer" \in Causes
      /\ "account" \in Causes /\ "killed" \in Causes /\ "sibling" \in Causes
      /\ "replay" \in Causes
  BY DEF Causes
<1>s. /\ "check" \in Steps /\ "thread" \in Steps /\ "create" \in Steps /\ "patch" \in Steps
      /\ "mark" \in Steps /\ "skip" \in Steps /\ "fail" \in Steps
  BY DEF Steps
<1>n. ASSUME NEW e \in Events, NEW c \in Causes, Note(e, c)
      PROVE  cause' \in [Events -> SUBSET Causes]
  BY <1>n, NoteTyped
<1>o. ASSUME NEW e \in Events, NEW c \in Causes, Overwrites(e, c)
      PROVE  cause' \in [Events -> SUBSET Causes]
  BY <1>n, <1>o DEF Overwrites, TypeOK
<1>r. ASSUME NEW e \in Events, NEW s \in RowStatus, row' = [row EXCEPT ![e] = s]
      PROVE  row' \in [Events -> RowStatus]
  BY <1>r DEF TypeOK
<1>j. ASSUME NEW w \in Workers, worker[w].step # "idle"
      PROVE  /\ worker[w].job \in Job /\ worker[w].job.event \in Events
             /\ worker[w].job.message \in Messages
  BY <1>j DEF JobsHeld, Job
\* A worker goes on with its job, or ends.
<1>g. ASSUME NEW w \in Workers, NEW s \in Steps, worker[w].step # "idle", Goto(w, s)
      PROVE  worker' \in [Workers -> WorkerState] /\ JobsHeld'
  BY <1>g, GotoTyped DEF JobsHeld
<1>e. ASSUME NEW w \in Workers, worker' = [worker EXCEPT ![w] = Idle]
      PROVE  worker' \in [Workers -> WorkerState] /\ JobsHeld'
  BY <1>e, EndTyped DEF JobsHeld
<1>t. ASSUME NEW w \in Workers, worker[w].step # "idle", Rethrow(w)
      PROVE  worker' \in [Workers -> WorkerState] /\ JobsHeld' /\ jobs' \subseteq Job
  BY <1>t, RethrowTyped DEF JobsHeld
<1>1. ASSUME NEW e \in Events, RecordEvent(e) PROVE TypeOK' /\ JobsHeld'
  <2>1. row' \in [Events -> RowStatus]
    BY <1>1, <1>r, <1>v DEF RecordEvent
  <2>2. ingest' \in [Events -> SUBSET Messages] /\ faults' \in 0..MaxFaults
        /\ cause' \in [Events -> SUBSET Causes]
    BY <1>1, <1>c, <1>n, FaultTyped DEF RecordEvent, TypeOK
  <2> QED
    BY <1>1, <2>1, <2>2 DEF RecordEvent, TypeOK, JobsHeld, content
<1>2. ASSUME NEW e \in Events, NEW m \in Messages, IngestEnqueue(e, m)
      PROVE  TypeOK' /\ JobsHeld'
  <2>0. 0 \in 0..MaxReplays
    OBVIOUS
  <2>1. jobs' \subseteq Job
    BY <1>2, <2>0, QueuedTyped DEF IngestEnqueue, TypeOK
  <2>2. ingest' \in [Events -> SUBSET Messages] /\ faults' \in 0..MaxFaults
        /\ cause' \in [Events -> SUBSET Causes]
    BY <1>2, <1>c, <1>n, FaultTyped DEF IngestEnqueue, TypeOK
  <2> QED
    BY <1>2, <2>1, <2>2 DEF IngestEnqueue, TypeOK, JobsHeld, content
<1>3. ASSUME NEW e \in Events, IngestDies(e) PROVE TypeOK' /\ JobsHeld'
  <2>1. ingest' \in [Events -> SUBSET Messages] /\ faults' \in 0..MaxFaults
        /\ cause' \in [Events -> SUBSET Causes]
    BY <1>3, <1>c, <1>n, FaultTyped DEF IngestDies, TypeOK
  <2> QED
    BY <1>3, <2>1 DEF IngestDies, TypeOK, JobsHeld, content
<1>4. ASSUME NEW w \in Workers, StartJob(w) PROVE TypeOK' /\ JobsHeld'
  <2>1. PICK j \in jobs :
           /\ jobs' = jobs \ {j}
           /\ worker' = [worker EXCEPT ![w] = [step |-> "check", job |-> j, unread |-> 0]]
    BY <1>4 DEF StartJob
  <2>2. j \in Job
    BY DEF TypeOK
  <2>3. [step |-> "check", job |-> j, unread |-> 0] \in WorkerState
    BY <1>s, <2>2 DEF WorkerState
  <2>4. worker' \in [Workers -> WorkerState] /\ JobsHeld'
    BY <2>1, <2>2, <2>3 DEF TypeOK, JobsHeld
  <2> QED
    BY <1>4, <2>1, <2>4 DEF StartJob, TypeOK, content, bounds, history
<1>5. ASSUME NEW w \in Workers, CheckDuplicate(w) PROVE TypeOK' /\ JobsHeld'
  <2>1. worker[w].step # "idle" /\ worker[w].job.event \in Events
    BY <1>5, <1>j DEF CheckDuplicate
  <2>2. worker' \in [Workers -> WorkerState] /\ JobsHeld'
    BY <1>5, <1>e, <1>g, <1>s, <2>1 DEF CheckDuplicate
  <2>3. faults' \in 0..MaxFaults /\ cause' \in [Events -> SUBSET Causes]
    BY <1>5, <1>c, <1>n, <2>1, FaultTyped DEF CheckDuplicate, TypeOK
  <2> QED
    BY <1>5, <2>2, <2>3 DEF CheckDuplicate, TypeOK, content
<1>6. ASSUME NEW w \in Workers, UpsertThread(w) PROVE TypeOK' /\ JobsHeld'
  <2>1. worker[w].step # "idle"
    BY <1>6 DEF UpsertThread
  <2>2. thread' \in ThreadRow /\ faults' \in 0..MaxFaults
    <3>1. thread' = [thread EXCEPT !.exists = TRUE] => thread' \in ThreadRow
      BY DEF TypeOK, ThreadRow
    <3> QED
      BY <1>6, <3>1, FaultTyped DEF UpsertThread, TypeOK
  <2>3. worker' \in [Workers -> WorkerState] /\ JobsHeld'
    <3>1. CASE Goto(w, "fail")
      BY <1>g, <1>s, <2>1, <3>1
    <3>2. CASE worker' = [worker EXCEPT ![w].step = "create", ![w].unread = thread.unread]
      <4>1. worker[w] \in WorkerState /\ thread.unread \in Nat
        BY DEF TypeOK, ThreadRow
      <4>2. [worker[w] EXCEPT !.step = "create", !.unread = thread.unread] \in WorkerState
        BY <1>s, <4>1 DEF WorkerState
      <4>3. worker'[w] = [worker[w] EXCEPT !.step = "create", !.unread = thread.unread]
        BY <3>2 DEF TypeOK
      <4>4. worker'[w].job = worker[w].job
        BY <4>1, <4>3 DEF WorkerState
      <4> QED
        BY <2>1, <3>2, <4>2, <4>3, <4>4 DEF TypeOK, JobsHeld
    <3> QED
      BY <1>6, <3>1, <3>2 DEF UpsertThread
  <2> QED
    BY <1>6, <2>2, <2>3 DEF UpsertThread, TypeOK, history
<1>7. ASSUME NEW w \in Workers, CreateMessage(w) PROVE TypeOK' /\ JobsHeld'
  <2>1. worker[w].step # "idle" /\ worker[w].job.message \in Messages
    BY <1>7, <1>j DEF CreateMessage
  <2>2. worker' \in [Workers -> WorkerState] /\ JobsHeld'
    BY <1>7, <1>g, <1>s, <2>1 DEF CreateMessage
  <2>3. stored' \in [Messages -> BOOLEAN] /\ slip' \subseteq Slips
        /\ faults' \in 0..MaxFaults
    BY <1>7, <2>1, FaultTyped DEF CreateMessage, TypeOK, Slips
  <2> QED
    BY <1>7, <2>2, <2>3 DEF CreateMessage, TypeOK
<1>8. ASSUME NEW w \in Workers, PatchThread(w) PROVE TypeOK' /\ JobsHeld'
  <2>1. worker[w].step # "idle" /\ worker[w].job.message \in Messages
    BY <1>8, <1>j DEF PatchThread
  <2>2. worker' \in [Workers -> WorkerState] /\ JobsHeld'
    BY <1>8, <1>g, <1>s, <2>1 DEF PatchThread
  <2>3. patched' \in [Messages -> Nat] /\ slip' \subseteq Slips /\ faults' \in 0..MaxFaults
    BY <1>8, <2>1, FaultTyped DEF PatchThread, TypeOK, Slips
  <2>4. thread' \in ThreadRow
    <3>1. /\ worker[w].unread + 1 \in Nat /\ SentAt[worker[w].job.message] \in Nat
          /\ thread \in ThreadRow
      BY <2>1 DEF TypeOK, WorkerState
    <3> QED
      BY <1>8, <3>1 DEF PatchThread, ThreadRow
  <2> QED
    BY <1>8, <2>2, <2>3, <2>4 DEF PatchThread, TypeOK
<1>9. ASSUME NEW w \in Workers, MarkEvent(w) PROVE TypeOK' /\ JobsHeld'
  <2>1. worker[w].step # "idle" /\ worker[w].job.event \in Events
    BY <1>9, <1>j DEF MarkEvent
  <2>2. worker' \in [Workers -> WorkerState] /\ JobsHeld'
    BY <1>9, <1>e, <1>g, <1>s, <2>1 DEF MarkEvent
  <2>3. row' \in [Events -> RowStatus]
    BY <1>9, <1>v, <2>1 DEF MarkEvent, TypeOK
  <2>4. faults' \in 0..MaxFaults /\ cause' \in [Events -> SUBSET Causes]
    BY <1>9, <1>c, <1>o, <2>1, FaultTyped DEF MarkEvent, TypeOK
  <2> QED
    BY <1>9, <2>2, <2>3, <2>4 DEF MarkEvent, TypeOK, content
<1>10. ASSUME NEW w \in Workers, FailEvent(w) PROVE TypeOK' /\ JobsHeld'
  <2>1. worker[w].step # "idle" /\ worker[w].job.event \in Events
    BY <1>10, <1>j DEF FailEvent
  <2> QED
    BY <1>10, <1>r, <1>t, <1>v, <2>1 DEF FailEvent, TypeOK, content, bounds
<1>11. ASSUME NEW w \in Workers, KillJob(w) PROVE TypeOK' /\ JobsHeld'
  <2>1. worker[w].step # "idle" /\ worker[w].job.event \in Events
    BY <1>11, <1>j DEF KillJob
  <2>2. worker' \in [Workers -> WorkerState] /\ JobsHeld' /\ jobs' \subseteq Job
    BY <1>11, <1>t, <2>1 DEF KillJob
  <2>3. faults' \in 0..MaxFaults /\ cause' \in [Events -> SUBSET Causes]
        /\ slip' \subseteq Slips
    BY <1>11, <1>c, <1>n, <2>1, FaultTyped DEF KillJob, TypeOK, Slips
  <2> QED
    BY <1>11, <2>2, <2>3 DEF KillJob, TypeOK, content
<1>12. ASSUME NEW e \in Events, StartReplay(e) PROVE TypeOK' /\ JobsHeld'
  <2>1. /\ replay' = [event |-> e, todo |-> Carried[e], landed |-> FALSE]
        /\ Carried[e] \in SUBSET Messages /\ FALSE \in BOOLEAN
    BY <1>12 DEF StartReplay
  <2>2. replay' \in [event : Events, todo : SUBSET Messages, landed : BOOLEAN]
    BY <2>1
  <2>3. replays' \in 0..MaxReplays
    BY <1>12 DEF StartReplay, TypeOK
  <2> QED
    BY <1>12, <2>2, <2>3 DEF StartReplay, TypeOK, JobsHeld, content, history
<1>13. ASSUME NEW m \in Messages, ReplayEnqueue(m) PROVE TypeOK' /\ JobsHeld'
  <2>1. replay # NoReplay /\ replay.event \in Events
    BY <1>13, ReplayTyped DEF ReplayEnqueue
  <2>2. replay \in [event : Events, todo : SUBSET Messages, landed : BOOLEAN]
    BY <2>1 DEF TypeOK
  <2>3. replay' \in [event : Events, todo : SUBSET Messages, landed : BOOLEAN]
    <3> DEFINE yes == TRUE
               rest == replay.todo \ {m}
    <3>1. yes \in BOOLEAN /\ rest \in SUBSET Messages
      BY <2>2
    <3>2. \/ replay' = [replay EXCEPT !.todo = rest, !.landed = yes]
          \/ replay' = [replay EXCEPT !.todo = rest]
      BY <1>13 DEF ReplayEnqueue
    <3> HIDE DEF yes, rest
    <3> QED
      BY <2>2, <3>1, <3>2
  <2>4. jobs' \subseteq Job
    BY <1>13, <2>1, QueuedTyped DEF ReplayEnqueue, TypeOK
  <2>5. faults' \in 0..MaxFaults /\ cause' \in [Events -> SUBSET Causes]
    BY <1>13, <1>c, <1>n, <2>1, FaultTyped DEF ReplayEnqueue, TypeOK
  <2> QED
    BY <1>13, <2>3, <2>4, <2>5 DEF ReplayEnqueue, TypeOK, JobsHeld, content
<1>14. ASSUME ReplayMark \/ ReplayDies PROVE TypeOK' /\ JobsHeld'
  <2>1. replay # NoReplay /\ replay.event \in Events /\ replay' = NoReplay
    BY <1>14, ReplayTyped DEF ReplayMark, ReplayDies
  <2>2. CASE ReplayMark
    <3>1. row' \in [Events -> RowStatus] /\ cause' \in [Events -> SUBSET Causes]
      BY <1>c, <1>o, <1>r, <1>v, <2>1, <2>2 DEF ReplayMark, TypeOK
    <3> QED
      BY <2>1, <2>2, <3>1 DEF ReplayMark, TypeOK, JobsHeld, content, bounds
  <2>3. CASE ReplayDies
    <3>1. faults' \in 0..MaxFaults /\ cause' \in [Events -> SUBSET Causes]
      BY <1>c, <1>n, <2>1, <2>3, FaultTyped DEF ReplayDies, TypeOK
    <3> QED
      BY <2>1, <2>3, <3>1 DEF ReplayDies, TypeOK, JobsHeld, content
  <2> QED
    BY <1>14, <2>2, <2>3
<1>15. ASSUME MarkRead PROVE TypeOK' /\ JobsHeld'
  <2>1. thread' \in ThreadRow
    BY <1>15 DEF MarkRead, TypeOK, ThreadRow
  <2>2. reads' \in 0..MaxReads /\ slip' \subseteq Slips /\ seen' \subseteq Messages
    BY <1>15 DEF MarkRead, TypeOK, Slips, Counted
  <2> QED
    BY <1>15, <2>1, <2>2 DEF MarkRead, TypeOK, JobsHeld, log
<1>16. CASE UNCHANGED vars
  BY <1>16 DEF vars, log, content, bounds, history, TypeOK, JobsHeld
<1> HIDE DEF TypeOK, JobsHeld
<1> QED
  BY <1>1, <1>2, <1>3, <1>4, <1>5, <1>6, <1>7, <1>8, <1>9, <1>10, <1>11, <1>12,
     <1>13, <1>14, <1>15, <1>16, StepCases

\* The shape of the state of a run.
LEMMA TypeInvariant == Spec => [](TypeOK /\ JobsHeld)
<1>1. Init => TypeOK /\ JobsHeld
  <2> SUFFICES ASSUME Init PROVE TypeOK /\ JobsHeld
    OBVIOUS
  <2>1. worker \in [Workers -> WorkerState] /\ \A w \in Workers : worker[w].step = "idle"
    BY IdleTyped DEF Init
  <2>2. thread \in ThreadRow
    <3> DEFINE no == FALSE
    <3>1. thread = [exists |-> no, unread |-> 0, lastInboundAt |-> 0] /\ no \in BOOLEAN
      BY DEF Init
    <3> HIDE DEF no
    <3> QED
      BY <3>1 DEF ThreadRow
  <2>3. stored \in [Messages -> BOOLEAN]
    BY DEF Init
  <2> QED
    BY <2>1, <2>2, <2>3, WebhookLogAssumption DEF Init, TypeOK, JobsHeld, RowStatus
<1>2. TypeOK /\ JobsHeld /\ [Next]_vars => TypeOK' /\ JobsHeld'
  BY TypeStep
<1> QED
  BY <1>1, <1>2, PTL DEF Spec

\* Every state of a run has the declared shape (wa-webhook-ingest,
\* wa-inbound-processor, wa-webhook-replay-route).
THEOREM TypeCorrect == Spec => []TypeOK
  BY TypeInvariant, PTL

-----------------------------------------------------------------------------
(***************************************************************************)
(* What became of the messages of an event.                                *)
(***************************************************************************)
\* A stored message stays, and a job past its create has stored its own.
LEMMA StoredStep ==
    ASSUME TypeOK, JobsHeld, StoredByNow, [Next]_vars
    PROVE  StoredByNow' /\ \A m \in Messages : stored[m] => stored'[m]
<1>j. ASSUME NEW w \in Workers, worker[w].step # "idle"
      PROVE  worker[w].job.message \in Messages
  BY <1>j DEF JobsHeld, Job
<1>s. /\ "check" \in Steps /\ "thread" \in Steps /\ "create" \in Steps /\ "patch" \in Steps
      /\ "mark" \in Steps /\ "skip" \in Steps /\ "fail" \in Steps
  BY DEF Steps
<1>1. \A m \in Messages : stored[m] => stored'[m]
  <2>1. ASSUME NEW w \in Workers, CreateMessage(w)
        PROVE  \A m \in Messages : stored[m] => stored'[m]
    BY <2>1 DEF CreateMessage, TypeOK
  <2>2. CASE stored' = stored
    BY <2>2
  <2>3. ASSUME \/ \E e \in Events : RecordEvent(e) \/ IngestDies(e) \/ StartReplay(e)
               \/ \E e \in Events, m \in Messages : IngestEnqueue(e, m)
               \/ \E m \in Messages : ReplayEnqueue(m)
               \/ ReplayMark \/ ReplayDies \/ MarkRead \/ UNCHANGED vars
        PROVE  stored' = stored
    <3>1. ASSUME NEW e \in Events, RecordEvent(e) \/ IngestDies(e) \/ StartReplay(e)
          PROVE  stored' = stored
      BY <3>1 DEF RecordEvent, IngestDies, StartReplay, content
    <3>2. ASSUME NEW e \in Events, NEW m \in Messages, IngestEnqueue(e, m)
          PROVE  stored' = stored
      BY <3>2 DEF IngestEnqueue, content
    <3>3. ASSUME NEW m \in Messages, ReplayEnqueue(m) PROVE stored' = stored
      BY <3>3 DEF ReplayEnqueue, content
    <3>4. ASSUME ReplayMark \/ ReplayDies \/ MarkRead \/ UNCHANGED vars
          PROVE  stored' = stored
      BY <3>4 DEF ReplayMark, ReplayDies, MarkRead, vars, content
    <3> QED
      BY <2>3, <3>1, <3>2, <3>3, <3>4
  <2>4. ASSUME NEW w \in Workers,
               \/ StartJob(w) \/ CheckDuplicate(w) \/ UpsertThread(w) \/ PatchThread(w)
               \/ MarkEvent(w) \/ FailEvent(w) \/ KillJob(w)
        PROVE  stored' = stored
    BY <2>4 DEF StartJob, CheckDuplicate, UpsertThread, PatchThread, MarkEvent, FailEvent,
       KillJob, content
  <2> QED
    BY <2>1, <2>2, <2>3, <2>4, StepCases
<1>g. ASSUME NEW w \in Workers, NEW s \in Steps, worker[w].step # "idle", Goto(w, s),
             s \in {"patch", "mark", "skip"} => stored'[worker[w].job.message]
      PROVE  StoredByNow'
  <2> SUFFICES ASSUME NEW v \in Workers, worker'[v].step \in {"patch", "mark", "skip"}
               PROVE  stored'[worker'[v].job.message]
    BY DEF StoredByNow
  <2>1. CASE v = w
    BY <1>g, <2>1, GotoTyped
  <2>2. CASE v # w
    <3>1. worker'[v] = worker[v]
      BY <1>g, <2>2, GotoTyped
    <3> QED
      BY <1>1, <1>j, <3>1 DEF StoredByNow
  <2> QED
    BY <2>1, <2>2
<1>e. ASSUME \A v \in Workers :
                worker'[v] = worker[v] \/ worker'[v].step \notin {"patch", "mark", "skip"}
      PROVE  StoredByNow'
  BY <1>1, <1>e, <1>j DEF StoredByNow
<1>f. ASSUME NEW w \in Workers, worker' = [worker EXCEPT ![w] = Idle] PROVE StoredByNow'
  BY <1>e, <1>f, EndTyped
<1>2. ASSUME NEW w \in Workers, StartJob(w) PROVE StoredByNow'
  BY <1>2, <1>e DEF StartJob, TypeOK
<1>3. ASSUME NEW w \in Workers, CheckDuplicate(w) PROVE StoredByNow'
  <2>1. worker[w].step # "idle" /\ stored' = stored
    BY <1>3 DEF CheckDuplicate, content
  <2> QED
    BY <1>3, <1>f, <1>g, <1>s, <2>1 DEF CheckDuplicate
<1>4. ASSUME NEW w \in Workers, UpsertThread(w) PROVE StoredByNow'
  <2>1. worker[w].step # "idle"
    BY <1>4 DEF UpsertThread
  <2>2. CASE Goto(w, "fail")
    BY <1>g, <1>s, <2>1, <2>2
  <2>3. CASE ~Goto(w, "fail")
    <3>1. worker' = [worker EXCEPT ![w].step = "create", ![w].unread = thread.unread]
      BY <1>4, <2>3 DEF UpsertThread
    <3>2. worker'[w].step = "create" /\ \A v \in Workers \ {w} : worker'[v] = worker[v]
      BY <3>1 DEF TypeOK, WorkerState
    <3> QED
      BY <1>e, <3>2
  <2> QED
    BY <2>2, <2>3
<1>5. ASSUME NEW w \in Workers, CreateMessage(w) PROVE StoredByNow'
  <2>1. worker[w].step # "idle" /\ worker[w].job.message \in Messages
    BY <1>5, <1>j DEF CreateMessage
  <2>2. Goto(w, "patch") => stored'[worker[w].job.message]
    <3>1. ~(Goto(w, "patch") /\ Goto(w, "fail"))
      BY <1>s, GotoTyped
    <3> QED
      BY <1>5, <2>1, <3>1 DEF CreateMessage, TypeOK
  <2> QED
    BY <1>5, <1>g, <1>s, <2>1, <2>2 DEF CreateMessage
<1>6. ASSUME NEW w \in Workers, PatchThread(w) PROVE StoredByNow'
  <2>1. worker[w].step = "patch" /\ stored' = stored
    BY <1>6 DEF PatchThread
  <2> QED
    BY <1>6, <1>g, <1>s, <2>1 DEF PatchThread, StoredByNow
<1>7. ASSUME NEW w \in Workers, MarkEvent(w) PROVE StoredByNow'
  <2>1. worker[w].step # "idle"
    BY <1>7 DEF MarkEvent
  <2> QED
    BY <1>7, <1>f, <1>g, <1>s, <2>1 DEF MarkEvent
<1>8. ASSUME NEW w \in Workers, FailEvent(w) \/ KillJob(w) PROVE StoredByNow'
  BY <1>8, <1>f DEF FailEvent, KillJob, Rethrow
<1>9. ASSUME \/ \E e \in Events : RecordEvent(e) \/ IngestDies(e) \/ StartReplay(e)
             \/ \E e \in Events, m \in Messages : IngestEnqueue(e, m)
             \/ \E m \in Messages : ReplayEnqueue(m)
             \/ ReplayMark \/ ReplayDies \/ MarkRead \/ UNCHANGED vars
      PROVE  StoredByNow'
  <2>1. worker' = worker
    <3>1. ASSUME NEW e \in Events, RecordEvent(e) \/ IngestDies(e) \/ StartReplay(e)
          PROVE  worker' = worker
      BY <3>1 DEF RecordEvent, IngestDies, StartReplay
    <3>2. ASSUME NEW e \in Events, NEW m \in Messages, IngestEnqueue(e, m)
          PROVE  worker' = worker
      BY <3>2 DEF IngestEnqueue
    <3>3. ASSUME NEW m \in Messages, ReplayEnqueue(m) PROVE worker' = worker
      BY <3>3 DEF ReplayEnqueue
    <3>4. ASSUME ReplayMark \/ ReplayDies \/ MarkRead \/ UNCHANGED vars
          PROVE  worker' = worker
      BY <3>4 DEF ReplayMark, ReplayDies, MarkRead, vars, log
    <3> QED
      BY <1>9, <3>1, <3>2, <3>3, <3>4
  <2> QED
    BY <1>e, <2>1
<1> QED
  BY <1>1, <1>2, <1>3, <1>4, <1>5, <1>6, <1>7, <1>8, <1>9, StepCases

\* A recorded row stays one, and nothing but a recorded row is worked on.
LEMMA RecordedStep ==
    ASSUME TypeOK, JobsHeld, Recorded, [Next]_vars
    PROVE  Recorded'
<1>j. ASSUME NEW w \in Workers, worker[w].step # "idle"
      PROVE  worker[w].job.event \in Events /\ row[worker[w].job.event] # "NONE"
  BY <1>j DEF JobsHeld, Job, Recorded
<1>k. ASSUME NEW j \in jobs PROVE j.event \in Events /\ row[j.event] # "NONE"
  BY DEF TypeOK, Job, Recorded
<1>r. replay # NoReplay => replay.event \in Events /\ row[replay.event] # "NONE"
  BY ReplayTyped DEF Recorded
\* What is worked on after the step was before it, or its event is recorded.
<1>f. ASSUME \A e \in Events : row[e] # "NONE" => row'[e] # "NONE",
             \A e \in Events : ingest'[e] # {} => ingest[e] # {} \/ row'[e] # "NONE",
             \A j \in jobs' : j \in jobs \/ row'[j.event] # "NONE",
             \A w \in Workers : worker'[w].step # "idle" =>
                 \/ worker[w].step # "idle" /\ worker'[w].job = worker[w].job
                 \/ row'[worker'[w].job.event] # "NONE",
             replay' # NoReplay =>
                 \/ replay # NoReplay /\ replay'.event = replay.event
                 \/ row'[replay'.event] # "NONE"
      PROVE  Recorded'
  BY <1>f, <1>j, <1>k, <1>r DEF Recorded
<1>1. ASSUME NEW e \in Events, RecordEvent(e) PROVE Recorded'
  BY <1>1, <1>f DEF RecordEvent, TypeOK
<1>2. ASSUME NEW e \in Events, NEW m \in Messages, IngestEnqueue(e, m) PROVE Recorded'
  <2>1. row[e] # "NONE"
    BY <1>2 DEF IngestEnqueue, Recorded
  <2>2. \A j \in jobs' : j \in jobs \/ j.event = e
    BY <1>2 DEF IngestEnqueue, Queued
  <2> QED
    BY <1>2, <1>f, <2>1, <2>2 DEF IngestEnqueue, TypeOK
<1>3. ASSUME NEW e \in Events, IngestDies(e) PROVE Recorded'
  BY <1>3, <1>f DEF IngestDies, TypeOK
<1>4. ASSUME NEW w \in Workers, StartJob(w) PROVE Recorded'
  <2>1. PICK j \in jobs :
           /\ jobs' = jobs \ {j}
           /\ worker' = [worker EXCEPT ![w] = [step |-> "check", job |-> j, unread |-> 0]]
    BY <1>4 DEF StartJob
  <2>2. worker'[w].job = j /\ \A v \in Workers \ {w} : worker'[v] = worker[v]
    BY <2>1 DEF TypeOK
  <2> QED
    BY <1>4, <1>f, <1>k, <2>1, <2>2 DEF StartJob
\* A job that goes on keeps its event.
<1>g. ASSUME NEW w \in Workers, worker[w].step # "idle",
             worker'[w].job = worker[w].job \/ worker'[w].step = "idle",
             \A v \in Workers \ {w} : worker'[v] = worker[v],
             \A e \in Events : row'[e] # row[e] => row'[e] # "NONE",
             ingest' = ingest, replay' = replay,
             \A j \in jobs' : j \in jobs \/ j.event = worker[w].job.event
      PROVE  Recorded'
  BY <1>f, <1>g, <1>j
<1>h. ASSUME NEW w \in Workers, worker[w].step # "idle", NEW s \in Steps, Goto(w, s),
             UNCHANGED <<row, ingest, replay, jobs>>
      PROVE  Recorded'
  BY <1>g, <1>h, GotoTyped
<1>i. ASSUME NEW w \in Workers, worker[w].step # "idle", Rethrow(w),
             \A e \in Events : row'[e] # row[e] => row'[e] # "NONE",
             ingest' = ingest, replay' = replay
      PROVE  Recorded'
  <2>1. \A j \in jobs' : j \in jobs \/ j.event = worker[w].job.event
    <3>1. worker[w].job \in Job
      BY <1>i DEF JobsHeld
    <3>2. [worker[w].job EXCEPT !.left = @ - 1].event = worker[w].job.event
      BY <3>1 DEF Job
    <3> QED
      BY <1>i, <3>2 DEF Rethrow
  <2> QED
    BY <1>g, <1>i, <2>1, RethrowTyped
<1>s. /\ "check" \in Steps /\ "thread" \in Steps /\ "create" \in Steps /\ "patch" \in Steps
      /\ "mark" \in Steps /\ "skip" \in Steps /\ "fail" \in Steps
  BY DEF Steps
<1>5. ASSUME NEW w \in Workers, CheckDuplicate(w) PROVE Recorded'
  <2>1. worker[w].step # "idle" /\ UNCHANGED <<row, ingest, replay, jobs>>
    BY <1>5 DEF CheckDuplicate
  <2>2. CASE worker' = [worker EXCEPT ![w] = Idle]
    BY <1>g, <2>1, <2>2, EndTyped
  <2>3. CASE Goto(w, "skip") \/ Goto(w, "thread") \/ Goto(w, "fail")
    BY <1>h, <1>s, <2>1, <2>3
  <2> QED
    BY <1>5, <2>2, <2>3 DEF CheckDuplicate
<1>6. ASSUME NEW w \in Workers, UpsertThread(w) PROVE Recorded'
  <2>1. worker[w].step # "idle" /\ UNCHANGED <<row, ingest, replay, jobs>>
    BY <1>6 DEF UpsertThread
  <2>2. CASE Goto(w, "fail")
    BY <1>h, <1>s, <2>1, <2>2
  <2>3. CASE worker' = [worker EXCEPT ![w].step = "create", ![w].unread = thread.unread]
    <3>1. /\ worker'[w].job = worker[w].job
          /\ \A v \in Workers \ {w} : worker'[v] = worker[v]
      BY <2>3 DEF TypeOK, WorkerState
    <3> QED
      BY <1>g, <2>1, <3>1
  <2> QED
    BY <1>6, <2>2, <2>3 DEF UpsertThread
<1>7. ASSUME NEW w \in Workers, CreateMessage(w) \/ PatchThread(w) PROVE Recorded'
  <2>1. worker[w].step # "idle" /\ UNCHANGED <<row, ingest, replay, jobs>>
    BY <1>7 DEF CreateMessage, PatchThread
  <2>2. Goto(w, "patch") \/ Goto(w, "mark") \/ Goto(w, "fail")
    BY <1>7 DEF CreateMessage, PatchThread
  <2> QED
    BY <1>h, <1>s, <2>1, <2>2
<1>8. ASSUME NEW w \in Workers, MarkEvent(w) PROVE Recorded'
  <2>1. worker[w].step # "idle" /\ UNCHANGED <<ingest, replay, jobs>>
    BY <1>8 DEF MarkEvent
  <2>2. CASE Goto(w, "fail") /\ row' = row
    BY <1>h, <1>s, <2>1, <2>2
  <2>3. CASE ~(Goto(w, "fail") /\ row' = row)
    <3>1. /\ worker' = [worker EXCEPT ![w] = Idle]
          /\ row' = [row EXCEPT ![worker[w].job.event] =
                IF worker[w].step = "mark" THEN "PROCESSED" ELSE "SKIPPED_DUPLICATE"]
      BY <1>8, <2>3 DEF MarkEvent
    <3>2. \A e \in Events : row'[e] # row[e] => row'[e] # "NONE"
      BY <3>1 DEF TypeOK
    <3> QED
      BY <1>g, <2>1, <3>1, <3>2, EndTyped
  <2> QED
    BY <2>2, <2>3
<1>9. ASSUME NEW w \in Workers, FailEvent(w) \/ KillJob(w) PROVE Recorded'
  <2>1. /\ worker[w].step # "idle" /\ UNCHANGED <<ingest, replay>> /\ Rethrow(w)
        /\ row' = row \/ row' = [row EXCEPT ![worker[w].job.event] = "FAILED"]
    BY <1>9 DEF FailEvent, KillJob
  <2>2. \A e \in Events : row'[e] # row[e] => row'[e] # "NONE"
    BY <2>1 DEF TypeOK
  <2> QED
    BY <1>i, <2>1, <2>2
<1>10. ASSUME NEW e \in Events, StartReplay(e) PROVE Recorded'
  BY <1>10, <1>f DEF StartReplay
<1>11. ASSUME NEW m \in Messages, ReplayEnqueue(m) PROVE Recorded'
  <2>1. replay # NoReplay
    BY <1>11, ReplayTyped DEF ReplayEnqueue
  <2>2. replay'.event = replay.event
    <3>1. replay \in [event : Events, todo : SUBSET Messages, landed : BOOLEAN]
      BY <2>1 DEF TypeOK
    <3> QED
      BY <1>11, <3>1 DEF ReplayEnqueue
  <2>3. \A j \in jobs' : j \in jobs \/ j.event = replay.event
    BY <1>11 DEF ReplayEnqueue, Queued
  <2> QED
    BY <1>11, <1>f, <1>r, <2>1, <2>2, <2>3 DEF ReplayEnqueue
<1>12. ASSUME ReplayMark \/ ReplayDies PROVE Recorded'
  BY <1>12, <1>f DEF ReplayMark, ReplayDies, TypeOK
<1>13. CASE MarkRead \/ UNCHANGED vars
  <2>1. UNCHANGED <<row, ingest, jobs, worker, replay>>
    BY <1>13 DEF MarkRead, vars, log
  <2> QED
    BY <1>f, <2>1
<1> QED
  BY <1>1, <1>2, <1>3, <1>4, <1>5, <1>6, <1>7, <1>8, <1>9, <1>10, <1>11, <1>12, <1>13,
     StepCases

\* What a step does to a message of an event: it stays pending, is stored, or something
\* is noted; when the row is recorded the message is pending, and when it stops being
\* FAILED what was lost is noted.
Keeps(e, m) ==
    /\ Pending(e, m) =>
          Pending(e, m)' \/ stored'[m] \/ cause'[e] # {} \/ row'[e] = "FAILED"
    /\ row[e] = "NONE" /\ row'[e] # "NONE" => Pending(e, m)' \/ cause'[e] # {}
    /\ row[e] = "FAILED" /\ row'[e] # "FAILED" /\ Lost(e) # {} => cause'[e] # {}

\* The first cause of an event stays.
LEMMA CauseGrows ==
    ASSUME TypeOK, JobsHeld, [Next]_vars, NEW e \in Events
    PROVE  cause[e] # {} => cause'[e] # {}
<1>1. ASSUME NEW d \in Events, NEW c, Note(d, c) PROVE cause[e] # {} => cause'[e] # {}
  BY <1>1 DEF Note, TypeOK
<1>2. ASSUME NEW d \in Events, NEW c, Overwrites(d, c)
      PROVE  cause[e] # {} => cause'[e] # {}
  BY <1>1, <1>2 DEF Overwrites
<1>3. ASSUME NEW w \in Workers, worker[w].step # "idle" PROVE worker[w].job.event \in Events
  BY <1>3 DEF JobsHeld, Job
<1>4. ASSUME NEW d \in Events, RecordEvent(d) \/ IngestDies(d) \/ StartReplay(d)
      PROVE  cause[e] # {} => cause'[e] # {}
  BY <1>1, <1>4 DEF RecordEvent, IngestDies, StartReplay, history
<1>5. ASSUME NEW d \in Events, NEW m \in Messages, IngestEnqueue(d, m)
      PROVE  cause[e] # {} => cause'[e] # {}
  BY <1>1, <1>5 DEF IngestEnqueue
<1>6. ASSUME NEW w \in Workers, CheckDuplicate(w) \/ MarkEvent(w) \/ KillJob(w)
      PROVE  cause[e] # {} => cause'[e] # {}
  <2>1. worker[w].job.event \in Events
    BY <1>3, <1>6 DEF CheckDuplicate, MarkEvent, KillJob
  <2> QED
    BY <1>1, <1>2, <1>6, <2>1 DEF CheckDuplicate, MarkEvent, KillJob
<1>7. ASSUME NEW m \in Messages, ReplayEnqueue(m) PROVE cause[e] # {} => cause'[e] # {}
  <2>1. replay.event \in Events
    BY <1>7, ReplayTyped DEF ReplayEnqueue
  <2> QED
    BY <1>1, <1>7, <2>1 DEF ReplayEnqueue
<1>8. ASSUME ReplayMark \/ ReplayDies PROVE cause[e] # {} => cause'[e] # {}
  <2>1. replay.event \in Events
    BY <1>8, ReplayTyped DEF ReplayMark, ReplayDies
  <2> QED
    BY <1>1, <1>2, <1>8, <2>1 DEF ReplayMark, ReplayDies
<1>9. ASSUME NEW w \in Workers,
             \/ StartJob(w) \/ UpsertThread(w) \/ CreateMessage(w) \/ PatchThread(w)
             \/ FailEvent(w)
      PROVE  cause' = cause
  BY <1>9 DEF StartJob, UpsertThread, CreateMessage, PatchThread, FailEvent, history
<1>10. ASSUME MarkRead \/ UNCHANGED vars PROVE cause' = cause
  BY <1>10 DEF MarkRead, vars, history
<1> QED
  BY <1>4, <1>5, <1>6, <1>7, <1>8, <1>9, <1>10, StepCases

\* A job that goes on is still pending, and takes nothing from the others.
LEMMA GoesOn ==
    ASSUME NEW w \in Workers, worker[w].step # "idle", worker'[w].step # "idle",
           worker'[w].job = worker[w].job,
           \A v \in Workers \ {w} : worker'[v] = worker[v],
           UNCHANGED <<ingest, jobs, replay>>,
           NEW e \in Events, NEW m \in Messages, Pending(e, m)
    PROVE  Pending(e, m)'
  BY DEF Pending

\* A job that ends takes nothing but its own message.
LEMMA EndsAlone ==
    ASSUME NEW w \in Workers, jobs \subseteq jobs',
           \A v \in Workers \ {w} : worker'[v] = worker[v],
           UNCHANGED <<ingest, replay>>,
           NEW e \in Events, NEW m \in Messages, Pending(e, m),
           ~(worker[w].job.event = e /\ worker[w].job.message = m)
    PROVE  Pending(e, m)'
  BY DEF Pending

\* Every step keeps every message of every event.
LEMMA StepKeeps ==
    ASSUME TypeOK, JobsHeld, StoredByNow, Recorded, [Next]_vars,
           NEW e \in Events, NEW m \in Carried[e], m \in Messages
    PROVE  Keeps(e, m)
<1>s. /\ "check" \in Steps /\ "thread" \in Steps /\ "create" \in Steps /\ "patch" \in Steps
      /\ "mark" \in Steps /\ "skip" \in Steps /\ "fail" \in Steps
  BY DEF Steps
<1>c. /\ "refused" \in Causes /\ "died" \in Causes /\ "answer" \in Causes
      /\ "account" \in Causes /\ "killed" \in Causes /\ "sibling" \in Causes
      /\ "replay" \in Causes
  BY DEF Causes
<1>j. ASSUME NEW w \in Workers, worker[w].step # "idle"
      PROVE  worker[w].job.event \in Events /\ worker[w].job.message \in Messages
  BY <1>j DEF JobsHeld, Job
<1>g. ASSUME NEW w \in Workers, NEW s \in Steps, worker[w].step # "idle", s # "idle",
             Goto(w, s), UNCHANGED <<ingest, jobs, replay>>, Pending(e, m)
      PROVE  Pending(e, m)'
  BY <1>g, GotoTyped, GoesOn
<1>1. ASSUME NEW d \in Events, RecordEvent(d) PROVE Keeps(e, m)
  <2>1. CASE ingest' = [ingest EXCEPT ![d] = Carried[d]]
    <3>1. row' = [row EXCEPT ![d] = "RECEIVED"] /\ UNCHANGED <<jobs, worker, replay>>
          /\ row[d] = "NONE"
      BY <1>1 DEF RecordEvent
    <3>2. CASE e = d
      <4>1. Pending(e, m)'
        BY <2>1, <3>2 DEF TypeOK, Pending
      <4> QED
        BY <3>1, <3>2, <4>1 DEF Keeps
    <3>3. CASE e # d
      BY <2>1, <3>1, <3>3 DEF Keeps, Pending, TypeOK
    <3> QED
      BY <3>2, <3>3
  <2>2. CASE Note(d, "answer") /\ ingest' = ingest
    BY <1>1, <1>c, <2>2, NoteTyped DEF RecordEvent, Keeps, Pending, TypeOK
  <2> QED
    BY <1>1, <2>1, <2>2 DEF RecordEvent
<1>2. ASSUME NEW d \in Events, NEW n \in Messages, IngestEnqueue(d, n) PROVE Keeps(e, m)
  <2>0. row' = row /\ worker' = worker /\ replay' = replay /\ 0 \in 0..MaxReplays
        /\ ingest' = [ingest EXCEPT ![d] = @ \ {n}]
    BY <1>2, WebhookLogAssumption DEF IngestEnqueue
  <2>1. CASE jobs' = Queued(d, n, 0)
    <3>1. jobs \subseteq jobs' /\ \E j \in jobs' : j.event = d /\ j.message = n
      BY <2>0, <2>1, QueuedTyped
    <3>2. Pending(e, m) => Pending(e, m)'
      BY <2>0, <3>1 DEF Pending, TypeOK
    <3> QED
      BY <2>0, <3>2 DEF Keeps
  <2>2. CASE Note(d, "refused") /\ jobs' = jobs
    <3>1. CASE e = d
      BY <1>c, <2>0, <2>2, <3>1, NoteTyped DEF Keeps
    <3>2. CASE e # d
      BY <2>0, <2>2, <3>2 DEF Keeps, Pending, TypeOK
    <3> QED
      BY <3>1, <3>2
  <2> QED
    BY <1>2, <2>1, <2>2 DEF IngestEnqueue
<1>3. ASSUME NEW d \in Events, IngestDies(d) PROVE Keeps(e, m)
  <2>1. CASE e = d
    BY <1>3, <1>c, <2>1, NoteTyped DEF IngestDies, Keeps
  <2>2. CASE e # d
    BY <1>3, <2>2 DEF IngestDies, Keeps, Pending, TypeOK
  <2> QED
    BY <2>1, <2>2
<1>4. ASSUME NEW w \in Workers, StartJob(w) PROVE Keeps(e, m)
  <2>1. PICK j \in jobs :
           /\ jobs' = jobs \ {j}
           /\ worker' = [worker EXCEPT ![w] = [step |-> "check", job |-> j, unread |-> 0]]
    BY <1>4 DEF StartJob
  <2>2. /\ worker'[w].step = "check" /\ worker'[w].job = j
        /\ \A v \in Workers \ {w} : worker'[v] = worker[v]
    BY <2>1 DEF TypeOK
  <2>3. worker[w].step = "idle"
    BY <1>4, IdleTyped DEF StartJob
  <2>4. Pending(e, m) => Pending(e, m)'
    BY <1>4, <2>1, <2>2, <2>3 DEF StartJob, Pending
  <2> QED
    BY <1>4, <2>4 DEF StartJob, Keeps
<1>5. ASSUME NEW w \in Workers, CheckDuplicate(w) PROVE Keeps(e, m)
  <2>1. /\ worker[w].step # "idle" /\ worker[w].job.event \in Events
        /\ row' = row /\ UNCHANGED <<ingest, jobs, replay>>
    BY <1>5, <1>j DEF CheckDuplicate
  <2>2. CASE Goto(w, "skip") \/ Goto(w, "thread") \/ Goto(w, "fail")
    BY <1>g, <1>s, <2>1, <2>2 DEF Keeps
  <2>3. CASE worker' = [worker EXCEPT ![w] = Idle] /\ Note(worker[w].job.event, "account")
    <3>1. cause'[worker[w].job.event] # {}
      BY <1>c, <2>1, <2>3, NoteTyped
    <3>2. worker[w].job.event # e /\ Pending(e, m) => Pending(e, m)'
      BY <2>1, <2>3, EndTyped, EndsAlone
    <3> QED
      BY <2>1, <3>1, <3>2 DEF Keeps
  <2> QED
    BY <1>5, <2>2, <2>3 DEF CheckDuplicate
<1>6. ASSUME NEW w \in Workers, UpsertThread(w) \/ CreateMessage(w) \/ PatchThread(w)
      PROVE  Keeps(e, m)
  <2>1. /\ worker[w].step # "idle" /\ row' = row /\ UNCHANGED <<ingest, jobs, replay>>
    BY <1>6 DEF UpsertThread, CreateMessage, PatchThread
  <2>2. CASE Goto(w, "fail") \/ Goto(w, "patch") \/ Goto(w, "mark")
    BY <1>g, <1>s, <2>1, <2>2 DEF Keeps
  <2>3. CASE worker' = [worker EXCEPT ![w].step = "create", ![w].unread = thread.unread]
    <3>1. /\ worker'[w].step = "create" /\ worker'[w].job = worker[w].job
          /\ \A v \in Workers \ {w} : worker'[v] = worker[v]
      BY <2>3 DEF TypeOK, WorkerState
    <3>2. Pending(e, m) => Pending(e, m)'
      BY <2>1, <3>1, GoesOn
    <3> QED
      BY <2>1, <3>2 DEF Keeps
  <2> QED
    BY <1>6, <2>2, <2>3 DEF UpsertThread, CreateMessage, PatchThread
<1>7. ASSUME NEW w \in Workers, MarkEvent(w) PROVE Keeps(e, m)
  <2>1. /\ worker[w].step \in {"mark", "skip"} /\ worker[w].job.event \in Events
        /\ stored' = stored /\ UNCHANGED <<ingest, jobs, replay>>
        /\ stored[worker[w].job.message] /\ row[worker[w].job.event] # "NONE"
    BY <1>7, <1>j DEF MarkEvent, content, StoredByNow, Recorded
  <2>2. CASE Goto(w, "fail") /\ row' = row
    BY <1>g, <1>s, <2>1, <2>2 DEF Keeps
  <2>3. CASE /\ worker' = [worker EXCEPT ![w] = Idle]
             /\ Overwrites(worker[w].job.event, "sibling")
             /\ row' = [row EXCEPT ![worker[w].job.event] =
                   IF worker[w].step = "mark" THEN "PROCESSED" ELSE "SKIPPED_DUPLICATE"]
    <3>1. Pending(e, m) => Pending(e, m)' \/ stored'[m]
      BY <2>1, <2>3, EndTyped, EndsAlone
    <3>2. e # worker[w].job.event => row'[e] = row[e]
      BY <2>1, <2>3 DEF TypeOK
    <3>3. e = worker[w].job.event /\ row[e] = "FAILED" /\ Lost(e) # {} => cause'[e] # {}
      BY <1>c, <2>3, NoteTyped DEF Overwrites
    <3> QED
      BY <2>1, <3>1, <3>2, <3>3 DEF Keeps
  <2> QED
    BY <1>7, <2>2, <2>3 DEF MarkEvent
<1>8. ASSUME NEW w \in Workers, FailEvent(w) PROVE Keeps(e, m)
  <2>1. /\ worker[w].step # "idle" /\ worker[w].job.event \in Events
        /\ row[worker[w].job.event] # "NONE"
    BY <1>8, <1>j DEF FailEvent, Recorded
  <2>2. worker[w].job.event # e /\ Pending(e, m) => Pending(e, m)'
    BY <1>8, <2>1, RethrowTyped, EndsAlone DEF FailEvent
  <2>3. row' = [row EXCEPT ![worker[w].job.event] = "FAILED"]
    BY <1>8 DEF FailEvent
  <2> QED
    BY <2>1, <2>2, <2>3 DEF Keeps, TypeOK
<1>9. ASSUME NEW w \in Workers, KillJob(w) PROVE Keeps(e, m)
  <2>1. /\ worker[w].step # "idle" /\ worker[w].job.event \in Events
        /\ row' = row /\ UNCHANGED <<ingest, replay>>
    BY <1>9, <1>j DEF KillJob
  <2>2. /\ jobs \subseteq jobs'
        /\ \A v \in Workers \ {w} : worker'[v] = worker[v]
        /\ worker[w].job.left # 0 =>
              \E j \in jobs' : /\ j.event = worker[w].job.event
                               /\ j.message = worker[w].job.message
    BY <1>9, <2>1, RethrowTyped DEF KillJob
  <2>3. worker[w].job.left = 0 => cause'[worker[w].job.event] # {}
    BY <1>9, <1>c, <2>1, NoteTyped DEF KillJob
  <2>4. CASE worker[w].job.event = e /\ worker[w].job.message = m
    BY <2>1, <2>2, <2>3, <2>4 DEF Keeps, Pending
  <2>5. CASE ~(worker[w].job.event = e /\ worker[w].job.message = m)
    BY <2>1, <2>2, <2>5, EndsAlone DEF Keeps
  <2> QED
    BY <2>4, <2>5
<1>10. ASSUME NEW d \in Events, StartReplay(d) PROVE Keeps(e, m)
  <2>1. replay.todo = {}
    BY <1>10 DEF StartReplay, NoReplay
  <2> QED
    BY <1>10, <2>1 DEF StartReplay, Keeps, Pending
<1>11. ASSUME NEW n \in Messages, ReplayEnqueue(n) PROVE Keeps(e, m)
  <2>1. /\ replay # NoReplay /\ replay.event \in Events
        /\ row' = row /\ UNCHANGED <<ingest, worker>>
    BY <1>11, ReplayTyped DEF ReplayEnqueue
  <2>2. replay'.event = replay.event /\ replay'.todo = replay.todo \ {n}
    <3>1. replay \in [event : Events, todo : SUBSET Messages, landed : BOOLEAN]
      BY <2>1 DEF TypeOK
    <3> QED
      BY <1>11, <3>1 DEF ReplayEnqueue
  <2>3. CASE jobs' = Queued(replay.event, n, replays)
    <3>1. jobs \subseteq jobs' /\ \E j \in jobs' : j.event = replay.event /\ j.message = n
      BY <2>1, <2>3, QueuedTyped DEF TypeOK
    <3>2. Pending(e, m) => Pending(e, m)'
      BY <2>1, <2>2, <3>1 DEF Pending
    <3> QED
      BY <2>1, <3>2 DEF Keeps
  <2>4. CASE Note(replay.event, "refused") /\ jobs' = jobs
    <3>1. cause'[replay.event] # {}
      BY <1>c, <2>1, <2>4, NoteTyped
    <3>2. replay.event # e /\ Pending(e, m) => Pending(e, m)'
      BY <2>1, <2>2, <2>4 DEF Pending
    <3> QED
      BY <2>1, <3>1, <3>2 DEF Keeps
  <2> QED
    BY <1>11, <2>3, <2>4 DEF ReplayEnqueue
<1>12. ASSUME ReplayMark PROVE Keeps(e, m)
  <2>1. /\ replay.event \in Events /\ replay.todo = {} /\ replay'.todo = {}
        /\ UNCHANGED <<ingest, jobs, worker>> /\ row[replay.event] # "NONE"
    BY <1>12, ReplayTyped DEF ReplayMark, NoReplay, Recorded
  <2>2. Pending(e, m) => Pending(e, m)'
    BY <2>1 DEF Pending
  <2>3. CASE row' = row
    BY <2>2, <2>3 DEF Keeps
  <2>4. CASE /\ row' = [row EXCEPT ![replay.event] = "RECEIVED"]
             /\ Overwrites(replay.event, "replay")
    <3>1. e # replay.event => row'[e] = row[e]
      BY <2>1, <2>4 DEF TypeOK
    <3>2. e = replay.event /\ row[e] = "FAILED" /\ Lost(e) # {} => cause'[e] # {}
      BY <1>c, <2>4, NoteTyped DEF Overwrites
    <3> QED
      BY <2>1, <2>2, <3>1, <3>2 DEF Keeps
  <2> QED
    BY <1>12, <2>3, <2>4 DEF ReplayMark
<1>13. ASSUME ReplayDies PROVE Keeps(e, m)
  <2>1. /\ replay.event \in Events /\ row' = row /\ UNCHANGED <<ingest, jobs, worker>>
    BY <1>13, ReplayTyped DEF ReplayDies
  <2>2. CASE replay.event = e /\ m \in replay.todo
    <3>1. row[e] # "FAILED" => cause'[e] # {}
      BY <1>13, <1>c, <2>1, <2>2, NoteTyped DEF ReplayDies
    <3> QED
      BY <2>1, <3>1 DEF Keeps
  <2>3. CASE ~(replay.event = e /\ m \in replay.todo)
    BY <2>1, <2>3 DEF Keeps, Pending
  <2> QED
    BY <2>2, <2>3
<1>14. CASE MarkRead \/ UNCHANGED vars
  BY <1>14 DEF MarkRead, vars, log, Keeps, Pending
<1> QED
  BY <1>1, <1>2, <1>3, <1>4, <1>5, <1>6, <1>7, <1>8, <1>9, <1>10, <1>11, <1>12, <1>13,
     <1>14, StepCases

\* "Nothing is ever silently dropped": a recorded message that is neither stored nor
\* waiting for a job belongs to an event that is FAILED, or to one with a named fault
\* (wa-webhook-ingest, wa-inbound-processor, wa-webhook-replay-route).
THEOREM NothingIsDropped == Spec => []NothingDroppedWithoutCause
<1>1. Init => StoredByNow /\ Recorded /\ NothingDroppedWithoutCause
  <2> SUFFICES ASSUME Init PROVE StoredByNow /\ Recorded /\ NothingDroppedWithoutCause
    OBVIOUS
  <2>1. \A w \in Workers : worker[w].step = "idle"
    BY IdleTyped DEF Init
  <2> QED
    BY <2>1 DEF Init, StoredByNow, Recorded, NothingDroppedWithoutCause
<1>2. ASSUME TypeOK, JobsHeld, StoredByNow, Recorded, NothingDroppedWithoutCause,
             [Next]_vars
      PROVE  NothingDroppedWithoutCause'
  <2> SUFFICES ASSUME NEW e \in Events, row'[e] # "NONE", NEW m \in Lost(e)',
                      row'[e] # "FAILED", cause'[e] = {}
               PROVE  FALSE
    BY DEF NothingDroppedWithoutCause
  <2>1. m \in Messages /\ m \in Carried[e] /\ ~stored'[m] /\ ~Pending(e, m)'
    BY WebhookLogAssumption DEF Lost
  <2>2. Keeps(e, m) /\ ~stored[m] /\ cause[e] = {}
    BY <1>2, <2>1, StepKeeps, StoredStep, CauseGrows
  <2>3. m \in Lost(e)
    BY <2>1, <2>2 DEF Keeps, Lost
  <2>4. row[e] = "NONE" \/ row[e] = "FAILED"
    BY <1>2, <2>2, <2>3 DEF NothingDroppedWithoutCause
  <2> QED
    BY <2>1, <2>2, <2>3, <2>4 DEF Keeps
<1>3. TypeOK /\ JobsHeld /\ StoredByNow /\ [Next]_vars => StoredByNow'
  BY StoredStep
<1>4. TypeOK /\ JobsHeld /\ Recorded /\ [Next]_vars => Recorded'
  BY RecordedStep
<1> QED
  BY <1>1, <1>2, <1>3, <1>4, TypeInvariant, PTL DEF Spec

-----------------------------------------------------------------------------
(***************************************************************************)
(* What the thread shows.                                                  *)
(***************************************************************************)
\* Sets of messages are finite, and one more makes one more.
LEMMA MessagesFinite ==
    ASSUME NEW S \in SUBSET Messages
    PROVE  /\ IsFiniteSet(S) /\ Cardinality(S) \in Nat
           /\ \A x \in Messages \ S : Cardinality(S \union {x}) = Cardinality(S) + 1
<1>1. IsFiniteSet(S)
  BY FS_Subset, WebhookLogAssumption
<1> QED
  BY <1>1, FS_AddElement, FS_CardinalityType

\* The thread, the messages and what was counted stay, and no job enters or leaves the
\* part between its read of the counter and its patch.
Quiet ==
    /\ UNCHANGED <<stored, thread, patched, seen, slip>>
    /\ \A w \in Workers :
          \/ worker'[w] = worker[w]
          \/ worker[w].step # "patch" /\ worker'[w].step \notin {"create", "patch"}

\* The steps that have to do with the thread.
LEMMA ThreadStep ==
    ASSUME TypeOK, JobsHeld, [Next]_vars
    PROVE  \/ Quiet
           \/ \E w \in Workers : UpsertThread(w) \/ CreateMessage(w) \/ PatchThread(w)
           \/ \E w \in Workers : KillJob(w) /\ worker[w].step = "patch"
           \/ MarkRead
<1>s. "skip" \in Steps /\ "thread" \in Steps /\ "fail" \in Steps
  BY DEF Steps
<1>1. ASSUME NEW e \in Events, RecordEvent(e) \/ IngestDies(e) \/ StartReplay(e)
      PROVE  Quiet
  BY <1>1 DEF RecordEvent, IngestDies, StartReplay, Quiet, content, history
<1>2. ASSUME NEW e \in Events, NEW m \in Messages, IngestEnqueue(e, m) \/ ReplayEnqueue(m)
      PROVE  Quiet
  BY <1>2 DEF IngestEnqueue, ReplayEnqueue, Quiet, content
<1>3. ASSUME ReplayMark \/ ReplayDies PROVE Quiet
  BY <1>3 DEF ReplayMark, ReplayDies, Quiet, content
<1>4. ASSUME NEW w \in Workers, StartJob(w) PROVE Quiet
  <2>1. worker[w].step = "idle"
    BY <1>4, IdleTyped DEF StartJob
  <2>2. /\ \A v \in Workers \ {w} : worker'[v] = worker[v]
        /\ worker'[w].step = "check"
    BY <1>4 DEF StartJob, TypeOK
  <2> QED
    BY <1>4, <2>1, <2>2 DEF StartJob, Quiet, content, history
<1>5. ASSUME NEW w \in Workers, CheckDuplicate(w) PROVE Quiet
  <2>1. UNCHANGED <<stored, thread, patched, seen, slip>> /\ worker[w].step = "check"
    BY <1>5 DEF CheckDuplicate, content
  <2>2. CASE worker' = [worker EXCEPT ![w] = Idle]
    BY <2>1, <2>2, EndTyped DEF Quiet
  <2>3. CASE Goto(w, "skip") \/ Goto(w, "thread") \/ Goto(w, "fail")
    <3>1. /\ worker'[w].step \in {"skip", "thread", "fail"}
          /\ \A v \in Workers \ {w} : worker'[v] = worker[v]
      BY <1>s, <2>3, GotoTyped
    <3> QED
      BY <2>1, <3>1 DEF Quiet
  <2> QED
    BY <1>5, <2>2, <2>3 DEF CheckDuplicate
<1>6. ASSUME NEW w \in Workers, MarkEvent(w) PROVE Quiet
  <2>1. UNCHANGED <<stored, thread, patched, seen, slip>> /\ worker[w].step # "patch"
    BY <1>6 DEF MarkEvent, content
  <2>2. CASE worker' = [worker EXCEPT ![w] = Idle]
    BY <2>1, <2>2, EndTyped DEF Quiet
  <2>3. CASE Goto(w, "fail")
    BY <1>s, <2>1, <2>3, GotoTyped DEF Quiet
  <2> QED
    BY <1>6, <2>2, <2>3 DEF MarkEvent
<1>7. ASSUME NEW w \in Workers, FailEvent(w) PROVE Quiet
  <2>1. /\ UNCHANGED <<stored, thread, patched, seen, slip>> /\ worker[w].step = "fail"
        /\ worker' = [worker EXCEPT ![w] = Idle]
    BY <1>7 DEF FailEvent, Rethrow, content
  <2> QED
    BY <2>1, EndTyped DEF Quiet
<1>8. ASSUME NEW w \in Workers, KillJob(w), worker[w].step # "patch" PROVE Quiet
  <2>1. /\ UNCHANGED <<stored, thread, patched, seen, slip>>
        /\ worker' = [worker EXCEPT ![w] = Idle]
    BY <1>8 DEF KillJob, Rethrow, content
  <2> QED
    BY <1>8, <2>1, EndTyped DEF Quiet
<1>9. CASE UNCHANGED vars
  BY <1>9 DEF vars, log, content, history, Quiet
<1> HIDE DEF Quiet
<1>10. \A m \in Messages : ReplayEnqueue(m) => Quiet
  <2> SUFFICES ASSUME NEW m \in Messages, ReplayEnqueue(m) PROVE Quiet
    OBVIOUS
  <2>1. replay.event \in Events
    BY ReplayTyped DEF ReplayEnqueue
  <2> QED
    BY <1>2, <2>1
<1> QED
  BY <1>1, <1>2, <1>3, <1>4, <1>5, <1>6, <1>7, <1>8, <1>9, <1>10, StepCases

\* A quiet step leaves the messages under way where they were.
LEMMA QuietKeeps ==
    ASSUME Quiet
    PROVE  /\ Stored' = Stored /\ Patching' = Patching
           /\ \A w \in Workers : worker'[w].step \in {"create", "patch"} =>
                 worker'[w] = worker[w]
<1>1. \A w \in Workers : worker'[w].step \in {"create", "patch"} => worker'[w] = worker[w]
  BY DEF Quiet
<1>2. \A w \in Workers : worker[w].step = "patch" => worker'[w] = worker[w]
  BY DEF Quiet
<1> QED
  BY <1>1, <1>2 DEF Quiet, Stored, Patching

\* A message counts once at most.
LEMMA CountStep ==
    ASSUME TypeOK, JobsHeld, StoredByNow, PatchedOnce, UnreadBounded, [Next]_vars
    PROVE  PatchedOnce' /\ UnreadBounded'
<1>j. ASSUME NEW w \in Workers, worker[w].step # "idle"
      PROVE  worker[w].job.message \in Messages
  BY <1>j DEF JobsHeld, Job
<1>s. "patch" \in Steps /\ "mark" \in Steps /\ "fail" \in Steps
  BY DEF Steps
<1>u. /\ thread.unread \in Nat /\ \A w \in Workers : worker[w].unread \in Nat
      /\ \A m \in Messages : patched[m] \in Nat
  BY DEF TypeOK, ThreadRow, WorkerState
<1>c. Cardinality(Stored) \in Nat
  BY MessagesFinite DEF Stored
\* Jobs leave, and no message is taken away.
<1>l. ASSUME NEW w \in Workers, worker'[w].step \notin {"create", "patch"},
             \A v \in Workers \ {w} : worker'[v] = worker[v],
             UNCHANGED <<thread, patched, seen>>,
             \A m \in Messages : stored[m] => stored'[m]
      PROVE  PatchedOnce' /\ UnreadBounded'
  <2>1. Cardinality(Stored) <= Cardinality(Stored') /\ Cardinality(Stored') \in Nat
    <3>1. Stored \subseteq Stored' /\ Stored' \in SUBSET Messages
      BY <1>l DEF Stored
    <3> QED
      BY <3>1, FS_Subset, MessagesFinite
  <2>2. Patching' \subseteq Patching
    BY <1>l DEF Patching
  <2>3. PatchedOnce'
    <3>1. \A v \in Workers : worker'[v].step = "patch" => worker'[v] = worker[v]
      BY <1>l
    <3> QED
      BY <1>l, <2>2, <3>1 DEF PatchedOnce
  <2>4. UnreadBounded'
    BY <1>c, <1>l, <1>u, <2>1 DEF UnreadBounded
  <2> QED
    BY <2>3, <2>4
<1>1. CASE Quiet
  <2>1. /\ Stored' = Stored /\ Patching' = Patching
        /\ \A w \in Workers : worker'[w].step \in {"create", "patch"} =>
              worker'[w] = worker[w]
    BY <1>1, QuietKeeps
  <2>2. UNCHANGED <<stored, thread, patched, seen>>
    BY <1>1 DEF Quiet
  <2> QED
    BY <2>1, <2>2 DEF PatchedOnce, UnreadBounded
<1>2. ASSUME NEW w \in Workers, UpsertThread(w) PROVE PatchedOnce' /\ UnreadBounded'
  <2>1. UNCHANGED <<stored, patched, seen>>
    BY <1>2 DEF UpsertThread, history
  <2>2. CASE Goto(w, "fail") /\ thread' = thread
    BY <1>l, <1>s, <2>1, <2>2, GotoTyped
  <2>3. CASE /\ thread' = [thread EXCEPT !.exists = TRUE]
             /\ worker' = [worker EXCEPT ![w].step = "create", ![w].unread = thread.unread]
    <3>1. /\ worker'[w].step = "create" /\ worker'[w].unread = thread.unread
          /\ \A v \in Workers \ {w} : worker'[v] = worker[v]
      BY <2>3 DEF TypeOK, WorkerState
    <3>2. thread'.unread = thread.unread
      BY <2>3 DEF TypeOK, ThreadRow
    <3>3. Stored' = Stored /\ Patching' \subseteq Patching
      BY <2>1, <3>1 DEF Stored, Patching
    <3>4. \A v \in Workers : worker'[v].step = "patch" => worker'[v] = worker[v]
      BY <3>1
    <3>5. PatchedOnce'
      BY <2>1, <3>3, <3>4 DEF PatchedOnce
    <3>6. UnreadBounded'
      BY <3>1, <3>2, <3>3 DEF UnreadBounded
    <3> QED
      BY <3>5, <3>6
  <2> QED
    BY <1>2, <2>2, <2>3 DEF UpsertThread
<1>3. ASSUME NEW w \in Workers, CreateMessage(w) PROVE PatchedOnce' /\ UnreadBounded'
  <2> DEFINE m == worker[w].job.message
  <2>1. worker[w].step = "create" /\ m \in Messages /\ UNCHANGED <<thread, patched, seen>>
    BY <1>3, <1>j DEF CreateMessage
  <2>2. CASE Goto(w, "fail")
    <3>1. \A n \in Messages : stored[n] => stored'[n]
      BY StoredStep
    <3> QED
      BY <1>l, <1>s, <2>1, <2>2, <3>1, GotoTyped
  <2>3. CASE Goto(w, "patch") /\ ~stored[m] /\ stored' = [stored EXCEPT ![m] = TRUE]
    <3>1. /\ worker'[w].step = "patch" /\ worker'[w].job = worker[w].job
          /\ worker'[w].unread = worker[w].unread
          /\ \A v \in Workers \ {w} : worker'[v] = worker[v]
      BY <1>s, <2>3, GotoTyped
    <3>2. Stored' = Stored \union {m} /\ m \notin Stored
      BY <2>1, <2>3 DEF Stored, TypeOK
    <3>3. Cardinality(Stored') = Cardinality(Stored) + 1
      BY <2>1, <3>2, MessagesFinite DEF Stored
    <3>4. Patching' \subseteq Patching \union {m}
      BY <3>1 DEF Patching
    <3>5. patched[m] = 0
      BY <1>u, <2>1, <2>3 DEF PatchedOnce
    <3>6. \A v \in Workers : worker[v].step = "patch" => worker[v].job.message # m
      BY <2>3 DEF StoredByNow
    <3>7. PatchedOnce'
      <4>1. \A n \in Messages : patched'[n] <= 1 /\ (patched'[n] > 0 => stored'[n])
        BY <2>1, <3>2 DEF PatchedOnce, Stored
      <4>2. \A n \in Patching' : patched'[n] = 0
        BY <2>1, <3>4, <3>5 DEF PatchedOnce
      <4>3. ASSUME NEW v \in Workers, NEW u \in Workers,
                   worker'[v].step = "patch", worker'[u].step = "patch",
                   worker'[v].job.message = worker'[u].job.message
            PROVE  v = u
        BY <3>1, <3>6, <4>3 DEF PatchedOnce
      <4> QED
        BY <2>1, <4>1, <4>2, <4>3 DEF PatchedOnce
    <3>8. UnreadBounded'
      <4>1. worker[w].unread <= Cardinality(Stored)
        BY <2>1 DEF UnreadBounded
      <4> HIDE DEF m
      <4> QED
        BY <1>c, <1>u, <2>1, <3>1, <3>3, <4>1 DEF UnreadBounded
    <3> QED
      BY <3>7, <3>8
  <2> QED
    BY <1>3, <2>2, <2>3 DEF CreateMessage
<1>4. ASSUME NEW w \in Workers, PatchThread(w) PROVE PatchedOnce' /\ UnreadBounded'
  <2> DEFINE m == worker[w].job.message
  <2>1. /\ worker[w].step = "patch" /\ m \in Messages /\ m \in Patching
        /\ stored' = stored /\ seen' = seen /\ Stored' = Stored
    BY <1>4, <1>j DEF PatchThread, Patching, Stored
  <2>2. CASE Goto(w, "fail") /\ UNCHANGED <<thread, patched>>
    BY <1>l, <1>s, <2>1, <2>2, GotoTyped
  <2>3. CASE /\ Goto(w, "mark")
             /\ thread' = [thread EXCEPT !.unread = worker[w].unread + 1,
                                         !.lastInboundAt = SentAt[m]]
             /\ patched' = [patched EXCEPT ![m] = @ + 1]
    <3>1. /\ worker'[w].step = "mark" /\ \A v \in Workers \ {w} : worker'[v] = worker[v]
      BY <1>s, <2>3, GotoTyped
    <3>2. /\ patched[m] = 0 /\ patched'[m] = 1
          /\ \A n \in Messages \ {m} : patched'[n] = patched[n]
      BY <2>1, <2>3 DEF PatchedOnce, TypeOK
    <3>3. \A v \in Workers : worker'[v].step = "patch" =>
             v # w /\ worker'[v] = worker[v] /\ worker[v].job.message # m
      BY <2>1, <3>1 DEF PatchedOnce
    <3>4. Patching' \subseteq Patching \ {m}
      BY <3>3 DEF Patching
    <3>5. PatchedOnce'
      <4>1. \A n \in Messages : patched'[n] <= 1 /\ (patched'[n] > 0 => stored'[n])
        BY <2>1, <3>2 DEF PatchedOnce, StoredByNow
      <4>2. \A n \in Patching' : patched'[n] = 0
        BY <3>2, <3>4 DEF PatchedOnce, Patching
      <4>3. \A n \in seen' : patched'[n] > 0
        BY <2>1, <3>2 DEF PatchedOnce, TypeOK
      <4> QED
        BY <3>3, <4>1, <4>2, <4>3 DEF PatchedOnce
    <3>6. thread'.unread = worker[w].unread + 1
      BY <2>3 DEF TypeOK, ThreadRow
    <3>7. UnreadBounded'
      BY <2>1, <3>1, <3>6 DEF UnreadBounded
    <3> QED
      BY <3>5, <3>7
  <2> QED
    BY <1>4, <2>2, <2>3 DEF PatchThread
<1>5. ASSUME NEW w \in Workers, KillJob(w) PROVE PatchedOnce' /\ UnreadBounded'
  <2>1. UNCHANGED <<stored, thread, patched, seen>> /\ worker' = [worker EXCEPT ![w] = Idle]
    BY <1>5 DEF KillJob, Rethrow, content
  <2> QED
    BY <1>l, <2>1, EndTyped
<1>6. CASE MarkRead
  <2>1. /\ worker' = worker /\ stored' = stored /\ patched' = patched /\ seen' = Counted
        /\ thread'.unread = 0
    BY <1>6 DEF MarkRead, log, TypeOK, ThreadRow
  <2>2. Stored' = Stored /\ Patching' = Patching
    BY <2>1 DEF Stored, Patching
  <2>3. PatchedOnce'
    BY <2>1, <2>2 DEF PatchedOnce, Counted
  <2>4. UnreadBounded'
    BY <1>c, <2>1, <2>2 DEF UnreadBounded
  <2> QED
    BY <2>3, <2>4
<1> QED
  BY <1>1, <1>2, <1>3, <1>4, <1>5, <1>6, ThreadStep

\* As long as nothing slipped, the thread is current.
LEMMA CurrentStep ==
    ASSUME TypeOK, JobsHeld, StoredByNow, PatchedOnce, ThreadInv, [Next]_vars
    PROVE  ThreadInv'
<1>j. ASSUME NEW w \in Workers, worker[w].step # "idle"
      PROVE  worker[w].job.message \in Messages
  BY <1>j DEF JobsHeld, Job
<1>s. "patch" \in Steps /\ "mark" \in Steps /\ "fail" \in Steps
  BY DEF Steps
<1>n. \A m \in Messages : SentAt[m] \in Nat /\ patched[m] \in Nat
  BY WebhookLogAssumption DEF TypeOK
\* What slipped stays.
<1>k. ASSUME Unslipped', slip \subseteq slip'
      PROVE  Unslipped /\ CopiesAgree /\ ("late" \notin slip' => WindowHolds)
  BY <1>k DEF Unslipped, ThreadInv
<1>q. ASSUME UNCHANGED <<stored, thread, patched, seen, slip>>, Patching' = Patching,
             \A w \in Workers : worker'[w].step \in {"create", "patch"} =>
                 worker'[w].unread = thread.unread \/ worker'[w] = worker[w]
      PROVE  ThreadInv'
  <2>1. Stored' = Stored
    BY <1>q DEF Stored
  <2> QED
    BY <1>q, <2>1 DEF ThreadInv, Unslipped, CopiesAgree, WindowHolds
<1>1. CASE Quiet
  <2>1. UNCHANGED <<stored, thread, patched, seen, slip>>
    BY <1>1 DEF Quiet
  <2> QED
    BY <1>1, <1>q, <2>1, QuietKeeps
<1>2. ASSUME NEW w \in Workers, UpsertThread(w) PROVE ThreadInv'
  <2>1. /\ worker[w].step = "thread" /\ UNCHANGED <<stored, patched, seen, slip>>
    BY <1>2 DEF UpsertThread, history
  <2>2. CASE Goto(w, "fail") /\ thread' = thread
    <3>1. /\ worker'[w].step = "fail" /\ \A v \in Workers \ {w} : worker'[v] = worker[v]
      BY <1>s, <2>2, GotoTyped
    <3>2. Patching' = Patching
      BY <2>1, <3>1 DEF Patching
    <3> QED
      BY <1>q, <2>1, <2>2, <3>1, <3>2
  <2>3. CASE /\ thread' = [thread EXCEPT !.exists = TRUE]
             /\ worker' = [worker EXCEPT ![w].step = "create", ![w].unread = thread.unread]
    <3>1. /\ worker'[w].step = "create" /\ worker'[w].unread = thread.unread
          /\ \A v \in Workers \ {w} : worker'[v] = worker[v]
      BY <2>3 DEF TypeOK, WorkerState
    <3>2. thread'.unread = thread.unread /\ thread'.lastInboundAt = thread.lastInboundAt
      BY <2>3 DEF TypeOK, ThreadRow
    <3>3. Patching' = Patching /\ Stored' = Stored
      BY <2>1, <3>1 DEF Patching, Stored
    <3>4. CopiesAgree => CopiesAgree'
      BY <2>1, <3>1, <3>2, <3>3 DEF CopiesAgree
    <3>5. WindowHolds => WindowHolds'
      BY <2>1, <3>2, <3>3 DEF WindowHolds
    <3> QED
      BY <2>1, <3>4, <3>5 DEF ThreadInv, Unslipped
  <2> QED
    BY <1>2, <2>2, <2>3 DEF UpsertThread
<1>3. ASSUME NEW w \in Workers, CreateMessage(w) PROVE ThreadInv'
  <2> DEFINE m == worker[w].job.message
  <2>1. worker[w].step = "create" /\ m \in Messages /\ UNCHANGED <<thread, patched, seen>>
    BY <1>3, <1>j DEF CreateMessage
  <2>2. CASE Goto(w, "fail") /\ UNCHANGED <<stored, slip>>
    <3>1. /\ worker'[w].step = "fail" /\ \A v \in Workers \ {w} : worker'[v] = worker[v]
      BY <1>s, <2>2, GotoTyped
    <3>2. Patching' = Patching
      BY <2>1, <3>1 DEF Patching
    <3> QED
      BY <1>q, <2>1, <2>2, <3>1, <3>2
  <2>3. CASE slip' = slip \union {"unpatched"}
    BY <2>3 DEF ThreadInv, Unslipped
  <2>4. CASE /\ Goto(w, "patch") /\ ~stored[m] /\ stored' = [stored EXCEPT ![m] = TRUE]
             /\ slip' = IF Late(m) THEN slip \union {"late"} ELSE slip
    <3> SUFFICES ASSUME Unslipped'
                 PROVE  CopiesAgree' /\ ("late" \notin slip' => WindowHolds')
      BY DEF ThreadInv
    <3>0. CopiesAgree /\ ("late" \notin slip' => WindowHolds)
      BY <1>k, <2>4
    <3>1. /\ worker'[w].step = "patch" /\ worker'[w].job = worker[w].job
          /\ worker'[w].unread = worker[w].unread
          /\ \A v \in Workers \ {w} : worker'[v] = worker[v]
      BY <1>s, <2>4, GotoTyped
    <3>2. Stored' = Stored \union {m} /\ m \notin Stored
      BY <2>1, <2>4 DEF Stored, TypeOK
    <3>3. Patching' = Patching \union {m}
      BY <2>1, <3>1 DEF Patching
    <3>4. Stored' \ (seen' \union Patching') = Stored \ (seen \union Patching)
      BY <2>1, <3>2, <3>3
    <3>5. \A n \in Messages : stored'[n] => stored[n] \/ n = m
      BY <2>4 DEF TypeOK
    <3>6. CopiesAgree'
      BY <2>1, <3>0, <3>1, <3>3, <3>4, <3>5 DEF CopiesAgree
    <3>7. ASSUME "late" \notin slip' PROVE WindowHolds'
      <4>1. WindowHolds /\ ~Late(m)
        BY <2>4, <3>0, <3>7
      <4>2. \A n \in Messages : stored[n] => SentAt[n] <= SentAt[m]
        BY <1>n, <2>1, <4>1 DEF Late
      <4> HIDE DEF m
      <4>3. ASSUME NEW n \in Messages \ Patching', stored'[n]
            PROVE  stored[n] /\ n \in Messages \ Patching
        BY <3>3, <3>5, <4>3
      <4>4. \A k \in Patching' : k \in Patching \/ k = m
        BY <3>3
      <4> QED
        BY <2>1, <4>1, <4>2, <4>3, <4>4 DEF WindowHolds
    <3> QED
      BY <3>6, <3>7
  <2> QED
    BY <1>3, <2>2, <2>3, <2>4 DEF CreateMessage
<1>4. ASSUME NEW w \in Workers, PatchThread(w) PROVE ThreadInv'
  <2> DEFINE m == worker[w].job.message
  <2>1. /\ worker[w].step = "patch" /\ m \in Messages /\ m \in Patching
        /\ stored' = stored /\ seen' = seen /\ Stored' = Stored
        /\ stored[m] /\ patched[m] = 0 /\ m \notin seen
    BY <1>4, <1>j DEF PatchThread, Patching, Stored, StoredByNow, PatchedOnce
  <2>2. CASE slip' = slip \union {"unpatched"}
    BY <2>2 DEF ThreadInv, Unslipped
  <2>3. CASE /\ Goto(w, "mark")
             /\ thread' = [thread EXCEPT !.unread = worker[w].unread + 1,
                                         !.lastInboundAt = SentAt[m]]
             /\ patched' = [patched EXCEPT ![m] = @ + 1]
             /\ slip' = IF Others(w) = {} THEN slip ELSE slip \union {"overlap"}
    <3> SUFFICES ASSUME Unslipped'
                 PROVE  CopiesAgree' /\ ("late" \notin slip' => WindowHolds')
      BY DEF ThreadInv
    <3>0. Others(w) = {} /\ CopiesAgree /\ ("late" \notin slip' => WindowHolds)
      BY <1>k, <2>3 DEF Unslipped
    <3>1. /\ worker'[w].step = "mark" /\ \A v \in Workers \ {w} : worker'[v] = worker[v]
      BY <1>s, <2>3, GotoTyped
    <3>2. \A v \in Workers \ {w} : worker[v].step \notin {"create", "patch"}
      BY <3>0 DEF Others
    <3>3. \A v \in Workers : worker'[v].step \notin {"create", "patch"}
      BY <3>1, <3>2
    <3>4. Patching = {m} /\ Patching' = {}
      BY <2>1, <3>2, <3>3 DEF Patching
    <3>5. thread'.unread = thread.unread + 1 /\ thread'.lastInboundAt = SentAt[m]
      BY <2>1, <2>3, <3>0 DEF CopiesAgree, TypeOK, ThreadRow
    <3>6. Cardinality(Stored \ seen) = Cardinality(Stored \ (seen \union {m})) + 1
      <4>1. Stored \ seen = (Stored \ (seen \union {m})) \union {m}
        BY <2>1 DEF Stored
      <4> DEFINE S == Stored \ (seen \union {m})
      <4>2. S \in SUBSET Messages /\ m \in Messages \ S
        BY <2>1 DEF Stored
      <4> HIDE DEF S, m
      <4> QED
        BY <4>1, <4>2, MessagesFinite DEF S
    <3>7. patched'[m] = 1 /\ \A n \in Messages \ {m} : patched'[n] = patched[n]
      BY <2>1, <2>3 DEF TypeOK
    <3>8. CopiesAgree'
      <4>1. Stored' \ (seen' \union Patching') = Stored \ seen
        BY <2>1, <3>4
      <4>2. thread'.unread = Cardinality(Stored' \ (seen' \union Patching'))
        BY <3>0, <3>4, <3>5, <3>6, <4>1 DEF CopiesAgree
      <4>3. \A n \in Messages : stored'[n] => patched'[n] = 1
        BY <2>1, <3>0, <3>4, <3>7 DEF CopiesAgree
      <4> QED
        BY <3>3, <4>2, <4>3 DEF CopiesAgree
    <3>9. ASSUME "late" \notin slip' PROVE WindowHolds'
      <4>1. \A n \in Messages : stored[n] => SentAt[n] <= SentAt[m]
        BY <1>n, <2>1, <3>0, <3>4, <3>9 DEF WindowHolds
      <4>2. \A n \in Messages : stored[n] => thread'.lastInboundAt >= SentAt[n]
        BY <1>n, <2>1, <3>5, <4>1
      <4> QED
        BY <2>1, <3>4, <4>2 DEF WindowHolds
    <3> QED
      BY <3>8, <3>9
  <2> QED
    BY <1>4, <2>2, <2>3 DEF PatchThread
<1>5. ASSUME NEW w \in Workers, KillJob(w), worker[w].step = "patch" PROVE ThreadInv'
  <2>1. slip' = slip \union {"unpatched"}
    BY <1>5 DEF KillJob
  <2> QED
    BY <2>1 DEF ThreadInv, Unslipped
<1>6. CASE MarkRead
  <2> SUFFICES ASSUME Unslipped'
               PROVE  CopiesAgree' /\ ("late" \notin slip' => WindowHolds')
    BY DEF ThreadInv
  <2>0. /\ \A w \in Workers : worker[w].step \notin {"create", "patch"}
        /\ slip \subseteq slip'
    BY <1>6 DEF MarkRead, Unslipped
  <2>1. CopiesAgree /\ ("late" \notin slip' => WindowHolds)
    BY <1>k, <2>0
  <2>2. /\ worker' = worker /\ stored' = stored /\ patched' = patched /\ seen' = Counted
        /\ thread'.unread = 0 /\ thread'.lastInboundAt = thread.lastInboundAt
    BY <1>6 DEF MarkRead, log, TypeOK, ThreadRow
  <2>3. Patching = {} /\ Patching' = {}
    BY <2>0, <2>2 DEF Patching
  <2>4. Stored' \ (seen' \union Patching') = {}
    BY <2>1, <2>2, <2>3 DEF CopiesAgree, Stored, Counted
  <2>5. CopiesAgree'
    <3>1. Cardinality(Stored' \ (seen' \union Patching')) = 0
      BY <2>4, FS_EmptySet
    <3> QED
      BY <2>0, <2>1, <2>2, <2>3, <3>1 DEF CopiesAgree
  <2>6. WindowHolds => WindowHolds'
    BY <2>2, <2>3 DEF WindowHolds
  <2> QED
    BY <2>1, <2>5, <2>6
<1> QED
  BY <1>1, <1>2, <1>3, <1>4, <1>5, <1>6, ThreadStep

\* "Replaying is safe by construction": a message counts at most once on the thread,
\* and when no job is between a message and its thread, the counter is what came in
\* since the agent last read and the service window counts from the latest message,
\* unless one of the named slips struck (upsertThread, recordInbound, the replay route).
THEOREM ThreadCorrect == Spec => []ThreadIsTrue
<1>1. Init => StoredByNow /\ PatchedOnce /\ UnreadBounded /\ ThreadInv
  <2> SUFFICES ASSUME Init PROVE StoredByNow /\ PatchedOnce /\ UnreadBounded /\ ThreadInv
    OBVIOUS
  <2>1. \A w \in Workers : worker[w].step = "idle"
    BY IdleTyped DEF Init
  <2>2. Stored = {} /\ Patching = {} /\ seen = {} /\ thread.unread = 0
    BY <2>1 DEF Init, Stored, Patching
  <2>3. Cardinality(Stored) = 0 /\ Cardinality(Stored \ (seen \union Patching)) = 0
    BY <2>2, FS_EmptySet
  <2>4. \A m \in Messages : patched[m] = 0 /\ ~stored[m]
    BY DEF Init
  <2>5. StoredByNow /\ UnreadBounded
    BY <2>1, <2>2, <2>3 DEF StoredByNow, UnreadBounded
  <2>6. PatchedOnce
    BY <2>1, <2>2, <2>4 DEF PatchedOnce
  <2>7. CopiesAgree /\ WindowHolds
    BY <2>1, <2>2, <2>3, <2>4 DEF CopiesAgree, WindowHolds
  <2> QED
    BY <2>5, <2>6, <2>7 DEF ThreadInv
<1>2. TypeOK /\ JobsHeld /\ StoredByNow /\ PatchedOnce /\ UnreadBounded /\ [Next]_vars
      => PatchedOnce' /\ UnreadBounded'
  BY CountStep
<1>3. /\ TypeOK /\ JobsHeld /\ StoredByNow /\ PatchedOnce /\ ThreadInv /\ [Next]_vars
      => ThreadInv'
  BY CurrentStep
<1>4. TypeOK /\ JobsHeld /\ StoredByNow /\ [Next]_vars => StoredByNow'
  BY StoredStep
<1>5. PatchedOnce /\ UnreadBounded /\ ThreadInv => ThreadIsTrue
  <2> SUFFICES ASSUME PatchedOnce, UnreadBounded, ThreadInv
               PROVE  CountedOnce /\ ThreadIsCurrent
    BY DEF ThreadIsTrue
  <2>1. CountedOnce
    BY DEF PatchedOnce, UnreadBounded, CountedOnce, Stored
  <2>2. ThreadIsCurrent
    <3> SUFFICES ASSUME \A w \in Workers : worker[w].step # "patch", Unslipped
                 PROVE  /\ thread.unread = Cardinality(Stored \ seen)
                        /\ "late" \notin slip =>
                              \A m \in Messages : stored[m] => thread.lastInboundAt >= SentAt[m]
      BY DEF ThreadIsCurrent, Unslipped, Stored
    <3>1. Patching = {}
      BY DEF Patching
    <3>2. Stored \ (seen \union Patching) = Stored \ seen
      BY <3>1
    <3> QED
      BY <3>1, <3>2 DEF ThreadInv, CopiesAgree, WindowHolds
  <2> QED
    BY <2>1, <2>2
<1> QED
  BY <1>1, <1>2, <1>3, <1>4, <1>5, TypeInvariant, PTL DEF Spec

=============================================================================

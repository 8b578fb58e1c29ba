----------------------------- MODULE WebhookLog -----------------------------
(***************************************************************************)
(* The raw webhook log and the inbound messages it carries: wa-webhook-    *)
(* ingest writes a row per change and queues one wa-inbound-processor job  *)
(* per message, the processor writes the message, the thread and the row's *)
(* status, and an admin replays rows (wa-webhook-replay-route).            *)
(*                                                                         *)
(* One contact of one account, so one thread.  A wamid names a message;    *)
(* wamid and dedupKey are unique columns.  Identity matching, media,       *)
(* consent keywords, campaign attribution, the timeline and reactions are  *)
(* left out, as are the receipts a change may carry beside its messages.   *)
(***************************************************************************)
EXTENDS Integers, FiniteSets

CONSTANTS
    Events,         \* changes Meta delivers
    Messages,       \* wamids
    Carried,        \* the messages of each change
    SentAt,         \* the time the contact sent each message
    Workers,        \* processor jobs that can run at once
    NoJob,          \* what an idle worker holds
    RetryLimit,     \* DEFAULT_RETRY_LIMIT: further tries of a job that throws
    MaxReplays,     \* bound: replays of a row
    MaxReads,       \* bound: times an agent reads the thread
    MaxFaults       \* bound: deaths, refused enqueues and failed calls

ASSUME WebhookLogAssumption ==
    /\ Carried \in [Events -> SUBSET Messages \ {{}}]
    /\ SentAt \in [Messages -> Nat \ {0}]
    /\ IsFiniteSet(Messages)
    /\ RetryLimit \in Nat
    /\ MaxReplays \in Nat
    /\ MaxReads \in Nat
    /\ MaxFaults \in Nat

VARIABLES
    row,        \* processingStatus of the event rows
    ingest,     \* the messages a running ingest still has to queue
    jobs,       \* processor jobs enqueued and not yet delivered
    worker,     \* the running processor jobs
    replay,     \* the running replay
    stored,     \* the message rows
    thread,     \* the thread row
    replays, reads, faults,     \* what the bounds count
    cause,      \* history: what has gone wrong with each event
    slip,       \* history: what has gone wrong with the thread
    patched,    \* history: how often each message was counted on the thread
    seen        \* history: messages counted when the agent last read

log     == <<row, ingest, jobs, worker, replay>>
content == <<stored, thread>>
bounds  == <<replays, reads, faults>>
history == <<cause, slip, patched, seen>>
vars    == <<log, content, bounds, history>>

RowStatus == {"NONE", "RECEIVED", "PROCESSED", "FAILED", "SKIPPED_DUPLICATE"}

\* origin: 0 for the ingest, n for the n-th replay.
Job == [event : Events, message : Messages, left : 0..RetryLimit,
        origin : 0..MaxReplays]

Steps == {"idle", "check", "thread", "create", "patch", "mark", "skip", "fail"}

\* unread: the counter as upsertThread returned it.
WorkerState == [step : Steps, job : Job \union {NoJob}, unread : Nat]
Idle == [step |-> "idle", job |-> NoJob, unread |-> 0]

\* todo: still to queue; landed: whether any enqueue was accepted.
NoReplay == [event |-> "none", todo |-> {}, landed |-> FALSE]

ThreadRow == [exists : BOOLEAN, unread : Nat, lastInboundAt : Nat]

Causes == {"refused",   \* an enqueue was refused
           "died",      \* the ingest died between the row and the jobs, or a
                        \* replay died after a sibling had overwritten FAILED
           "answer",    \* the row was made, its answer lost, its retry a duplicate
           "account",   \* the account was gone when the job ran
           "killed",    \* the last try died, or could not record its failure
           "sibling",   \* another message's job wrote the row's status
           "replay"}    \* a replay marked the row after its jobs had ended

Slips == {"unpatched",  \* the message was stored and the thread not patched
          "overlap",    \* the thread changed between a job's read and its patch
          "late"}       \* a message was stored after one sent later

Fault == faults < MaxFaults /\ faults' = faults + 1

Goto(w, step) == worker' = [worker EXCEPT ![w].step = step]

Pending(e, m) ==
    \/ m \in ingest[e]
    \/ replay.event = e /\ m \in replay.todo
    \/ \E j \in jobs : j.event = e /\ j.message = m
    \/ \E w \in Workers : /\ worker[w].step # "idle"
                          /\ worker[w].job.event = e
                          /\ worker[w].job.message = m

\* Messages of the event that nothing is going to store.
Lost(e) == {m \in Carried[e] : ~stored[m] /\ ~Pending(e, m)}

\* The first thing that goes wrong with an event is kept.
Note(e, c) == cause' = [cause EXCEPT ![e] = IF @ = {} THEN {c} ELSE @]

Others(w) == {v \in Workers \ {w} : worker[v].step \in {"create", "patch"}}

-----------------------------------------------------------------------------
(***************************************************************************)
(* wa-webhook-ingest                                                       *)
(***************************************************************************)
\* recordWebhookEvent; a delivery of a recorded change collides and stops.
RecordEvent(e) ==
    /\ row[e] = "NONE"
    /\ row' = [row EXCEPT ![e] = "RECEIVED"]
    /\ \/ /\ ingest' = [ingest EXCEPT ![e] = Carried[e]]
          /\ UNCHANGED <<faults, cause>>
       \/ /\ Fault
          /\ Note(e, "answer")
          /\ UNCHANGED ingest
    /\ UNCHANGED <<jobs, worker, replay, content, replays, reads, slip,
                   patched, seen>>

Queued(e, m, origin) ==
    jobs \union {[event |-> e, message |-> m, left |-> RetryLimit, origin |-> origin]}

\* enqueueAll: one awaited call per job, a refusal is only counted.
IngestEnqueue(e, m) ==
    /\ m \in ingest[e]
    /\ ingest' = [ingest EXCEPT ![e] = @ \ {m}]
    /\ \/ /\ jobs' = Queued(e, m, 0)
          /\ UNCHANGED <<faults, cause>>
       \/ /\ Fault
          /\ Note(e, "refused")
          /\ UNCHANGED jobs
    /\ UNCHANGED <<row, worker, replay, content, replays, reads, slip,
                   patched, seen>>

\* The ingest dies (30 s); Meta delivers the change again, a duplicate.
IngestDies(e) ==
    /\ ingest[e] # {}
    /\ Fault
    /\ ingest' = [ingest EXCEPT ![e] = {}]
    /\ Note(e, "died")
    /\ UNCHANGED <<row, jobs, worker, replay, content, replays, reads, slip,
                   patched, seen>>

-----------------------------------------------------------------------------
(***************************************************************************)
(* wa-inbound-processor: one job, one message                              *)
(***************************************************************************)
StartJob(w) ==
    /\ worker[w] = Idle
    /\ \E j \in jobs :
          /\ jobs' = jobs \ {j}
          /\ worker' = [worker EXCEPT ![w] = [step |-> "check", job |-> j, unread |-> 0]]
    /\ UNCHANGED <<row, ingest, replay, content, bounds, history>>

\* findMessageByWamid, findAccountById.  A job whose account is gone ends and
\* says nothing; a call that throws takes the handler's catch.
CheckDuplicate(w) ==
    LET j == worker[w].job IN
    /\ worker[w].step = "check"
    /\ \/ /\ Goto(w, IF stored[j.message] THEN "skip" ELSE "thread")
          /\ UNCHANGED <<faults, cause>>
       \/ /\ Goto(w, "fail")
          /\ Fault
          /\ UNCHANGED cause
       \/ /\ ~stored[j.message]
          /\ worker' = [worker EXCEPT ![w] = Idle]
          /\ Fault
          /\ Note(j.event, "account")
    /\ UNCHANGED <<row, ingest, jobs, replay, content, replays, reads, slip,
                   patched, seen>>

\* Mutant: the thread is returned as it was created.
UpsertThreadBlank(w) ==
    /\ worker[w].step = "thread"
    /\ thread' = [thread EXCEPT !.exists = TRUE]
    /\ worker' = [worker EXCEPT ![w].step = "create", ![w].unread = 0]
    /\ UNCHANGED <<row, ingest, jobs, replay, stored, bounds, history>>

\* upsertThread: of two creates one wins the unique index and the other
\* reads the winner's row, so there is one thread and the job has its counter.
UpsertThread(w) ==
    /\ worker[w].step = "thread"
    /\ \/ /\ thread' = [thread EXCEPT !.exists = TRUE]
          /\ worker' = [worker EXCEPT ![w].step = "create", ![w].unread = thread.unread]
          /\ UNCHANGED faults
       \/ /\ Fault
          /\ Goto(w, "fail")
          /\ UNCHANGED thread
    /\ UNCHANGED <<row, ingest, jobs, replay, stored, replays, reads, history>>

Late(m) == \E n \in Messages : stored[n] /\ SentAt[n] > SentAt[m]

\* Mutant: wamid is not unique.
CreateMessageAgain(w) ==
    LET m == worker[w].job.message IN
    /\ worker[w].step = "create"
    /\ stored' = [stored EXCEPT ![m] = TRUE]
    /\ Goto(w, "patch")
    /\ slip' = IF Late(m) THEN slip \union {"late"} ELSE slip
    /\ UNCHANGED <<row, ingest, jobs, replay, thread, bounds, cause,
                   patched, seen>>

\* createMessage: a second one collides and throws.  A create whose answer was
\* lost is retried and collides with itself.
CreateMessage(w) ==
    LET m == worker[w].job.message IN
    /\ worker[w].step = "create"
    /\ \/ /\ ~stored[m]
          /\ stored' = [stored EXCEPT ![m] = TRUE]
          /\ slip' = IF Late(m) THEN slip \union {"late"} ELSE slip
          /\ Goto(w, "patch")
          /\ UNCHANGED faults
       \/ /\ stored[m]
          /\ Goto(w, "fail")
          /\ UNCHANGED <<stored, slip, faults>>
       \/ /\ ~stored[m]
          /\ Fault
          /\ Goto(w, "fail")
          /\ \/ UNCHANGED <<stored, slip>>
             \/ /\ stored' = [stored EXCEPT ![m] = TRUE]
                /\ slip' = slip \union {"unpatched"}
    /\ UNCHANGED <<row, ingest, jobs, replay, thread, replays, reads, cause,
                   patched, seen>>

\* One write from the copy, with the time of this message.
PatchThread(w) ==
    LET m == worker[w].job.message IN
    /\ worker[w].step = "patch"
    /\ \/ /\ thread' = [thread EXCEPT !.unread = worker[w].unread + 1,
                                      !.lastInboundAt = SentAt[m]]
          /\ patched' = [patched EXCEPT ![m] = @ + 1]
          /\ slip' = IF Others(w) = {} THEN slip ELSE slip \union {"overlap"}
          /\ Goto(w, "mark")
          /\ UNCHANGED faults
       \/ /\ Fault
          /\ slip' = slip \union {"unpatched"}
          /\ Goto(w, "fail")
          /\ UNCHANGED <<thread, patched>>
    /\ UNCHANGED <<row, ingest, jobs, replay, stored, replays, reads, cause, seen>>

\* The row takes the status of the job that ends last, whatever the other
\* messages of the event came to.
Overwrites(e, c) == IF row[e] = "FAILED" /\ Lost(e) # {} THEN Note(e, c)
                    ELSE UNCHANGED cause

\* markWebhookEvent PROCESSED or SKIPPED_DUPLICATE; a throw takes the catch.
MarkEvent(w) ==
    LET j == worker[w].job IN
    /\ worker[w].step \in {"mark", "skip"}
    /\ \/ /\ row' = [row EXCEPT ![j.event] =
                IF worker[w].step = "mark" THEN "PROCESSED" ELSE "SKIPPED_DUPLICATE"]
          /\ worker' = [worker EXCEPT ![w] = Idle]
          /\ Overwrites(j.event, "sibling")
          /\ UNCHANGED faults
       \/ /\ Fault
          /\ Goto(w, "fail")
          /\ UNCHANGED <<row, cause>>
    /\ UNCHANGED <<ingest, jobs, replay, content, replays, reads, slip,
                   patched, seen>>

\* Mutant: a job that threw runs again, for ever.
RethrowForever(w) ==
    LET j == worker[w].job IN
    /\ jobs' = jobs \union {[j EXCEPT !.left = @ - 1]}
    /\ worker' = [worker EXCEPT ![w] = Idle]

\* The queue runs a job that threw again, RetryLimit times.
Rethrow(w) ==
    LET j == worker[w].job IN
    /\ jobs' = IF j.left > 0 THEN jobs \union {[j EXCEPT !.left = @ - 1]} ELSE jobs
    /\ worker' = [worker EXCEPT ![w] = Idle]

\* Mutant: the catch rethrows without marking the row.
FailEventSilently(w) ==
    /\ worker[w].step = "fail"
    /\ Rethrow(w)
    /\ UNCHANGED <<row, ingest, replay, content, bounds, history>>

\* markWebhookEventFailed, then the job throws.
FailEvent(w) ==
    LET j == worker[w].job IN
    /\ worker[w].step = "fail"
    /\ row' = [row EXCEPT ![j.event] = "FAILED"]
    /\ Rethrow(w)
    /\ UNCHANGED <<ingest, replay, content, bounds, cause, slip, patched, seen>>

\* The process dies, the 30 s run out, or the catch's own write throws.
KillJob(w) ==
    LET j == worker[w].job IN
    /\ worker[w].step # "idle"
    /\ Fault
    /\ Rethrow(w)
    /\ IF j.left = 0 THEN Note(j.event, "killed") ELSE UNCHANGED cause
    /\ slip' = IF worker[w].step = "patch" THEN slip \union {"unpatched"} ELSE slip
    /\ UNCHANGED <<row, ingest, replay, content, replays, reads, patched, seen>>

-----------------------------------------------------------------------------
(***************************************************************************)
(* The admin and the agent                                                 *)
(***************************************************************************)
\* replayEvent: the stored change goes through the same fan-out.
StartReplay(e) ==
    /\ replay = NoReplay
    /\ row[e] # "NONE"
    /\ replays < MaxReplays
    /\ replays' = replays + 1
    /\ replay' = [event |-> e, todo |-> Carried[e], landed |-> FALSE]
    /\ UNCHANGED <<row, ingest, jobs, worker, content, reads, faults, history>>

ReplayEnqueue(m) ==
    /\ m \in replay.todo
    /\ \/ /\ jobs' = Queued(replay.event, m, replays)
          /\ replay' = [replay EXCEPT !.todo = @ \ {m}, !.landed = TRUE]
          /\ UNCHANGED <<faults, cause>>
       \/ /\ Fault
          /\ Note(replay.event, "refused")
          /\ replay' = [replay EXCEPT !.todo = @ \ {m}]
          /\ UNCHANGED jobs
    /\ UNCHANGED <<row, ingest, worker, content, replays, reads, slip,
                   patched, seen>>

\* "Marked in flight only after something was actually queued."
ReplayMark ==
    /\ replay # NoReplay
    /\ replay.todo = {}
    /\ replay' = NoReplay
    /\ IF replay.landed
       THEN /\ row' = [row EXCEPT ![replay.event] = "RECEIVED"]
            /\ Overwrites(replay.event, "replay")
       ELSE UNCHANGED <<row, cause>>
    /\ UNCHANGED <<ingest, jobs, worker, content, bounds, slip, patched, seen>>

\* The request dies: what was queued runs, the row keeps its status.
ReplayDies ==
    /\ replay # NoReplay
    /\ Fault
    /\ replay' = NoReplay
    /\ IF replay.todo # {} /\ row[replay.event] # "FAILED"
       THEN Note(replay.event, "died") ELSE UNCHANGED cause
    /\ UNCHANGED <<row, ingest, jobs, worker, content, replays, reads, slip,
                   patched, seen>>

Counted == {m \in Messages : patched[m] > 0}

\* The agent opens the conversation (ThreadView, wa-thread-actions-route).
MarkRead ==
    /\ thread.unread > 0
    /\ reads < MaxReads
    /\ reads' = reads + 1
    /\ thread' = [thread EXCEPT !.unread = 0]
    /\ seen' = Counted
    /\ slip' = IF \E w \in Workers : worker[w].step \in {"create", "patch"}
               THEN slip \union {"overlap"} ELSE slip
    /\ UNCHANGED <<log, stored, replays, faults, cause, patched>>

-----------------------------------------------------------------------------
Init ==
    /\ row = [e \in Events |-> "NONE"]
    /\ ingest = [e \in Events |-> {}]
    /\ jobs = {}
    /\ worker = [w \in Workers |-> Idle]
    /\ replay = NoReplay
    /\ stored = [m \in Messages |-> FALSE]
    /\ thread = [exists |-> FALSE, unread |-> 0, lastInboundAt |-> 0]
    /\ replays = 0
    /\ reads = 0
    /\ faults = 0
    /\ cause = [e \in Events |-> {}]
    /\ slip = {}
    /\ patched = [m \in Messages |-> 0]
    /\ seen = {}

IngestStep(e) ==
    RecordEvent(e) \/ (\E m \in Messages : IngestEnqueue(e, m)) \/ IngestDies(e)

JobStep(w) ==
    \/ StartJob(w)
    \/ CheckDuplicate(w)
    \/ UpsertThread(w)
    \/ CreateMessage(w)
    \/ PatchThread(w)
    \/ MarkEvent(w)
    \/ FailEvent(w)
    \/ KillJob(w)

ReplayStep ==
    \/ \E e \in Events : StartReplay(e)
    \/ \E m \in Messages : ReplayEnqueue(m)
    \/ ReplayMark
    \/ ReplayDies

Next ==
    \/ \E e \in Events : IngestStep(e)
    \/ \E w \in Workers : JobStep(w)
    \/ ReplayStep
    \/ MarkRead

Spec == Init /\ [][Next]_vars

-----------------------------------------------------------------------------
TypeOK ==
    /\ row \in [Events -> RowStatus]
    /\ ingest \in [Events -> SUBSET Messages]
    /\ jobs \subseteq Job
    /\ worker \in [Workers -> WorkerState]
    /\ replay = NoReplay \/ replay \in [event : Events, todo : SUBSET Messages,
                                        landed : BOOLEAN]
    /\ stored \in [Messages -> BOOLEAN]
    /\ thread \in ThreadRow
    /\ replays \in 0..MaxReplays
    /\ reads \in 0..MaxReads
    /\ faults \in 0..MaxFaults
    /\ cause \in [Events -> SUBSET Causes]
    /\ slip \subseteq Slips
    /\ patched \in [Messages -> Nat]
    /\ seen \subseteq Messages

(***************************************************************************)
(* "Nothing is ever silently dropped" (wa-webhook-ingest), but for the     *)
(* named faults: a recorded message that is neither stored nor waiting for *)
(* a job belongs to an event that is listed as FAILED.                     *)
(***************************************************************************)
NothingDroppedWithoutCause ==
    \A e \in Events :
        row[e] # "NONE" /\ Lost(e) # {} => row[e] = "FAILED" \/ cause[e] # {}

(***************************************************************************)
(* "Replaying is safe by construction" (wa-webhook-replay-route): however  *)
(* often a change is replayed and its jobs are retried, beside one another *)
(* or not, a message counts at most once on the thread, so the counter     *)
(* never shows more than was stored.                                       *)
(***************************************************************************)
CountedOnce ==
    /\ \A m \in Messages : patched[m] <= 1
    /\ thread.unread <= Cardinality({m \in Messages : stored[m]})

(***************************************************************************)
(* When no job is between a message and its thread, the unread counter is  *)
(* the number of messages since the agent last read, and the service       *)
(* window counts from the latest message, unless a job died or failed in   *)
(* between, two overlapped, or (window only) a message came late.          *)
(***************************************************************************)
ThreadIsCurrent ==
    (\A w \in Workers : worker[w].step # "patch")
        /\ slip \intersect {"unpatched", "overlap"} = {} =>
    /\ thread.unread = Cardinality({m \in Messages : stored[m]} \ seen)
    /\ "late" \notin slip =>
          \A m \in Messages : stored[m] => thread.lastInboundAt >= SentAt[m]

(***************************************************************************)
(* The thread shows what was received.                                     *)
(***************************************************************************)
ThreadIsTrue == CountedOnce /\ ThreadIsCurrent
=============================================================================

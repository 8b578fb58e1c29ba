---------------------------- MODULE OutboundSend ----------------------------
(***************************************************************************)
(* The single send path: wa-outbound-sender with the queue that runs it,   *)
(* the Meta endpoint it calls, and the stuck-message sweep of              *)
(* wa-health-check that races it.                                          *)
(*                                                                         *)
(* One action per stretch of code between two awaits: a sender job works   *)
(* on the copy of the row it read at the start, and nothing in the code    *)
(* compares that copy with the row again before it writes.  Error codes,   *)
(* the thread, the account, the recipient mirror and the timeline are rows *)
(* of other components and are left out; the policy gate is a choice.      *)
(***************************************************************************)
EXTENDS Integers, FiniteSets

CONSTANTS
    Messages,           \* outbound message ids
    Workers,            \* sender jobs that can run at the same time
    NoMessage,          \* the id an idle worker holds
    MaxSendAttempts,    \* MAX_SEND_ATTEMPTS: retries recorded on the row
    SweepLimit,         \* rows one sweep reads (findStuckQueuedMessages)
    MaxRedeliveries,    \* bound: jobs the queue delivers twice
    MaxSweepAborts      \* bound: health checks that die half way

ASSUME OutboundSendAssumption ==
    /\ NoMessage \notin Messages
    /\ MaxSendAttempts \in Nat
    /\ SweepLimit \in Nat \ {0}
    /\ MaxRedeliveries \in Nat
    /\ MaxSweepAborts \in Nat

VARIABLES
    message,        \* the whatsappMessage row
    marker,         \* kv wa:accepted:<id>, the out-of-band acceptance record
    jobs,           \* sender jobs enqueued and not yet delivered
    worker,         \* the running sender jobs, each with its copy of the row
    sweep,          \* the running stuck-message sweep
    aged,           \* messages older than STUCK_MESSAGE_MS
    redeliveries,   \* redeliveries so far
    sweepAborts,    \* aborted sweeps so far
    copies,         \* history: copies of the message Meta accepted
    attempts,       \* history: requests written to Meta
    requeues,       \* history: times the sweep re-enqueued the message
    cause           \* history: the faults the message has been exposed to

vars == <<message, marker, jobs, worker, sweep, aged, redeliveries,
          sweepAborts, copies, attempts, requeues, cause>>

world   == <<copies, attempts>>
budgets == <<redeliveries, sweepAborts>>

(***************************************************************************)
(* Rows and job states                                                     *)
(***************************************************************************)
Statuses == {"NONE", "QUEUED", "ACCEPTED", "FAILED"}

MessageRow == [status : Statuses, wamid : BOOLEAN, retryCount : Nat,
               requeuedAt : BOOLEAN]

Steps == {"idle", "marker", "gate", "send", "retry", "reschedule", "fail",
          "record", "mark"}

WorkerState == [step : Steps, id : Messages \union {NoMessage},
                retryCount : Nat, requeuedAt : BOOLEAN, unrecorded : BOOLEAN]

Idle == [step |-> "idle", id |-> NoMessage, retryCount |-> 0,
         requeuedAt |-> FALSE, unrecorded |-> FALSE]

StuckRow == [id : Messages, requeuedAt : BOOLEAN]

NoSweep == [todo |-> {}, enqueue |-> NoMessage]

\* What can make a message reach its recipient twice, or reach them and be
\* reported as failed.
Causes == {"timeout",      \* no answer was read from a request Meta took
           "reset",        \* the connection broke after Meta took the request
           "crash",        \* the job died between acceptance and its record
           "unrecorded",   \* neither the row nor kv took the acceptance
           "blind",        \* kv could not be read when the marker was set
           "overlap",      \* two jobs were running for the message
           "swept"}        \* the sweep failed it in mid-send, or after Meta took it

Add(m, c) == [cause EXCEPT ![m] = @ \union {c}]

InFlight(m) == {w \in Workers : worker[w].id = m}

(***************************************************************************)
(* Guards of the sender                                                    *)
(***************************************************************************)
SendGuard(row) == ~row.wamid /\ row.status = "QUEUED"

\* Mutant: one retry too many.
RetryAllowedOneMore(retryCount) == retryCount <= MaxSendAttempts

RetryAllowed(retryCount) == retryCount < MaxSendAttempts

Goto(w, step) == worker' = [worker EXCEPT ![w].step = step]
Finish(w)     == worker' = [worker EXCEPT ![w] = Idle]

-----------------------------------------------------------------------------
(***************************************************************************)
(* Producers                                                               *)
(***************************************************************************)
\* queueOutbound creates the QUEUED row and then schedules one job; the
\* result of the enqueue is not looked at, so the row may have no job.
QueueOutbound(m) ==
    /\ message[m].status = "NONE"
    /\ message' = [message EXCEPT ![m].status = "QUEUED"]
    /\ \E landed \in {0, 1} : jobs' = [jobs EXCEPT ![m] = landed]
    /\ UNCHANGED <<marker, worker, sweep, aged, budgets, world, requeues, cause>>

\* Time passes: the row is now older than STUCK_MESSAGE_MS.
Age(m) ==
    /\ message[m].status # "NONE"
    /\ m \notin aged
    /\ aged' = aged \union {m}
    /\ UNCHANGED <<message, marker, jobs, worker, sweep, budgets, world,
                   requeues, cause>>

(***************************************************************************)
(* The sender job                                                          *)
(***************************************************************************)
\* The queue hands a job over, once or (redelivery) again later; the job
\* reads the row and applies sendGuard to what it read.
StartJob(w, m) ==
    /\ worker[w] = Idle
    /\ jobs[m] > 0
    /\ \/ /\ jobs' = [jobs EXCEPT ![m] = @ - 1]
          /\ UNCHANGED redeliveries
       \/ /\ redeliveries < MaxRedeliveries
          /\ redeliveries' = redeliveries + 1
          /\ UNCHANGED jobs
    /\ IF SendGuard(message[m])
       THEN /\ worker' = [worker EXCEPT ![w] =
                    [step |-> "marker", id |-> m,
                     retryCount |-> message[m].retryCount,
                     requeuedAt |-> message[m].requeuedAt,
                     unrecorded |-> FALSE]]
            /\ cause' = IF InFlight(m) = {} THEN cause ELSE Add(m, "overlap")
       ELSE UNCHANGED <<worker, cause>>
    /\ UNCHANGED <<message, marker, sweep, aged, sweepAborts, world, requeues>>

\* Mutant: the acceptance marker is not consulted.
ReadMarkerIgnored(w) ==
    /\ worker[w].step = "marker"
    /\ Goto(w, "gate")
    /\ UNCHANGED <<message, marker, jobs, sweep, aged, budgets, world, requeues, cause>>

\* readAcceptanceMarker: a marker ends the job; a kv failure reads as none.
ReadMarker(w) ==
    LET m == worker[w].id IN
    /\ worker[w].step = "marker"
    /\ \/ /\ marker[m]
          /\ Finish(w)
          /\ UNCHANGED cause
       \/ /\ ~marker[m]
          /\ Goto(w, "gate")
          /\ UNCHANGED cause
       \/ /\ marker[m]
          /\ Goto(w, "gate")
          /\ cause' = Add(m, "blind")
    /\ UNCHANGED <<message, marker, jobs, sweep, aged, budgets, world, requeues>>

\* Missing thread, account or payload, a policy denial: the message fails.
\* Recipient spacing: the job re-enqueues itself and changes nothing else.
Gate(w) ==
    /\ worker[w].step = "gate"
    /\ \/ Goto(w, "fail") /\ UNCHANGED jobs
       \/ Goto(w, "send") /\ UNCHANGED jobs
       \/ /\ Finish(w)
          /\ \E landed \in {0, 1} :
                jobs' = [jobs EXCEPT ![worker[w].id] = @ + landed]
    /\ UNCHANGED <<message, marker, sweep, aged, budgets, world, requeues, cause>>

(***************************************************************************)
(* The request to Meta.  "took" says whether Meta accepted a copy.         *)
(***************************************************************************)
Transmitted(m, took) ==
    /\ attempts' = [attempts EXCEPT ![m] = @ + 1]
    /\ copies' = [copies EXCEPT ![m] = IF took THEN @ + 1 ELSE @]

RetryStep(w) == IF RetryAllowed(worker[w].retryCount) THEN "retry" ELSE "fail"

\* A 200 with a message id.
SendAccepted(w) ==
    /\ worker[w].step = "send"
    /\ Transmitted(worker[w].id, TRUE)
    /\ worker' = [worker EXCEPT ![w].step = "record", ![w].unrecorded = TRUE]
    /\ UNCHANGED <<message, marker, jobs, sweep, aged, budgets, requeues, cause>>

\* An abort, or a 200 without an id: ambiguous, so terminal.
SendUnanswered(w, took) ==
    /\ worker[w].step = "send"
    /\ Transmitted(worker[w].id, took)
    /\ worker' = [worker EXCEPT ![w].step = "fail", ![w].unrecorded = took]
    /\ cause' = IF took THEN Add(worker[w].id, "timeout") ELSE cause
    /\ UNCHANGED <<message, marker, jobs, sweep, aged, budgets, requeues>>

\* Any other rejection of fetch becomes networkError, a 503, and is retried,
\* whether or not the request had been written.
SendBroken(w, took) ==
    /\ worker[w].step = "send"
    /\ Transmitted(worker[w].id, took)
    /\ Goto(w, RetryStep(w))
    /\ cause' = IF took THEN Add(worker[w].id, "reset") ELSE cause
    /\ UNCHANGED <<message, marker, jobs, sweep, aged, budgets, requeues>>

\* 429, 5xx and the RETRYABLE_BACKOFF codes.
SendThrottled(w) ==
    /\ worker[w].step = "send"
    /\ Transmitted(worker[w].id, FALSE)
    /\ Goto(w, RetryStep(w))
    /\ UNCHANGED <<message, marker, jobs, sweep, aged, budgets, requeues, cause>>

\* Every other class, and an attachment that cannot be read.
SendRefused(w) ==
    /\ worker[w].step = "send"
    /\ Transmitted(worker[w].id, FALSE)
    /\ Goto(w, "fail")
    /\ UNCHANGED <<message, marker, jobs, sweep, aged, budgets, requeues, cause>>

(***************************************************************************)
(* What the job writes down.  All writes are by id and unconditional.      *)
(***************************************************************************)
\* Mutant: the counter runs down.
RecordRetryDown(w) ==
    /\ worker[w].step = "retry"
    /\ message' = [message EXCEPT
                     ![worker[w].id].retryCount = worker[w].retryCount - 1]
    /\ Goto(w, "reschedule")
    /\ UNCHANGED <<marker, jobs, sweep, aged, budgets, world, requeues, cause>>

RecordRetry(w) ==
    /\ worker[w].step = "retry"
    /\ message' = [message EXCEPT
                     ![worker[w].id].retryCount = worker[w].retryCount + 1]
    /\ Goto(w, "reschedule")
    /\ UNCHANGED <<marker, jobs, sweep, aged, budgets, world, requeues, cause>>

Reschedule(w) ==
    /\ worker[w].step = "reschedule"
    /\ \E landed \in {0, 1} :
          jobs' = [jobs EXCEPT ![worker[w].id] = @ + landed]
    /\ Finish(w)
    /\ UNCHANGED <<message, marker, sweep, aged, budgets, world, requeues, cause>>

\* failMessage: the timestamps written are the copy's, plus "failed".
FailMessage(w) ==
    LET m == worker[w].id IN
    /\ worker[w].step = "fail"
    /\ message' = [message EXCEPT ![m].status = "FAILED",
                                  ![m].requeuedAt = worker[w].requeuedAt]
    /\ Finish(w)
    /\ UNCHANGED <<marker, jobs, sweep, aged, budgets, world, requeues, cause>>

\* Mutant: bookkeeping that fails takes the send-failure path (D-25).
RecordAcceptanceOrFail(w) ==
    LET m == worker[w].id IN
    /\ worker[w].step = "record"
    /\ \/ /\ message' = [message EXCEPT ![m].status = "ACCEPTED",
                                        ![m].wamid = TRUE,
                                        ![m].requeuedAt = worker[w].requeuedAt]
          /\ Finish(w)
       \/ /\ Goto(w, "fail")
          /\ UNCHANGED message
    /\ UNCHANGED <<marker, jobs, sweep, aged, budgets, world, requeues, cause>>

\* The wamid write, or its failure after withRetry gave up.
RecordAcceptance(w) ==
    LET m == worker[w].id IN
    /\ worker[w].step = "record"
    /\ \/ /\ message' = [message EXCEPT ![m].status = "ACCEPTED",
                                        ![m].wamid = TRUE,
                                        ![m].requeuedAt = worker[w].requeuedAt]
          /\ Finish(w)
       \/ /\ Goto(w, "mark")
          /\ UNCHANGED message
    /\ UNCHANGED <<marker, jobs, sweep, aged, budgets, world, requeues, cause>>

\* markAcceptedOutOfBand: the kv write, or its failure, which is only logged.
MarkAccepted(w) ==
    LET m == worker[w].id IN
    /\ worker[w].step = "mark"
    /\ \/ /\ marker' = [marker EXCEPT ![m] = TRUE]
          /\ UNCHANGED cause
       \/ /\ cause' = Add(m, "unrecorded")
          /\ UNCHANGED marker
    /\ Finish(w)
    /\ UNCHANGED <<message, jobs, sweep, aged, budgets, world, requeues>>

\* The process dies, the 60 s limit kills it, or a patch outside the
\* acceptance block throws.  retryLimit is 0: the job does not come back.
Crash(w) ==
    /\ worker[w].step # "idle"
    /\ Finish(w)
    /\ cause' = IF worker[w].unrecorded THEN Add(worker[w].id, "crash")
                ELSE cause
    /\ UNCHANGED <<message, marker, jobs, sweep, aged, budgets, world, requeues>>

-----------------------------------------------------------------------------
(***************************************************************************)
(* The stuck-message sweep: one read, then one or two awaited writes per   *)
(* row of the list that was read.                                          *)
(***************************************************************************)
\* Mutant: rows already re-enqueued are no longer listed.
StuckOnce == {m \in aged : message[m].status = "QUEUED" /\ ~message[m].requeuedAt}

Stuck == {m \in aged : message[m].status = "QUEUED"}

Lesser(a, b) == IF a < b THEN a ELSE b

SweepRead ==
    /\ sweep = NoSweep
    /\ Stuck # {}
    /\ \E page \in SUBSET Stuck :
          /\ Cardinality(page) = Lesser(SweepLimit, Cardinality(Stuck))
          /\ sweep' = [NoSweep EXCEPT !.todo =
                {[id |-> m, requeuedAt |-> message[m].requeuedAt] : m \in page}]
    /\ UNCHANGED <<message, marker, jobs, worker, aged, budgets, world,
                   requeues, cause>>

\* Mutant: the re-enqueue is not recorded on the row.
SweepRequeueUnmarked(row) ==
    /\ row \in sweep.todo
    /\ sweep.enqueue = NoMessage
    /\ ~row.requeuedAt
    /\ requeues' = [requeues EXCEPT ![row.id] = @ + 1]
    /\ sweep' = [todo |-> sweep.todo \ {row}, enqueue |-> row.id]
    /\ UNCHANGED <<message, marker, jobs, worker, aged, budgets, world, cause>>

\* stuckAction = requeue: requeuedAt is patched first, then the job enqueued.
SweepRequeue(row) ==
    /\ row \in sweep.todo
    /\ sweep.enqueue = NoMessage
    /\ ~row.requeuedAt
    /\ message' = [message EXCEPT ![row.id].requeuedAt = TRUE]
    /\ requeues' = [requeues EXCEPT ![row.id] = @ + 1]
    /\ sweep' = [todo |-> sweep.todo \ {row}, enqueue |-> row.id]
    /\ UNCHANGED <<marker, jobs, worker, aged, budgets, world, cause>>

SweepEnqueue ==
    /\ sweep.enqueue # NoMessage
    /\ \E landed \in {0, 1} :
          jobs' = [jobs EXCEPT ![sweep.enqueue] = @ + landed]
    /\ sweep' = [sweep EXCEPT !.enqueue = NoMessage]
    /\ UNCHANGED <<message, marker, worker, aged, budgets, world, requeues, cause>>

\* stuckAction = fail, on the strength of the row as it was when listed.
SweepFail(row) ==
    /\ row \in sweep.todo
    /\ sweep.enqueue = NoMessage
    /\ row.requeuedAt
    /\ message' = [message EXCEPT ![row.id].status = "FAILED",
                                  ![row.id].requeuedAt = TRUE]
    /\ sweep' = [sweep EXCEPT !.todo = @ \ {row}]
    /\ cause' = IF copies[row.id] > 0 \/ InFlight(row.id) # {}
                THEN Add(row.id, "swept") ELSE cause
    /\ UNCHANGED <<marker, jobs, worker, aged, budgets, world, requeues>>

\* A patch throws, or the health check runs out of its 60 s.
SweepAbort ==
    /\ sweep # NoSweep
    /\ sweepAborts < MaxSweepAborts
    /\ sweepAborts' = sweepAborts + 1
    /\ sweep' = NoSweep
    /\ UNCHANGED <<message, marker, jobs, worker, aged, redeliveries, world,
                   requeues, cause>>

-----------------------------------------------------------------------------
Init ==
    /\ message = [m \in Messages |-> [status |-> "NONE", wamid |-> FALSE,
                                      retryCount |-> 0, requeuedAt |-> FALSE]]
    /\ marker = [m \in Messages |-> FALSE]
    /\ jobs = [m \in Messages |-> 0]
    /\ worker = [w \in Workers |-> Idle]
    /\ sweep = NoSweep
    /\ aged = {}
    /\ redeliveries = 0
    /\ sweepAborts = 0
    /\ copies = [m \in Messages |-> 0]
    /\ attempts = [m \in Messages |-> 0]
    /\ requeues = [m \in Messages |-> 0]
    /\ cause = [m \in Messages |-> {}]

SenderStep(w) ==
    \/ \E m \in Messages : StartJob(w, m)
    \/ ReadMarker(w)
    \/ Gate(w)
    \/ SendAccepted(w)
    \/ \E took \in BOOLEAN : SendUnanswered(w, took)
    \/ \E took \in BOOLEAN : SendBroken(w, took)
    \/ SendThrottled(w)
    \/ SendRefused(w)
    \/ RecordRetry(w)
    \/ Reschedule(w)
    \/ FailMessage(w)
    \/ RecordAcceptance(w)
    \/ MarkAccepted(w)
    \/ Crash(w)

SweepStep ==
    \/ \E row \in sweep.todo : SweepRequeue(row)
    \/ SweepEnqueue
    \/ \E row \in sweep.todo : SweepFail(row)

Next ==
    \/ \E m \in Messages : QueueOutbound(m)
    \/ \E m \in Messages : Age(m)
    \/ \E w \in Workers : SenderStep(w)
    \/ SweepRead
    \/ SweepStep
    \/ SweepAbort

Spec == Init /\ [][Next]_vars

(***************************************************************************)
(* The only fairness: time passes, and the hourly cron runs and finishes   *)
(* (but for MaxSweepAborts times).  Nothing is assumed of the job queue.   *)
(***************************************************************************)
Fairness ==
    /\ \A m \in Messages : WF_vars(Age(m))
    /\ WF_vars(SweepRead \/ SweepStep)

FairSpec == Spec /\ Fairness

-----------------------------------------------------------------------------
TypeOK ==
    /\ message \in [Messages -> MessageRow]
    /\ marker \in [Messages -> BOOLEAN]
    /\ jobs \in [Messages -> Nat]
    /\ worker \in [Workers -> WorkerState]
    /\ sweep \in [todo : SUBSET StuckRow, enqueue : Messages \union {NoMessage}]
    /\ aged \subseteq Messages
    /\ redeliveries \in 0..MaxRedeliveries
    /\ sweepAborts \in 0..MaxSweepAborts
    /\ copies \in [Messages -> Nat]
    /\ attempts \in [Messages -> Nat]
    /\ requeues \in [Messages -> Nat]
    /\ cause \in [Messages -> SUBSET Causes]

(***************************************************************************)
(* A second copy never comes out of the guards themselves: whenever a      *)
(* message reached its recipient twice, a request Meta took went           *)
(* unanswered at the transport, its record was lost (crash, or row and kv  *)
(* both failing), the marker could not be read, or two jobs overlapped.    *)
(***************************************************************************)
SecondCopyHasACause ==
    \A m \in Messages :
        copies[m] > 1 => cause[m] \intersect
            {"reset", "crash", "unrecorded", "blind", "overlap"} # {}

(***************************************************************************)
(* Bookkeeping that fails after Meta accepted never turns the message into *)
(* a failure (wa-outbound-sender, D-25): a delivered message is reported   *)
(* FAILED only for one of the named faults, not because a write failed.    *)
(***************************************************************************)
DeliveredFailureHasACause ==
    \A m \in Messages :
        copies[m] > 0 /\ message[m].status = "FAILED" => cause[m] # {}

(***************************************************************************)
(* The sweep re-enqueues a message at most once in its life, although      *)
(* senders write back the copy of requeuedAt they read before the sweep    *)
(* set it (stuckAction, health check).                                     *)
(***************************************************************************)
RequeuedAtMostOnce == \A m \in Messages : requeues[m] <= 1

(***************************************************************************)
(* MAX_SEND_ATTEMPTS bounds the requests written to Meta for a message:    *)
(* one first attempt and one per recorded retry, plus one for each further *)
(* job the sweep or a redelivery gave it, since an attempt whose job died  *)
(* was not counted on the row.  Two overlapping jobs escape the bound:     *)
(* each writes retryCount from its own copy.                               *)
(***************************************************************************)
AttemptsBounded ==
    \A m \in Messages :
        "overlap" \notin cause[m] =>
            attempts[m] <= MaxSendAttempts + 1 + requeues[m] + redeliveries

(***************************************************************************)
(* specs/04 section 5, "Nothing sits in limbo": whatever the queue loses,  *)
(* the sweep takes every message out of QUEUED.                            *)
(***************************************************************************)
NothingInLimbo ==
    \A m \in Messages :
        message[m].status = "QUEUED" ~> message[m].status # "QUEUED"
=============================================================================

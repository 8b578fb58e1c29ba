-------------------------- MODULE DeliveryReceipts --------------------------
(***************************************************************************)
(* Meta's delivery receipts (wa-status-processor): batches of statuses are *)
(* applied to a copy of the message rows read once per batch, orphans are  *)
(* deferred, and status moves are mirrored onto the campaign recipients,   *)
(* where the sender is writing too.                                        *)
(*                                                                         *)
(* The queue is a set: two queued copies of one job count as one.  Error   *)
(* codes, cost, metrics and the campaign-change hint are left out, as are  *)
(* the receipts whose status word is unknown, which change nothing.        *)
(***************************************************************************)
EXTENDS StatusMachine, Sequences, FiniteSets, SequencesExt

CONSTANTS
    Messages,           \* outbound campaign messages, one recipient each
    Events,             \* webhook events that carry receipts
    Workers,            \* processor jobs that can run at the same time
    Batches,            \* the batches Meta can send: sequences of receipts
    MaxOrphanAttempts,  \* MAX_ORPHAN_ATTEMPTS
    MaxAborts           \* bound: processor runs that throw or die

Receipt == [id : Messages, status : ReceiptStatus]

ASSUME DeliveryReceiptsAssumption ==
    /\ Batches \subseteq Seq(Receipt)
    /\ MaxOrphanAttempts \in Nat
    /\ MaxAborts \in Nat

VARIABLES
    message,    \* the whatsappMessage row
    recipient,  \* the status of the campaign recipient linked to the message
    sender,     \* where the sender job of the message is
    event,      \* processingStatus of the webhook event
    batch,      \* the receipts of the event
    queue,      \* processor jobs enqueued
    worker,     \* the running processor jobs
    aborts,     \* aborted runs so far
    applied,    \* history: receipts written to the row
    dropped,    \* history: receipts of an event that were given up
    cause       \* history: what the message has been exposed to

vars == <<message, recipient, sender, event, batch, queue, worker, aborts,
          applied, dropped, cause>>

Row == [status : MessageStatus, stamps : SUBSET ReceiptStatus]

Absent == [status |-> "QUEUED", stamps |-> {}]

RecipientStatus == {"QUEUED", "SENT", "DELIVERED", "READ", "FAILED"}

\* Mutant: PLAYED is not a recipient status.
MirrorPlayed == [s \in MessageStatus |->
                    IF s \in {"QUEUED", "ACCEPTED"} THEN "QUEUED" ELSE s]

\* RECIPIENT_MIRROR, and QUEUED for what the sender itself writes.
Mirror == [s \in MessageStatus |->
              CASE s \in {"QUEUED", "ACCEPTED"} -> "QUEUED"
                [] s = "PLAYED" -> "READ"
                [] OTHER -> s]

Job == [event : Events, tracked : BOOLEAN, batch : Seq(Receipt), attempt : Nat]

Causes == {"overlap",  \* two processor jobs held receipts of the message
           "batched",  \* one batch held two receipts of it
           "aborted",  \* a run died between the row and the mirror
           "late"}     \* the sender mirrored QUEUED after a receipt had

NoJob == [step |-> "idle"]

IdsOf(b) == {b[i].id : i \in DOMAIN b}

Known(m) == sender[m] # "sending"

\* The messages whose row a running job may still write, or mirror.
Holds(w, m) == worker[w] # NoJob /\ m \in IdsOf(worker[w].job.batch)

-----------------------------------------------------------------------------
(***************************************************************************)
(* The sender, after Meta accepted: the row with its wamid, then, behind   *)
(* two more awaits, the recipient.  The mirror is best effort.             *)
(***************************************************************************)
RecordWamid(m) ==
    /\ sender[m] = "sending"
    /\ message' = [message EXCEPT ![m].status = "ACCEPTED"]
    /\ sender' = [sender EXCEPT ![m] = "accepted"]
    /\ UNCHANGED <<recipient, event, batch, queue, worker, aborts, applied,
                   dropped, cause>>

MirrorQueued(m) ==
    /\ sender[m] = "accepted"
    /\ sender' = [sender EXCEPT ![m] = "done"]
    /\ \/ /\ recipient' = [recipient EXCEPT ![m] = "QUEUED"]
          /\ cause' = IF recipient[m] = "QUEUED" THEN cause
                      ELSE [cause EXCEPT ![m] = @ \union {"late"}]
       \/ UNCHANGED <<recipient, cause>>
    /\ UNCHANGED <<message, event, batch, queue, worker, aborts, applied, dropped>>

(***************************************************************************)
(* Meta sends a batch; the ingest records the event and enqueues the job.  *)
(* (The enqueue that fails is the subject of another module.)              *)
(***************************************************************************)
Deliver(e, b) ==
    /\ event[e] = "NONE"
    /\ event' = [event EXCEPT ![e] = "RECEIVED"]
    /\ batch' = [batch EXCEPT ![e] = b]
    /\ queue' = queue \union
                  {[event |-> e, tracked |-> TRUE, batch |-> b, attempt |-> 0]}
    /\ UNCHANGED <<message, recipient, sender, worker, aborts, applied, dropped,
                   cause>>

(***************************************************************************)
(* The processor.                                                          *)
(***************************************************************************)
Overlaps(w, b) == {m \in IdsOf(b) : \E v \in Workers \ {w} : Holds(v, m)}
Repeats(b)     == {m \in IdsOf(b) : \E i, j \in DOMAIN b :
                                       i # j /\ b[i].id = m /\ b[j].id = m}

\* One query reads every row of the batch.
StartBatch(w, job) ==
    /\ worker[w] = NoJob
    /\ job \in queue
    /\ queue' = queue \ {job}
    /\ worker' = [worker EXCEPT ![w] =
           [step |-> "apply", job |-> job, todo |-> job.batch, orphans |-> <<>>,
            expired |-> {}, moves |-> <<>>,
            copy |-> [m \in {i \in IdsOf(job.batch) : Known(i)} |-> message[m]]]]
    /\ cause' = [m \in Messages |->
           cause[m] \union (IF m \in Overlaps(w, job.batch) THEN {"overlap"} ELSE {})
                    \union (IF m \in Repeats(job.batch) THEN {"batched"} ELSE {})]
    /\ UNCHANGED <<message, recipient, sender, event, batch, aborts, applied, dropped>>

\* A wamid the query did not find: an orphan, kept for later inside the grace
\* window (isRecentEnoughToRetry), expired outside it.
SetAside(w) ==
    /\ worker[w].step = "apply"
    /\ worker[w].todo # <<>>
    /\ LET r == Head(worker[w].todo) IN
       /\ r.id \notin DOMAIN worker[w].copy
       /\ \/ worker' = [worker EXCEPT ![w].todo = Tail(@),
                                      ![w].orphans = Append(@, r)]
          \/ worker' = [worker EXCEPT ![w].todo = Tail(@),
                                      ![w].expired = @ \union {r}]
    /\ UNCHANGED <<message, recipient, sender, event, batch, queue, aborts,
                   applied, dropped, cause>>

\* moves is the Map from recipient status to message ids, in insertion order.
AddMove(moves, status, m) ==
    IF \E i \in DOMAIN moves : moves[i].status = status
    THEN [i \in DOMAIN moves |->
             IF moves[i].status = status
             THEN [moves[i] EXCEPT !.ids = @ \union {m}] ELSE moves[i]]
    ELSE Append(moves, [status |-> status, ids |-> {m}])

\* Mutant: the mirror list takes the receipts that did not move the status.
ApplyReceiptMirrorAll(w) ==
    /\ worker[w].step = "apply"
    /\ worker[w].todo # <<>>
    /\ LET r == Head(worker[w].todo)
           current == worker[w].copy[r.id].status
           next == AdvanceStatus(current, r.status)
       IN
       /\ r.id \in DOMAIN worker[w].copy
       /\ message' = [message EXCEPT
              ![r.id].stamps = worker[w].copy[r.id].stamps \union {r.status},
              ![r.id].status = IF next # current THEN next ELSE @]
       /\ applied' = [applied EXCEPT ![r.id] = @ \union {r.status}]
       /\ worker' = [worker EXCEPT ![w].todo = Tail(@),
              ![w].moves = AddMove(@, Mirror[r.status], r.id)]
    /\ UNCHANGED <<recipient, sender, event, batch, queue, aborts, dropped, cause>>

\* Mutant: only a receipt that moves the status is time-stamped.
ApplyReceiptStampMoves(w) ==
    /\ worker[w].step = "apply"
    /\ worker[w].todo # <<>>
    /\ LET r == Head(worker[w].todo)
           current == worker[w].copy[r.id].status
           next == AdvanceStatus(current, r.status)
       IN
       /\ r.id \in DOMAIN worker[w].copy
       /\ message' = IF next = current THEN message ELSE [message EXCEPT
              ![r.id].stamps = worker[w].copy[r.id].stamps \union {r.status},
              ![r.id].status = next]
       /\ applied' = [applied EXCEPT ![r.id] = @ \union {r.status}]
       /\ worker' = [worker EXCEPT ![w].todo = Tail(@),
              ![w].moves = IF next # current THEN AddMove(@, Mirror[r.status], r.id)
                           ELSE @]
    /\ UNCHANGED <<recipient, sender, event, batch, queue, aborts, dropped, cause>>

\* One patch per receipt, computed from the copy: the copy is not refreshed
\* by the patch, and the status column is written only if the copy moves.
ApplyReceipt(w) ==
    /\ worker[w].step = "apply"
    /\ worker[w].todo # <<>>
    /\ LET r == Head(worker[w].todo)
           current == worker[w].copy[r.id].status
           next == AdvanceStatus(current, r.status)
       IN
       /\ r.id \in DOMAIN worker[w].copy
       /\ message' = [message EXCEPT
              ![r.id].stamps = worker[w].copy[r.id].stamps \union {r.status},
              ![r.id].status = IF next # current THEN next ELSE @]
       /\ applied' = [applied EXCEPT ![r.id] = @ \union {r.status}]
       /\ worker' = [worker EXCEPT ![w].todo = Tail(@),
              ![w].moves = IF next # current THEN AddMove(@, Mirror[r.status], r.id)
                           ELSE @]
    /\ UNCHANGED <<recipient, sender, event, batch, queue, aborts, dropped, cause>>

\* mirrorToRecipients: one bulk write per recipient status.
MirrorMoves(w) ==
    /\ worker[w].step = "apply"
    /\ worker[w].todo = <<>>
    /\ worker[w].moves # <<>>
    /\ LET move == Head(worker[w].moves) IN
       recipient' = [m \in Messages |->
                        IF m \in move.ids THEN move.status ELSE recipient[m]]
    /\ worker' = [worker EXCEPT ![w].moves = Tail(@)]
    /\ UNCHANGED <<message, sender, event, batch, queue, aborts, applied,
                   dropped, cause>>

Given(job, receipts) == {<<job.event, r>> : r \in receipts}

\* orphansToDefer: the recent ones, below the attempt cap.
OrphansToDefer(w) ==
    IF worker[w].job.attempt >= MaxOrphanAttempts THEN <<>>
    ELSE worker[w].orphans

\* Mutant (D-30): orphans inside the grace window are forgotten.
DeferOrphansNever(w) ==
    /\ worker[w].step = "apply"
    /\ worker[w].todo = <<>>
    /\ worker[w].moves = <<>>
    /\ worker' = [worker EXCEPT ![w] =
                     [step |-> "mark", job |-> worker[w].job, handedOn |-> TRUE]]
    /\ UNCHANGED <<message, recipient, sender, event, batch, queue, aborts,
                   applied, dropped, cause>>

\* Those inside the grace window go to one later job that does not know the
\* webhook event; the enqueue may be refused.  The others are dropped.
DeferOrphans(w) ==
    /\ worker[w].step = "apply"
    /\ worker[w].todo = <<>>
    /\ worker[w].moves = <<>>
    /\ LET job == worker[w].job
           deferred == OrphansToDefer(w)
           expired == Given(job, worker[w].expired \union
                                   (ToSet(worker[w].orphans) \ ToSet(deferred)))
       IN
       \/ /\ queue' = IF deferred = <<>> THEN queue
                      ELSE queue \union {[event |-> job.event, tracked |-> FALSE,
                             batch |-> deferred, attempt |-> job.attempt + 1]}
          /\ dropped' = dropped \union expired
          /\ worker' = [worker EXCEPT ![w] =
                           [step |-> "mark", job |-> job, handedOn |-> TRUE]]
       \/ /\ deferred # <<>>
          /\ dropped' = dropped \union expired \union
                 (IF job.tracked THEN {} ELSE Given(job, ToSet(deferred)))
          /\ worker' = [worker EXCEPT ![w] =
                           [step |-> "mark", job |-> job, handedOn |-> FALSE]]
          /\ UNCHANGED queue
    /\ UNCHANGED <<message, recipient, sender, event, batch, aborts, applied, cause>>

\* Only the job that carries the event's id marks the event.
MarkEvent(w) ==
    /\ worker[w].step = "mark"
    /\ event' = IF worker[w].job.tracked
                THEN [event EXCEPT ![worker[w].job.event] =
                         IF worker[w].handedOn THEN "PROCESSED" ELSE "FAILED"]
                ELSE event
    /\ worker' = [worker EXCEPT ![w] = NoJob]
    /\ UNCHANGED <<message, recipient, sender, batch, queue, aborts, applied,
                   dropped, cause>>

\* A call throws, or the process dies: the handler's catch marks the event
\* FAILED if it gets that far, and the queue runs the job again from the
\* start or gives it up (retryLimit).
Unmirrored(w) == UNION {worker[w].moves[i].ids : i \in DOMAIN worker[w].moves}

Abort(w) ==
    LET job == worker[w].job IN
    /\ worker[w] # NoJob
    /\ aborts < MaxAborts
    /\ aborts' = aborts + 1
    /\ \/ /\ job.tracked
          /\ event' = [event EXCEPT ![job.event] = "FAILED"]
       \/ UNCHANGED event
    /\ \/ /\ queue' = queue \union {job}
          /\ UNCHANGED dropped
       \/ /\ dropped' = dropped \union Given(job, ToSet(job.batch))
          /\ UNCHANGED queue
    /\ cause' = [m \in Messages |->
           IF worker[w].step = "apply" /\ m \in Unmirrored(w)
           THEN cause[m] \union {"aborted"} ELSE cause[m]]
    /\ worker' = [worker EXCEPT ![w] = NoJob]
    /\ UNCHANGED <<message, recipient, sender, batch, applied>>

-----------------------------------------------------------------------------
Init ==
    /\ message = [m \in Messages |-> Absent]
    /\ recipient = [m \in Messages |-> "QUEUED"]
    /\ sender = [m \in Messages |-> "sending"]
    /\ event = [e \in Events |-> "NONE"]
    /\ batch = [e \in Events |-> <<>>]
    /\ queue = {}
    /\ worker = [w \in Workers |-> NoJob]
    /\ aborts = 0
    /\ applied = [m \in Messages |-> {}]
    /\ dropped = {}
    /\ cause = [m \in Messages |-> {}]

SenderStep == \E m \in Messages : RecordWamid(m) \/ MirrorQueued(m)

ProcessorStep(w) ==
    \/ \E job \in queue : StartBatch(w, job)
    \/ SetAside(w)
    \/ ApplyReceipt(w)
    \/ MirrorMoves(w)
    \/ DeferOrphans(w)
    \/ MarkEvent(w)

Next ==
    \/ SenderStep
    \/ \E e \in Events, b \in Batches : Deliver(e, b)
    \/ \E w \in Workers : ProcessorStep(w) \/ Abort(w)

Spec == Init /\ [][Next]_vars
-----------------------------------------------------------------------------
TypeOK ==
    /\ message \in [Messages -> Row]
    /\ recipient \in [Messages -> RecipientStatus]
    /\ sender \in [Messages -> {"sending", "accepted", "done"}]
    /\ event \in [Events -> {"NONE", "RECEIVED", "PROCESSED", "FAILED"}]
    /\ batch \in [Events -> Batches \union {<<>>}]
    /\ queue \subseteq Job
    /\ \A w \in Workers : worker[w] = NoJob \/ worker[w].job \in Job
    /\ aborts \in 0..MaxAborts
    /\ applied \in [Messages -> SUBSET ReceiptStatus]
    /\ dropped \subseteq Events \X Receipt
    /\ cause \in [Messages -> SUBSET Causes]

StaleCauses == {"overlap", "batched"}

(***************************************************************************)
(* Whatever order receipts come in, the row ends up with every one of them *)
(* time-stamped and its status takes every one into account, unless two    *)
(* jobs, or two receipts of one batch, worked on the same stale copy.      *)
(***************************************************************************)
ReceiptsAreKept ==
    \A m \in Messages : cause[m] \intersect StaleCauses = {} =>
        \A s \in applied[m] : s \in message[m].stamps /\ Reflects(message[m].status, s)

(***************************************************************************)
(* A status never falls back and FAILED is never left (advanceStatus),     *)
(* with the same exception.                                                *)
(***************************************************************************)
StatusOnlyAdvances ==
    [][\A m \in Messages : cause[m] \intersect StaleCauses = {} =>
          MayFollow(message'[m].status, message[m].status)]_vars

(***************************************************************************)
(* When nothing is under way for a message, its recipient shows the        *)
(* message's status (FR-CAM-9), unless one of the four causes struck.      *)
(***************************************************************************)
RecipientAgrees ==
    \A m \in Messages :
        /\ cause[m] = {}
        /\ ~ \E w \in Workers : Holds(w, m)
        => recipient[m] = Mirror[message[m].status]

(***************************************************************************)
(* What the row and its recipient say is what the receipts said.           *)
(***************************************************************************)
ReceiptsAreTrue == ReceiptsAreKept /\ RecipientAgrees

(***************************************************************************)
(* An event marked PROCESSED has had every receipt applied, handed on to a *)
(* job that still has it, or given up: past the grace window or the attempt *)
(* cap, its deferral refused, or its job out of retries (D-30).            *)
(***************************************************************************)
InHand(e, r) ==
    \/ \E job \in queue : job.event = e /\ r \in ToSet(job.batch)
    \/ \E w \in Workers : /\ worker[w] # NoJob
                          /\ worker[w].job.event = e
                          /\ r \in ToSet(worker[w].job.batch)

ProcessedMeansHandled ==
    \A e \in Events : event[e] = "PROCESSED" =>
        \A r \in ToSet(batch[e]) :
            \/ r.status \in applied[r.id]
            \/ InHand(e, r)
            \/ <<e, r>> \in dropped

(***************************************************************************)
(* The claim of status-machine.ts:7-8, "strictly monotonic by rank", and   *)
(* :31, "a failed message is never resurrected by a late success event".   *)
(***************************************************************************)
StrictlyMonotonic ==
    [][\A m \in Messages : MayFollow(message'[m].status, message[m].status)]_vars
=============================================================================

---------------------------- MODULE ReportsProofs ----------------------------
(***************************************************************************)
(* Proofs about DeliveryReceipts, for any receipts, jobs and limits; about *)
(* CampaignCounters, for any campaign and any number of movers and         *)
(* recounts; and about the two specifications of MCReports together.       *)
(***************************************************************************)
EXTENDS MCReports, FiniteSetTheorems, TLAPS

(***************************************************************************)
(* The inductive strengthenings.                                           *)
(***************************************************************************)
StatusMove == [status : RecipientStatus, ids : SUBSET Messages]

\* What the one query of a batch may have read.
Copies == UNION {[S -> Row] : S \in SUBSET Messages}

Applying == [step : {"apply"}, job : Job, todo : Seq(Receipt),
             orphans : Seq(Receipt), expired : SUBSET Receipt,
             moves : Seq(StatusMove), copy : Copies]

Marking == [step : {"mark"}, job : Job, handedOn : BOOLEAN]

WorkersTyped ==
    /\ DOMAIN worker = Workers
    /\ \A w \in Workers : worker[w] = NoJob \/ worker[w] \in Applying \/ worker[w] \in Marking

Applies(w) == worker[w] \in Applying

\* A message that has not been sent has no row that a query could find.
Unsent == \A m \in Messages : ~ Known(m) => message[m] = Absent /\ applied[m] = {}

\* A run copies and moves only rows of its own batch.
CopiesKnown ==
    \A w \in Workers : Applies(w) =>
        /\ \A m \in DOMAIN worker[w].copy : Known(m) /\ m \in IdsOf(worker[w].job.batch)
        /\ \A k \in DOMAIN worker[w].moves : worker[w].moves[k].ids \subseteq DOMAIN worker[w].copy
        /\ \A i \in DOMAIN worker[w].todo : worker[w].todo[i] \in ToSet(worker[w].job.batch)

\* Two runs on one message are an overlap.
OverlapNoted ==
    \A v, w \in Workers : \A m \in Messages :
        v # w /\ Holds(v, m) /\ Holds(w, m) => "overlap" \in cause[m]

\* A message that its batch does not repeat comes once in what is left of it,
\* and has not moved yet.
RepeatNoted ==
    \A w \in Workers : Applies(w) =>
        \A i \in DOMAIN worker[w].todo :
            "batched" \notin cause[worker[w].todo[i].id] =>
                /\ \A j \in DOMAIN worker[w].todo :
                      worker[w].todo[j].id = worker[w].todo[i].id => j = i
                /\ \A k \in DOMAIN worker[w].moves :
                      worker[w].todo[i].id \notin worker[w].moves[k].ids

Fresh(m) == cause[m] \intersect StaleCauses = {}

\* Without the two stale causes, what is still to be applied meets a copy that
\* is the row.
CopiesFresh ==
    \A w \in Workers : Applies(w) =>
        \A i \in DOMAIN worker[w].todo :
            LET m == worker[w].todo[i].id IN
            m \in DOMAIN worker[w].copy /\ Fresh(m) => worker[w].copy[m] = message[m]

Pending(w, m) == Applies(w) /\ \E k \in DOMAIN worker[w].moves : m \in worker[w].moves[k].ids

\* The recipient shows the status of the message, or a run is about to write it.
MirrorHolds ==
    \A m \in Messages : cause[m] = {} =>
        /\ \A w \in Workers : Applies(w) =>
              \A k \in DOMAIN worker[w].moves :
                 m \in worker[w].moves[k].ids =>
                    worker[w].moves[k].status = Mirror[message[m].status]
        /\ (\A w \in Workers : ~ Pending(w, m)) => recipient[m] = Mirror[message[m].status]

ReceiptsInv == /\ TypeOK /\ WorkersTyped
               /\ Unsent /\ CopiesKnown /\ OverlapNoted /\ RepeatNoted
               /\ CopiesFresh /\ ReceiptsAreKept /\ MirrorHolds

Held(w) == worker[w] # NoJob

JobSound(j) ==
    /\ event[j.event] # "NONE"
    /\ j.tracked => j.batch = batch[j.event] /\ j.attempt = 0

\* The job that carries the event's id is at one place.
OneTracked ==
    /\ \A j \in queue : JobSound(j)
    /\ \A w \in Workers : Held(w) => JobSound(worker[w].job)
    /\ \A v, w \in Workers : v # w /\ Held(v) /\ Held(w)
          /\ worker[v].job.tracked /\ worker[w].job.tracked
          => worker[v].job.event # worker[w].job.event
    /\ \A w \in Workers : \A j \in queue : Held(w)
          /\ worker[w].job.tracked /\ j.tracked => worker[w].job.event # j.event

\* A receipt of the batch has been applied, or is in one of the three lists.
BatchSplit ==
    \A w \in Workers : Applies(w) =>
        \A r \in ToSet(worker[w].job.batch) :
            \/ r.status \in applied[r.id]
            \/ r \in ToSet(worker[w].todo) \union ToSet(worker[w].orphans)
                       \union worker[w].expired

\* The jobs there are, queued or running.
Places == queue \union {worker[w].job : w \in {v \in Workers : Held(v)}}

\* A later job of the event has the receipt.
Further(e, r, n) ==
    \E j \in Places : j.event = e /\ j.attempt > n /\ r \in ToSet(j.batch)

\* A run that is done with its receipts leaves each of them somewhere, unless it
\* is going to mark the event FAILED.
MarkHolds ==
    \A w \in Workers : worker[w] \in Marking =>
        \/ (~ worker[w].handedOn /\ worker[w].job.tracked)
        \/ \A r \in ToSet(worker[w].job.batch) :
              \/ r.status \in applied[r.id]
              \/ <<worker[w].job.event, r>> \in dropped
              \/ Further(worker[w].job.event, r, worker[w].job.attempt)

Tracked(e) == \E j \in Places : j.event = e /\ j.tracked

Handled(e) == \A r \in ToSet(batch[e]) :
                  r.status \in applied[r.id] \/ InHand(e, r) \/ <<e, r>> \in dropped

EventHolds ==
    \A e \in Events : event[e] # "NONE" =>
        Handled(e) \/ (event[e] = "FAILED" /\ ~ Tracked(e))

HandledInv == TypeOK /\ WorkersTyped /\ OneTracked /\ BatchSplit /\ MarkHolds /\ EventHolds

-----------------------------------------------------------------------------
(***************************************************************************)
(* Types.                                                                  *)
(***************************************************************************)
(* The three shapes of a worker are told apart by its step.                *)
LEMMA Shapes ==
  ASSUME WorkersTyped, NEW w \in Workers
  PROVE  /\ worker[w].step = "apply" => Applies(w)
         /\ worker[w].step = "mark" => worker[w] \in Marking
         /\ worker[w] \in Marking => ~ Applies(w)
         /\ Applies(w) => Held(w) /\ worker[w].step = "apply"
         /\ worker[w] \in Marking => Held(w) /\ worker[w].step = "mark"
         /\ Held(w) => worker[w].job \in Job
         /\ Held(w) => Applies(w) \/ worker[w] \in Marking
<1>1. NoJob.step = "idle"
  BY DEF NoJob
<1>2. \A k \in Applying : k.step = "apply" /\ k.job \in Job
  BY DEF Applying
<1>3. \A k \in Marking : k.step = "mark" /\ k.job \in Job
  BY DEF Marking
<1>. QED  BY <1>1, <1>2, <1>3 DEF WorkersTyped, Applies, Held

(* The fields of a run that applies receipts.                              *)
LEMMA Fields ==
  ASSUME NEW w \in Workers, Applies(w)
  PROVE  /\ worker[w].job \in Job
         /\ worker[w].todo \in Seq(Receipt)
         /\ worker[w].orphans \in Seq(Receipt)
         /\ worker[w].expired \in SUBSET Receipt
         /\ worker[w].moves \in Seq(StatusMove)
         /\ worker[w].copy \in Copies
BY DEF Applies, Applying

(* The fields of a job.                                                    *)
LEMMA JobFields ==
  ASSUME NEW j \in Job
  PROVE  /\ j.event \in Events /\ j.tracked \in BOOLEAN
         /\ j.batch \in Seq(Receipt) /\ j.attempt \in Nat
BY DEF Job

(* What is read from a copy is a row of a message.                         *)
LEMMA CopyRows ==
  ASSUME NEW c \in Copies
  PROVE  /\ DOMAIN c \subseteq Messages
         /\ \A m \in DOMAIN c : c[m] \in Row
BY DEF Copies

(* The ids of a batch are messages.                                        *)
LEMMA IdsTyped ==
  ASSUME NEW b \in Seq(Receipt)
  PROVE  /\ IdsOf(b) \subseteq Messages
         /\ \A i \in DOMAIN b : b[i] \in Receipt /\ b[i].id \in IdsOf(b)
         /\ ToSet(b) \subseteq Receipt
<1>1. \A i \in DOMAIN b : b[i] \in Receipt
  OBVIOUS
<1>. QED  BY <1>1 DEF IdsOf, Receipt, ToSet

(* The head and the tail of what is left to apply.                         *)
LEMMA HeadTail ==
  ASSUME NEW S, NEW s \in Seq(S), s # <<>>
  PROVE  /\ 1 \in DOMAIN s /\ Head(s) = s[1] /\ Head(s) \in S
         /\ Tail(s) \in Seq(S)
         /\ \A i \in DOMAIN Tail(s) : i + 1 \in DOMAIN s /\ Tail(s)[i] = s[i + 1] /\ i \in Nat \ {0}
         /\ ToSet(s) = {Head(s)} \union ToSet(Tail(s))
<1>1. /\ 1 \in DOMAIN s /\ Head(s) = s[1] /\ Head(s) \in S
      /\ Tail(s) \in Seq(S)
      /\ \A i \in DOMAIN Tail(s) : i + 1 \in DOMAIN s /\ Tail(s)[i] = s[i + 1] /\ i \in Nat \ {0}
  OBVIOUS
<1>2. \A i \in DOMAIN s : i = 1 \/ (i - 1 \in DOMAIN Tail(s) /\ Tail(s)[i - 1] = s[i])
  OBVIOUS
<1>3. \A x \in ToSet(s) : x = Head(s) \/ x \in ToSet(Tail(s))
  <2>1. SUFFICES ASSUME NEW i \in DOMAIN s
                 PROVE  s[i] = Head(s) \/ s[i] \in ToSet(Tail(s))
    BY DEF ToSet
  <2>. QED  BY <1>1, <1>2 DEF ToSet
<1>4. \A x \in ToSet(Tail(s)) : x \in ToSet(s)
  <2>1. SUFFICES ASSUME NEW i \in DOMAIN Tail(s)
                 PROVE  Tail(s)[i] \in ToSet(s)
    BY DEF ToSet
  <2>. QED  BY <1>1 DEF ToSet
<1>5. Head(s) \in ToSet(s)
  BY <1>1 DEF ToSet
<1>. QED  BY <1>1, <1>3, <1>4, <1>5

(* What Append adds to the members of a list.                              *)
LEMMA Appended ==
  ASSUME NEW S, NEW s \in Seq(S), NEW x \in S
  PROVE  /\ Append(s, x) \in Seq(S)
         /\ ToSet(Append(s, x)) = ToSet(s) \union {x}
<1>1. Append(s, x) \in Seq(S) /\ DOMAIN Append(s, x) = DOMAIN s \union {Len(s) + 1}
  OBVIOUS
<1>2. /\ \A i \in DOMAIN s : Append(s, x)[i] = s[i]
      /\ Append(s, x)[Len(s) + 1] = x
  OBVIOUS
<1>. QED  BY <1>1, <1>2 DEF ToSet

(* AddMove puts the message under the status and changes nothing else.     *)
LEMMA Added ==
  ASSUME NEW moves \in Seq(StatusMove), NEW status \in RecipientStatus, NEW m \in Messages
  PROVE  LET new == AddMove(moves, status, m) IN
         /\ new \in Seq(StatusMove)
         /\ \A k \in DOMAIN moves : k \in DOMAIN new /\ moves[k].ids \subseteq new[k].ids
         /\ \E k \in DOMAIN new : m \in new[k].ids
         /\ \A k \in DOMAIN new : \A x \in new[k].ids :
               \/ x = m /\ new[k].status = status
               \/ k \in DOMAIN moves /\ x \in moves[k].ids /\ new[k].status = moves[k].status
<1>0. \A k \in DOMAIN moves : moves[k] \in StatusMove
  OBVIOUS
<1>. DEFINE new == AddMove(moves, status, m)
<1>1. CASE \E i \in DOMAIN moves : moves[i].status = status
  <2>1. new = [i \in DOMAIN moves |-> IF moves[i].status = status
                THEN [moves[i] EXCEPT !.ids = @ \union {m}] ELSE moves[i]]
    BY <1>1 DEF AddMove
  <2>. HIDE DEF new
  <2>2. \A i \in DOMAIN moves : /\ new[i] \in StatusMove
                                /\ new[i].status = moves[i].status
                                /\ new[i].ids = IF moves[i].status = status
                                                THEN moves[i].ids \union {m}
                                                ELSE moves[i].ids
    BY <2>1, <1>0 DEF StatusMove
  <2>3. DOMAIN new = 1..Len(moves)
    BY <2>1
  <2>4. new \in Seq(StatusMove)
    <3>1. new \in [1..Len(moves) -> StatusMove]
      BY <2>1, <2>2
    <3>2. Len(moves) \in Nat
      OBVIOUS
    <3>. QED  BY <3>1, <3>2
  <2>. QED  BY <1>1, <2>1, <2>2, <2>4 DEF new
<1>2. CASE ~ \E i \in DOMAIN moves : moves[i].status = status
  <2>. DEFINE fresh == [status |-> status, ids |-> {m}]
  <2>1. new = Append(moves, fresh)
    BY <1>2 DEF AddMove
  <2>2. fresh \in StatusMove /\ fresh.status = status /\ fresh.ids = {m}
    BY DEF StatusMove
  <2>. HIDE DEF new, fresh
  <2>3. /\ new \in Seq(StatusMove)
        /\ DOMAIN new = DOMAIN moves \union {Len(moves) + 1}
        /\ \A i \in DOMAIN moves : new[i] = moves[i]
        /\ new[Len(moves) + 1] = fresh
    BY <2>1, <2>2
  <2>. QED  BY <2>2, <2>3 DEF new
<1>. QED  BY <1>1, <1>2

(* What the status machine answers is a status, and the recipient has one  *)
(* that mirrors it.                                                        *)
LEMMA AdvanceTyped ==
  ASSUME NEW c \in MessageStatus, NEW s \in ReceiptStatus
  PROVE  /\ AdvanceStatus(c, s) \in MessageStatus
         /\ Mirror[c] \in RecipientStatus
         /\ s \in MessageStatus
         /\ AdvanceStatus(c, s) # c => AdvanceStatus(c, s) = s
BY DEF AdvanceStatus, MessageStatus, ReceiptStatus, Mirror, RecipientStatus

TypeInv == TypeOK /\ WorkersTyped

(* A step of one worker leaves the others typed.                           *)
LEMMA WorkerStep ==
  ASSUME WorkersTyped, NEW w \in Workers, NEW k,
         k = NoJob \/ k \in Applying \/ k \in Marking,
         worker' = [worker EXCEPT ![w] = k]
  PROVE  /\ WorkersTyped'
         /\ worker'[w] = k
         /\ \A u \in Workers : u # w => worker'[u] = worker[u]
BY DEF WorkersTyped

(* What is left of the type invariant follows from the workers'.           *)
LEMMA JobsTyped ==
  ASSUME WorkersTyped
  PROVE  \A w \in Workers : worker[w] = NoJob \/ worker[w].job \in Job
BY Shapes DEF Held

(* A run that starts has typed fields.                                     *)
LEMMA StartTyped ==
  ASSUME TypeOK, NEW job \in Job
  PROVE  [step |-> "apply", job |-> job, todo |-> job.batch, orphans |-> <<>>,
          expired |-> {}, moves |-> <<>>,
          copy |-> [m \in {i \in IdsOf(job.batch) : Known(i)} |-> message[m]]] \in Applying
<1>. DEFINE S == {i \in IdsOf(job.batch) : Known(i)}
            c == [m \in S |-> message[m]]
<1>1. S \in SUBSET Messages
  BY JobFields, IdsTyped
<1>2. c \in [S -> Row]
  BY <1>1 DEF TypeOK
<1>3. c \in Copies
  BY <1>1, <1>2 DEF Copies
<1>4. <<>> \in Seq(Receipt) /\ <<>> \in Seq(StatusMove) /\ job.batch \in Seq(Receipt)
  BY JobFields
<1>. HIDE DEF c
<1>5. [step |-> "apply", job |-> job, todo |-> job.batch, orphans |-> <<>>,
       expired |-> {}, moves |-> <<>>, copy |-> c] \in Applying
  BY <1>3, <1>4 DEF Applying
<1>. QED  BY <1>5 DEF c

(* SetAside moves one receipt from one list to another.                    *)
LEMMA SetAsideFields ==
  ASSUME WorkersTyped, NEW w \in Workers, SetAside(w)
  PROVE  /\ Applies(w) /\ worker'[w] \in Applying /\ WorkersTyped'
         /\ \A u \in Workers : u # w => worker'[u] = worker[u]
         /\ worker'[w].job = worker[w].job
         /\ worker'[w].moves = worker[w].moves
         /\ worker'[w].copy = worker[w].copy
         /\ worker[w].todo \in Seq(Receipt) /\ worker[w].todo # <<>>
         /\ worker'[w].todo = Tail(worker[w].todo)
         /\ Head(worker[w].todo).id \notin DOMAIN worker[w].copy
         /\ ToSet(worker'[w].orphans) \union worker'[w].expired
              = ToSet(worker[w].orphans) \union worker[w].expired
                  \union {Head(worker[w].todo)}
<1>. DEFINE k == worker[w]
            r == Head(k.todo)
            a == [k EXCEPT !.todo = Tail(k.todo), !.orphans = Append(k.orphans, r)]
            b == [k EXCEPT !.todo = Tail(k.todo), !.expired = k.expired \union {r}]
<1>1. /\ Applies(w) /\ k.step = "apply" /\ k.todo # <<>>
      /\ r.id \notin DOMAIN k.copy
      /\ worker' = [worker EXCEPT ![w] = a] \/ worker' = [worker EXCEPT ![w] = b]
  BY Shapes DEF SetAside, WorkersTyped
<1>2. k \in Applying
  BY <1>1 DEF Applies
<1>3. k.todo \in Seq(Receipt) /\ k.orphans \in Seq(Receipt) /\ k.expired \in SUBSET Receipt
  BY <1>1, Fields
<1>4. r \in Receipt /\ Tail(k.todo) \in Seq(Receipt)
  BY <1>1, <1>3, HeadTail
<1>5. /\ Append(k.orphans, r) \in Seq(Receipt)
      /\ ToSet(Append(k.orphans, r)) = ToSet(k.orphans) \union {r}
  BY <1>3, <1>4, Appended
<1>. HIDE DEF k, r
<1>6. /\ a \in Applying /\ a.job = k.job /\ a.moves = k.moves /\ a.copy = k.copy
      /\ a.todo = Tail(k.todo) /\ a.orphans = Append(k.orphans, r) /\ a.expired = k.expired
  BY <1>2, <1>3, <1>4, <1>5 DEF Applying
<1>7. /\ b \in Applying /\ b.job = k.job /\ b.moves = k.moves /\ b.copy = k.copy
      /\ b.todo = Tail(k.todo) /\ b.orphans = k.orphans /\ b.expired = k.expired \union {r}
  BY <1>2, <1>3, <1>4, <1>5 DEF Applying
<1>. HIDE DEF a, b
<1>8. \/ WorkersTyped' /\ worker'[w] = a /\ \A u \in Workers : u # w => worker'[u] = worker[u]
      \/ WorkersTyped' /\ worker'[w] = b /\ \A u \in Workers : u # w => worker'[u] = worker[u]
  BY <1>1, <1>6, <1>7, WorkerStep
<1>. QED  BY <1>1, <1>3, <1>5, <1>6, <1>7, <1>8 DEF k, r

(* ApplyReceipt writes one receipt to one row, from the copy.              *)
LEMMA ApplyFields ==
  ASSUME TypeOK, WorkersTyped, NEW w \in Workers, ApplyReceipt(w)
  PROVE  LET k == worker[w]
             r == Head(k.todo)
             m == r.id
             current == k.copy[m].status
             next == AdvanceStatus(current, r.status)
         IN
         /\ Applies(w) /\ worker'[w] \in Applying /\ WorkersTyped'
         /\ \A u \in Workers : u # w => worker'[u] = worker[u]
         /\ k.todo \in Seq(Receipt) /\ k.todo # <<>> /\ r \in Receipt
         /\ m \in Messages /\ m \in DOMAIN k.copy /\ k.copy[m] \in Row
         /\ r.status \in ReceiptStatus /\ current \in MessageStatus
         /\ worker'[w].job = k.job /\ worker'[w].copy = k.copy
         /\ worker'[w].todo = Tail(k.todo)
         /\ worker'[w].orphans = k.orphans /\ worker'[w].expired = k.expired
         /\ worker'[w].moves = IF next # current
                               THEN AddMove(k.moves, Mirror[r.status], m) ELSE k.moves
         /\ message' \in [Messages -> Row]
         /\ message'[m].stamps = k.copy[m].stamps \union {r.status}
         /\ message'[m].status = IF next # current THEN next ELSE message[m].status
         /\ \A n \in Messages : n # m => message'[n] = message[n]
         /\ applied' = [applied EXCEPT ![m] = @ \union {r.status}]
<1>. DEFINE k == worker[w]
            r == Head(k.todo)
            m == r.id
            current == k.copy[m].status
            next == AdvanceStatus(current, r.status)
            mv == IF next # current THEN AddMove(k.moves, Mirror[r.status], m) ELSE k.moves
            a == [k EXCEPT !.todo = Tail(k.todo), !.moves = mv]
            row == [message[m] EXCEPT !.stamps = k.copy[m].stamps \union {r.status},
                                      !.status = IF next # current THEN next ELSE message[m].status]
<1>1. /\ k.step = "apply" /\ k.todo # <<>> /\ m \in DOMAIN k.copy /\ Applies(w)
      /\ worker' = [worker EXCEPT ![w] = a]
  BY Shapes DEF ApplyReceipt, WorkersTyped
<1>2. k \in Applying
  BY <1>1 DEF Applies
<1>3. k.todo \in Seq(Receipt) /\ k.moves \in Seq(StatusMove) /\ k.copy \in Copies
  BY <1>1, Fields
<1>4. r \in Receipt /\ Tail(k.todo) \in Seq(Receipt)
  BY <1>1, <1>3, HeadTail
<1>5. m \in Messages /\ r.status \in ReceiptStatus
  BY <1>4 DEF Receipt
<1>6. k.copy[m] \in Row
  BY <1>1, <1>3, CopyRows
<1>7. current \in MessageStatus /\ k.copy[m].stamps \in SUBSET ReceiptStatus
  BY <1>6 DEF Row
<1>8. message' = [message EXCEPT ![m] = row]
  BY <1>5 DEF ApplyReceipt, TypeOK
<1>. HIDE DEF k, r, m, current
<1>9. /\ next \in MessageStatus /\ r.status \in MessageStatus
      /\ Mirror[r.status] \in RecipientStatus
  BY <1>5, <1>7, AdvanceTyped
<1>10. mv \in Seq(StatusMove)
  <2>1. AddMove(k.moves, Mirror[r.status], m) \in Seq(StatusMove)
    BY <1>3, <1>5, <1>9, Added
  <2>. QED  BY <2>1, <1>3
<1>. HIDE DEF mv, next
<1>11. /\ a \in Applying /\ a.job = k.job /\ a.copy = k.copy /\ a.todo = Tail(k.todo)
       /\ a.orphans = k.orphans /\ a.expired = k.expired /\ a.moves = mv
  BY <1>2, <1>4, <1>10 DEF Applying
<1>12. message[m] \in Row
  BY <1>5 DEF TypeOK
<1>13. /\ row \in Row /\ row.stamps = k.copy[m].stamps \union {r.status}
       /\ row.status = IF next # current THEN next ELSE message[m].status
  BY <1>5, <1>7, <1>9, <1>12 DEF Row
<1>. HIDE DEF a, row
<1>14. WorkersTyped' /\ worker'[w] = a /\ \A u \in Workers : u # w => worker'[u] = worker[u]
  BY <1>1, <1>11, WorkerStep
<1>15. /\ message' \in [Messages -> Row] /\ message'[m] = row
       /\ \A n \in Messages : n # m => message'[n] = message[n]
  BY <1>5, <1>8, <1>13 DEF TypeOK
<1>16. applied' = [applied EXCEPT ![m] = @ \union {r.status}]
  BY DEF ApplyReceipt, m, r, k
<1>. QED
  BY <1>1, <1>3, <1>4, <1>5, <1>6, <1>7, <1>11, <1>13, <1>14, <1>15, <1>16
     DEF k, r, m, current, next, mv

(* MirrorMoves writes the first of the moves and forgets it.               *)
LEMMA MirrorFields ==
  ASSUME WorkersTyped, NEW w \in Workers, MirrorMoves(w)
  PROVE  LET k == worker[w] IN
         /\ Applies(w) /\ worker'[w] \in Applying /\ WorkersTyped'
         /\ \A u \in Workers : u # w => worker'[u] = worker[u]
         /\ k.todo = <<>> /\ k.moves \in Seq(StatusMove) /\ k.moves # <<>>
         /\ Head(k.moves) \in StatusMove
         /\ worker'[w].job = k.job /\ worker'[w].copy = k.copy
         /\ worker'[w].todo = k.todo /\ worker'[w].orphans = k.orphans
         /\ worker'[w].expired = k.expired /\ worker'[w].moves = Tail(k.moves)
         /\ recipient' = [m \in Messages |-> IF m \in Head(k.moves).ids
                                             THEN Head(k.moves).status ELSE recipient[m]]
<1>. DEFINE k == worker[w]
            a == [k EXCEPT !.moves = Tail(k.moves)]
<1>1. /\ k.step = "apply" /\ k.todo = <<>> /\ k.moves # <<>> /\ Applies(w)
      /\ worker' = [worker EXCEPT ![w] = a]
  BY Shapes DEF MirrorMoves, WorkersTyped
<1>2. k \in Applying
  BY <1>1 DEF Applies
<1>3. k.moves \in Seq(StatusMove)
  BY <1>1, Fields
<1>4. Head(k.moves) \in StatusMove /\ Tail(k.moves) \in Seq(StatusMove)
  BY <1>1, <1>3, HeadTail
<1>. HIDE DEF k
<1>5. /\ a \in Applying /\ a.job = k.job /\ a.copy = k.copy /\ a.todo = k.todo
      /\ a.orphans = k.orphans /\ a.expired = k.expired /\ a.moves = Tail(k.moves)
  BY <1>2, <1>4 DEF Applying
<1>. HIDE DEF a
<1>6. WorkersTyped' /\ worker'[w] = a /\ \A u \in Workers : u # w => worker'[u] = worker[u]
  BY <1>1, <1>5, WorkerStep
<1>7. recipient' = [m \in Messages |-> IF m \in Head(k.moves).ids
                                       THEN Head(k.moves).status ELSE recipient[m]]
  BY DEF MirrorMoves, k
<1>. QED  BY <1>1, <1>3, <1>4, <1>5, <1>6, <1>7 DEF k

(* DeferOrphans hands the young orphans on, or cannot, and gives up the    *)
(* others.                                                                 *)
LEMMA DeferFields ==
  ASSUME WorkersTyped, NEW w \in Workers, DeferOrphans(w)
  PROVE  LET k == worker[w]
             job == k.job
             deferred == OrphansToDefer(w)
             later == [event |-> job.event, tracked |-> FALSE,
                       batch |-> deferred, attempt |-> job.attempt + 1]
             expired == Given(job, k.expired \union (ToSet(k.orphans) \ ToSet(deferred)))
         IN
         /\ Applies(w) /\ worker'[w] \in Marking /\ WorkersTyped'
         /\ \A u \in Workers : u # w => worker'[u] = worker[u]
         /\ k.todo = <<>> /\ k.moves = <<>> /\ worker'[w].job = job
         /\ job \in Job /\ later \in Job /\ deferred \in Seq(Receipt)
         /\ expired \subseteq Events \X Receipt
         /\ expired \subseteq dropped'
         /\ \/ /\ worker'[w].handedOn
               /\ queue' = IF deferred = <<>> THEN queue ELSE queue \union {later}
               /\ dropped' = dropped \union expired
            \/ /\ ~ worker'[w].handedOn
               /\ queue' = queue
               /\ dropped' = dropped \union expired \union
                     (IF job.tracked THEN {} ELSE Given(job, ToSet(deferred)))
<1>. DEFINE k == worker[w]
            job == k.job
            deferred == OrphansToDefer(w)
            later == [event |-> job.event, tracked |-> FALSE,
                      batch |-> deferred, attempt |-> job.attempt + 1]
            expired == Given(job, k.expired \union (ToSet(k.orphans) \ ToSet(deferred)))
            a == [step |-> "mark", job |-> job, handedOn |-> TRUE]
            b == [step |-> "mark", job |-> job, handedOn |-> FALSE]
<1>1. k.step = "apply" /\ k.todo = <<>> /\ k.moves = <<>> /\ Applies(w)
  BY Shapes DEF DeferOrphans
<1>2. \/ /\ queue' = IF deferred = <<>> THEN queue ELSE queue \union {later}
         /\ dropped' = dropped \union expired
         /\ worker' = [worker EXCEPT ![w] = a]
      \/ /\ queue' = queue
         /\ dropped' = dropped \union expired \union
               (IF job.tracked THEN {} ELSE Given(job, ToSet(deferred)))
         /\ worker' = [worker EXCEPT ![w] = b]
  BY DEF DeferOrphans
<1>3. job \in Job /\ k.orphans \in Seq(Receipt) /\ k.expired \in SUBSET Receipt
  BY <1>1, Fields
<1>4. /\ job.event \in Events /\ job.attempt \in Nat
  BY <1>3, JobFields
<1>5. deferred \in Seq(Receipt)
  BY <1>3 DEF OrphansToDefer
<1>6. ToSet(k.orphans) \subseteq Receipt
  BY <1>3, IdsTyped
<1>. HIDE DEF deferred, k, job
<1>7. later \in Job
  BY <1>4, <1>5 DEF Job
<1>8. expired \subseteq Events \X Receipt
  BY <1>3, <1>4, <1>6 DEF Given
<1>9. a \in Marking /\ a.job = job /\ a.handedOn
  BY <1>3 DEF Marking
<1>10. b \in Marking /\ b.job = job /\ ~ b.handedOn
  BY <1>3 DEF Marking
<1>. HIDE DEF a, b, later, expired
<1>11. CASE /\ queue' = IF deferred = <<>> THEN queue ELSE queue \union {later}
            /\ dropped' = dropped \union expired
            /\ worker' = [worker EXCEPT ![w] = a]
  <2>1. WorkersTyped' /\ worker'[w] = a /\ \A u \in Workers : u # w => worker'[u] = worker[u]
    BY <1>9, <1>11, WorkerStep
  <2>. QED  BY <1>1, <1>3, <1>5, <1>7, <1>8, <1>9, <1>11, <2>1 DEF k, job, deferred, later, expired
<1>12. CASE /\ queue' = queue
            /\ dropped' = dropped \union expired \union
                  (IF job.tracked THEN {} ELSE Given(job, ToSet(deferred)))
            /\ worker' = [worker EXCEPT ![w] = b]
  <2>1. WorkersTyped' /\ worker'[w] = b /\ \A u \in Workers : u # w => worker'[u] = worker[u]
    BY <1>10, <1>12, WorkerStep
  <2>. QED  BY <1>1, <1>3, <1>5, <1>7, <1>8, <1>10, <1>12, <2>1 DEF k, job, deferred, later, expired
<1>. QED  BY <1>2, <1>11, <1>12

(* MarkEvent ends a run.                                                   *)
LEMMA MarkFields ==
  ASSUME WorkersTyped, NEW w \in Workers, MarkEvent(w)
  PROVE  /\ worker[w] \in Marking /\ worker[w].job \in Job
         /\ worker'[w] = NoJob /\ WorkersTyped'
         /\ \A u \in Workers : u # w => worker'[u] = worker[u]
<1>1. /\ worker[w] \in Marking
      /\ worker' = [worker EXCEPT ![w] = NoJob]
  BY Shapes DEF MarkEvent
<1>2. worker[w].job \in Job
  BY <1>1, Shapes
<1>. QED  BY <1>1, <1>2, WorkerStep

(* Abort ends a run, whose job goes back to the queue or is given up.      *)
LEMMA AbortFields ==
  ASSUME WorkersTyped, NEW w \in Workers, Abort(w)
  PROVE  LET job == worker[w].job IN
         /\ Held(w) /\ job \in Job /\ worker'[w] = NoJob /\ WorkersTyped'
         /\ \A u \in Workers : u # w => worker'[u] = worker[u]
         /\ \/ job.tracked /\ event' = [event EXCEPT ![job.event] = "FAILED"]
            \/ event' = event
         /\ \/ queue' = queue \union {job} /\ dropped' = dropped
            \/ queue' = queue /\ dropped' = dropped \union Given(job, ToSet(job.batch))
         /\ Given(job, ToSet(job.batch)) \subseteq Events \X Receipt
         /\ \A m \in Messages : cause'[m] = IF Applies(w) /\ m \in Unmirrored(w)
                                            THEN cause[m] \union {"aborted"} ELSE cause[m]
<1>1. Held(w) /\ worker' = [worker EXCEPT ![w] = NoJob]
  BY DEF Abort, Held
<1>2. worker[w].job \in Job
  BY <1>1, Shapes
<1>3. WorkersTyped' /\ worker'[w] = NoJob /\ \A u \in Workers : u # w => worker'[u] = worker[u]
  BY <1>1, WorkerStep
<1>4. worker[w].step = "apply" <=> Applies(w)
  BY Shapes
<1>5. Given(worker[w].job, ToSet(worker[w].job.batch)) \subseteq Events \X Receipt
  BY <1>2, JobFields, IdsTyped DEF Given
<1>6. \A m \in Messages : cause'[m] = IF worker[w].step = "apply" /\ m \in Unmirrored(w)
                                     THEN cause[m] \union {"aborted"} ELSE cause[m]
  BY DEF Abort
<1>7. /\ \/ worker[w].job.tracked /\ event' = [event EXCEPT ![worker[w].job.event] = "FAILED"]
         \/ event' = event
      /\ \/ queue' = queue \union {worker[w].job} /\ dropped' = dropped
         \/ queue' = queue /\ dropped' = dropped \union Given(worker[w].job, ToSet(worker[w].job.batch))
  BY DEF Abort
<1>. QED  BY <1>1, <1>2, <1>3, <1>4, <1>5, <1>6, <1>7

(* StartBatch takes a job from the queue and reads its rows.               *)
LEMMA StartFields ==
  ASSUME TypeOK, WorkersTyped, NEW w \in Workers, NEW job \in queue, StartBatch(w, job)
  PROVE  /\ worker[w] = NoJob /\ job \in Job
         /\ worker'[w] \in Applying /\ WorkersTyped'
         /\ \A u \in Workers : u # w => worker'[u] = worker[u]
         /\ worker'[w].job = job /\ worker'[w].todo = job.batch
         /\ worker'[w].orphans = <<>> /\ worker'[w].expired = {} /\ worker'[w].moves = <<>>
         /\ \A m \in DOMAIN worker'[w].copy : /\ m \in IdsOf(job.batch) /\ Known(m)
                                              /\ worker'[w].copy[m] = message[m]
         /\ \A m \in Messages :
               cause'[m] = cause[m]
                  \union (IF m \in Overlaps(w, job.batch) THEN {"overlap"} ELSE {})
                  \union (IF m \in Repeats(job.batch) THEN {"batched"} ELSE {})
<1>. DEFINE c == [m \in {i \in IdsOf(job.batch) : Known(i)} |-> message[m]]
            a == [step |-> "apply", job |-> job, todo |-> job.batch, orphans |-> <<>>,
                  expired |-> {}, moves |-> <<>>, copy |-> c]
<1>1. job \in Job
  BY DEF TypeOK
<1>2. a \in Applying
  BY <1>1, StartTyped
<1>3. worker[w] = NoJob /\ worker' = [worker EXCEPT ![w] = a]
  BY DEF StartBatch
<1>4. \A m \in DOMAIN c : m \in IdsOf(job.batch) /\ Known(m) /\ c[m] = message[m]
  OBVIOUS
<1>5. \A m \in Messages :
               cause'[m] = cause[m]
                  \union (IF m \in Overlaps(w, job.batch) THEN {"overlap"} ELSE {})
                  \union (IF m \in Repeats(job.batch) THEN {"batched"} ELSE {})
  BY DEF StartBatch
<1>. HIDE DEF c
<1>6. /\ a.job = job /\ a.todo = job.batch /\ a.orphans = <<>> /\ a.expired = {}
      /\ a.moves = <<>> /\ a.copy = c
  OBVIOUS
<1>. HIDE DEF a
<1>7. WorkersTyped' /\ worker'[w] = a /\ \A u \in Workers : u # w => worker'[u] = worker[u]
  BY <1>2, <1>3, WorkerStep
<1>. QED  BY <1>1, <1>2, <1>3, <1>4, <1>5, <1>6, <1>7

(* A step is one of the actions.                                           *)
LEMMA StepCases ==
  ASSUME Next
  PROVE  \/ \E m \in Messages : RecordWamid(m)
         \/ \E m \in Messages : MirrorQueued(m)
         \/ \E e \in Events, b \in Batches : Deliver(e, b)
         \/ \E w \in Workers : \E job \in queue : StartBatch(w, job)
         \/ \E w \in Workers : SetAside(w)
         \/ \E w \in Workers : ApplyReceipt(w)
         \/ \E w \in Workers : MirrorMoves(w)
         \/ \E w \in Workers : DeferOrphans(w)
         \/ \E w \in Workers : MarkEvent(w)
         \/ \E w \in Workers : Abort(w)
BY DEF Next, SenderStep, ProcessorStep

(* The types hold at the start.                                            *)
LEMMA TypeInit ==
  ASSUME Init
  PROVE  TypeInv
<1>1. Absent \in Row /\ "QUEUED" \in RecipientStatus
  BY DEF Absent, Row, MessageStatus, RecipientStatus
<1>2. WorkersTyped
  BY DEF Init, WorkersTyped
<1>3. aborts \in 0..MaxAborts
  BY DeliveryReceiptsAssumption DEF Init
<1>. QED  BY <1>1, <1>2, <1>3 DEF Init, TypeInv, TypeOK

(* Every step keeps the types.                                             *)
LEMMA TypeStep ==
  ASSUME TypeInv, [Next]_vars
  PROVE  TypeInv'
<1>. USE DEF TypeInv
<1>1. ASSUME WorkersTyped' PROVE \A w \in Workers : worker'[w] = NoJob \/ worker'[w].job \in Job
  <2>1. SUFFICES ASSUME NEW w \in Workers, worker'[w] # NoJob PROVE worker'[w].job \in Job
    OBVIOUS
  <2>. QED  BY <1>1, <2>1 DEF WorkersTyped, Applying, Marking
<1>2. ASSUME NEW m \in Messages, RecordWamid(m)
      PROVE  TypeInv'
  <2>1. WorkersTyped'
    BY <1>2 DEF RecordWamid, WorkersTyped
  <2>2. "ACCEPTED" \in MessageStatus /\ message[m] \in Row
    BY DEF MessageStatus, TypeOK
  <2>3. [message[m] EXCEPT !.status = "ACCEPTED"] \in Row
    BY <2>2 DEF Row
  <2>4. message' = [message EXCEPT ![m] = [message[m] EXCEPT !.status = "ACCEPTED"]]
    BY <1>2 DEF RecordWamid, TypeOK
  <2>5. message' \in [Messages -> Row]
    BY <2>3, <2>4 DEF TypeOK
  <2>6. sender' \in [Messages -> {"sending", "accepted", "done"}]
    BY <1>2 DEF RecordWamid, TypeOK
  <2>. QED  BY <1>1, <1>2, <2>1, <2>5, <2>6 DEF RecordWamid, TypeOK
<1>3. ASSUME NEW m \in Messages, MirrorQueued(m)
      PROVE  TypeInv'
  <2>1. WorkersTyped'
    BY <1>3 DEF MirrorQueued, WorkersTyped
  <2>2. recipient' \in [Messages -> RecipientStatus]
    BY <1>3 DEF MirrorQueued, TypeOK, RecipientStatus
  <2>3. cause' \in [Messages -> SUBSET Causes]
    BY <1>3 DEF MirrorQueued, TypeOK, Causes
  <2>4. sender' \in [Messages -> {"sending", "accepted", "done"}]
    BY <1>3 DEF MirrorQueued, TypeOK
  <2>. QED  BY <1>1, <1>3, <2>1, <2>2, <2>3, <2>4 DEF MirrorQueued, TypeOK
<1>4. ASSUME NEW e \in Events, NEW b \in Batches, Deliver(e, b)
      PROVE  TypeInv'
  <2>. DEFINE j == [event |-> e, tracked |-> TRUE, batch |-> b, attempt |-> 0]
  <2>1. b \in Seq(Receipt)
    BY DeliveryReceiptsAssumption
  <2>2. j \in Job
    BY <2>1 DEF Job
  <2>3. queue' = queue \union {j}
    BY <1>4 DEF Deliver
  <2>. HIDE DEF j
  <2>4. WorkersTyped'
    BY <1>4 DEF Deliver, WorkersTyped
  <2>5. /\ event' \in [Events -> {"NONE", "RECEIVED", "PROCESSED", "FAILED"}]
        /\ batch' \in [Events -> Batches \union {<<>>}]
    BY <1>4 DEF Deliver, TypeOK
  <2>. QED  BY <1>1, <1>4, <2>2, <2>3, <2>4, <2>5 DEF Deliver, TypeOK
<1>5. ASSUME NEW w \in Workers, NEW job \in queue, StartBatch(w, job)
      PROVE  TypeInv'
  <2>1. WorkersTyped'
    BY <1>5, StartFields
  <2>2. \A m \in Messages : cause'[m] \in SUBSET Causes
    BY <1>5, StartFields DEF TypeOK, Causes
  <2>3. cause' \in [Messages -> SUBSET Causes] /\ queue' \subseteq Job
    BY <1>5, <2>2 DEF StartBatch, TypeOK
  <2>. QED  BY <1>1, <1>5, <2>1, <2>3 DEF StartBatch, TypeOK
<1>6. ASSUME NEW w \in Workers, SetAside(w)
      PROVE  TypeInv'
  <2>1. WorkersTyped'
    BY <1>6, SetAsideFields
  <2>. QED  BY <1>1, <1>6, <2>1 DEF SetAside, TypeOK
<1>7. ASSUME NEW w \in Workers, ApplyReceipt(w)
      PROVE  TypeInv'
  <2>1. WorkersTyped' /\ message' \in [Messages -> Row]
    BY <1>7, ApplyFields
  <2>. DEFINE r == Head(worker[w].todo)
  <2>5. /\ r.id \in Messages /\ r.status \in ReceiptStatus
        /\ applied' = [applied EXCEPT ![r.id] = @ \union {r.status}]
    BY <1>7, ApplyFields
  <2>. HIDE DEF r
  <2>2. applied' \in [Messages -> SUBSET ReceiptStatus]
    BY <2>5 DEF TypeOK
  <2>. QED  BY <1>1, <1>7, <2>1, <2>2 DEF ApplyReceipt, TypeOK
<1>8. ASSUME NEW w \in Workers, MirrorMoves(w)
      PROVE  TypeInv'
  <2>1. /\ WorkersTyped' /\ Head(worker[w].moves).status \in RecipientStatus
        /\ recipient' = [m \in Messages |-> IF m \in Head(worker[w].moves).ids
                             THEN Head(worker[w].moves).status ELSE recipient[m]]
    BY <1>8, MirrorFields DEF StatusMove
  <2>2. recipient' \in [Messages -> RecipientStatus]
    BY <2>1 DEF TypeOK
  <2>. QED  BY <1>1, <1>8, <2>1, <2>2 DEF MirrorMoves, TypeOK
<1>9. ASSUME NEW w \in Workers, DeferOrphans(w)
      PROVE  TypeInv'
  <2>. DEFINE job == worker[w].job
              deferred == OrphansToDefer(w)
  <2>1. WorkersTyped' /\ job \in Job /\ deferred \in Seq(Receipt)
    BY <1>9, DeferFields
  <2>2. Given(job, ToSet(deferred)) \subseteq Events \X Receipt
    BY <2>1, JobFields, IdsTyped DEF Given
  <2>. DEFINE later == [event |-> job.event, tracked |-> FALSE,
                        batch |-> deferred, attempt |-> job.attempt + 1]
              expired == Given(job, worker[w].expired \union
                                      (ToSet(worker[w].orphans) \ ToSet(deferred)))
  <2>5. /\ later \in Job /\ expired \subseteq Events \X Receipt
        /\ queue' = queue \/ queue' = queue \union {later}
        /\ \/ dropped' = dropped \union expired
           \/ dropped' = dropped \union expired \union Given(job, ToSet(deferred))
    BY <1>9, DeferFields
  <2>. HIDE DEF job, deferred, later, expired
  <2>3. queue' \subseteq Job /\ dropped' \subseteq Events \X Receipt
    BY <2>2, <2>5 DEF TypeOK
  <2>. QED  BY <1>1, <1>9, <2>1, <2>3 DEF DeferOrphans, TypeOK
<1>10. ASSUME NEW w \in Workers, MarkEvent(w)
       PROVE  TypeInv'
  <2>1. WorkersTyped'
    BY <1>10, MarkFields
  <2>2. event' \in [Events -> {"NONE", "RECEIVED", "PROCESSED", "FAILED"}]
    BY <1>10 DEF MarkEvent, TypeOK
  <2>. QED  BY <1>1, <1>10, <2>1, <2>2 DEF MarkEvent, TypeOK
<1>11. ASSUME NEW w \in Workers, Abort(w)
       PROVE  TypeInv'
  <2>1. /\ WorkersTyped' /\ queue' \subseteq Job /\ dropped' \subseteq Events \X Receipt
        /\ event' \in [Events -> {"NONE", "RECEIVED", "PROCESSED", "FAILED"}]
    BY <1>11, AbortFields DEF TypeOK
  <2>2. \A m \in Messages : cause'[m] \in SUBSET Causes
    BY <1>11, AbortFields DEF TypeOK, Causes
  <2>3. cause' \in [Messages -> SUBSET Causes]
    BY <1>11, <2>2 DEF Abort
  <2>4. aborts' \in 0..MaxAborts
    BY <1>11, DeliveryReceiptsAssumption DEF Abort, TypeOK
  <2>. QED  BY <1>1, <1>11, <2>1, <2>3, <2>4 DEF Abort, TypeOK
<1>12. ASSUME UNCHANGED vars PROVE TypeInv'
  BY <1>12 DEF vars, TypeOK, WorkersTyped
<1>. QED  BY <1>2, <1>3, <1>4, <1>5, <1>6, <1>7, <1>8, <1>9, <1>10, <1>11, <1>12, StepCases

(***************************************************************************)
(* The type invariant holds for any batches and limits.                    *)
(***************************************************************************)
THEOREM TypeCorrect == Spec => []TypeOK
<1>1. Init => TypeInv
  BY TypeInit
<1>2. TypeInv /\ [Next]_vars => TypeInv'
  BY TypeStep
<1>3. TypeInv => TypeOK
  BY DEF TypeInv
<1>. QED  BY <1>1, <1>2, <1>3, PTL DEF Spec

-----------------------------------------------------------------------------
(***************************************************************************)
(* The status machine.                                                     *)
(***************************************************************************)
(* The ranks, one by one.                                                  *)
LEMMA Ranks ==
  /\ Rank["QUEUED"] = 0 /\ Rank["ACCEPTED"] = 1 /\ Rank["SENT"] = 2
  /\ Rank["DELIVERED"] = 3 /\ Rank["READ"] = 4 /\ Rank["PLAYED"] = 4 /\ Rank["FAILED"] = 0
BY DEF Rank, MessageStatus

(* advanceStatus takes the receipt into account, and forgets none of those *)
(* that the status took into account before.                               *)
LEMMA AdvanceReflects ==
  ASSUME NEW c \in MessageStatus, NEW s \in ReceiptStatus
  PROVE  /\ Reflects(AdvanceStatus(c, s), s)
         /\ \A t \in ReceiptStatus : Reflects(c, t) => Reflects(AdvanceStatus(c, s), t)
<1>. DEFINE n == AdvanceStatus(c, s)
<1>1. \A x \in MessageStatus : Rank[x] \in 0..4
  BY Ranks DEF MessageStatus
<1>2. s \in MessageStatus /\ n \in MessageStatus
  BY AdvanceTyped
<1>3. \A t \in ReceiptStatus : t \in MessageStatus
  BY DEF ReceiptStatus, MessageStatus
<1>4. Reflects(n, s)
  BY <1>1, <1>2, Ranks DEF AdvanceStatus, Reflects
<1>5. ASSUME NEW t \in ReceiptStatus, Reflects(c, t)
      PROVE  Reflects(n, t)
  BY <1>1, <1>2, <1>3, <1>5, Ranks DEF AdvanceStatus, Reflects
<1>. QED  BY <1>4, <1>5

(* advanceStatus only advances: by rank, or into FAILED, which it never    *)
(* leaves.                                                                 *)
THEOREM AdvanceOnlyAdvances ==
  ASSUME NEW c \in MessageStatus, NEW s \in ReceiptStatus
  PROVE  MayFollow(AdvanceStatus(c, s), c)
<1>1. \A x \in MessageStatus : Rank[x] \in 0..4
  BY Ranks DEF MessageStatus
<1>2. s \in MessageStatus
  BY AdvanceTyped
<1>. QED  BY <1>1, <1>2, Ranks DEF AdvanceStatus, MayFollow

-----------------------------------------------------------------------------
(***************************************************************************)
(* The receipts that were applied are kept, and the recipient agrees.      *)
(***************************************************************************)
(* What holds a message is a run on its batch.                             *)
LEMMA HeldMessages ==
  ASSUME CopiesKnown, WorkersTyped, NEW w \in Workers, Applies(w)
  PROVE  /\ \A m \in DOMAIN worker[w].copy : Holds(w, m) /\ Known(m)
         /\ \A k \in DOMAIN worker[w].moves : \A m \in worker[w].moves[k].ids :
               m \in DOMAIN worker[w].copy
         /\ \A i \in DOMAIN worker[w].todo : /\ worker[w].todo[i] \in Receipt
                                             /\ worker[w].todo[i].id \in Messages
<1>1. Held(w) /\ worker[w].todo \in Seq(Receipt)
  BY Shapes, Fields
<1>2. \A i \in DOMAIN worker[w].todo : worker[w].todo[i] \in Receipt
  BY <1>1
<1>3. \A r \in Receipt : r.id \in Messages
  BY DEF Receipt
<1>. QED  BY <1>1, <1>2, <1>3 DEF CopiesKnown, Holds, Held

(* A message cannot be held by two runs without an overlap.                *)
LEMMA OneHolder ==
  ASSUME OverlapNoted, NEW v \in Workers, NEW w \in Workers, NEW m \in Messages,
         Holds(v, m), Holds(w, m), "overlap" \notin cause[m]
  PROVE  v = w
BY DEF OverlapNoted

(* Ending a run, or handing on its orphans, when nothing is to be mirrored *)
(* keeps everything.                                                       *)
LEMMA ReceiptsFrame ==
  ASSUME ReceiptsInv, TypeOK', WorkersTyped',
         message' = message, recipient' = recipient, sender' = sender,
         applied' = applied, cause' = cause,
         \A u \in Workers :
            \/ worker'[u] = worker[u]
            \/ /\ ~ Applies(u)' /\ \A m \in Messages : ~ Pending(u, m)
               /\ worker'[u] # NoJob => Held(u) /\ worker'[u].job = worker[u].job
  PROVE  ReceiptsInv'
<1>. USE DEF ReceiptsInv
<1>1. \A u \in Workers : Applies(u)' => Applies(u) /\ worker'[u] = worker[u]
  BY DEF Applies
<1>2. \A u \in Workers, m \in Messages : Pending(u, m) => worker'[u] = worker[u] /\ Pending(u, m)'
  BY DEF Applies, Pending
<1>3. Unsent'
  BY DEF Unsent, Known
<1>4. CopiesKnown'
  BY <1>1 DEF CopiesKnown, Known
<1>5. OverlapNoted'
  BY DEF OverlapNoted, Holds, Held
<1>6. RepeatNoted'
  BY <1>1 DEF RepeatNoted
<1>7. CopiesFresh'
  BY <1>1 DEF CopiesFresh, Fresh
<1>8. ReceiptsAreKept'
  BY DEF ReceiptsAreKept
<1>9. MirrorHolds'
  BY <1>1, <1>2 DEF MirrorHolds
<1>. QED  BY <1>3, <1>4, <1>5, <1>6, <1>7, <1>8, <1>9

(* SetAside takes a receipt off the list, and nothing else.                *)
LEMMA ReceiptsSetAside ==
  ASSUME ReceiptsInv, TypeOK', NEW w \in Workers, SetAside(w)
  PROVE  ReceiptsInv'
<1>. USE DEF ReceiptsInv
<1>0. /\ message' = message /\ recipient' = recipient /\ sender' = sender
      /\ applied' = applied /\ cause' = cause
  BY DEF SetAside
<1>1. /\ Applies(w) /\ Applies(w)' /\ WorkersTyped'
      /\ \A u \in Workers : u # w => worker'[u] = worker[u]
      /\ worker'[w].job = worker[w].job /\ worker'[w].moves = worker[w].moves
      /\ worker'[w].copy = worker[w].copy
      /\ worker'[w].todo = Tail(worker[w].todo)
  BY SetAsideFields DEF Applies
<1>2. \A i \in DOMAIN worker'[w].todo :
         i \in Nat /\ i + 1 \in DOMAIN worker[w].todo /\ worker'[w].todo[i] = worker[w].todo[i + 1]
  BY <1>1, SetAsideFields, HeadTail
<1>3. \A u \in Workers : Applies(u)' <=> Applies(u)
  BY <1>1 DEF Applies
<1>4. Held(w) /\ Held(w)'
  BY <1>1, Shapes, WorkersTyped' DEF Held, Applies, Applying, NoJob
<1>5. \A u \in Workers, m \in Messages : Holds(u, m)' <=> Holds(u, m)
  BY <1>1, <1>4 DEF Holds, Held
<1>6. \A u \in Workers, m \in Messages : Pending(u, m)' <=> Pending(u, m)
  BY <1>1, <1>3 DEF Pending
<1>7. Unsent'
  BY <1>0 DEF Unsent, Known
<1>8. CopiesKnown'
  <2>1. SUFFICES ASSUME NEW u \in Workers, Applies(u)'
                 PROVE  /\ \A m \in DOMAIN worker'[u].copy : Known(m)' /\ m \in IdsOf(worker'[u].job.batch)
                        /\ \A k \in DOMAIN worker'[u].moves : worker'[u].moves[k].ids \subseteq DOMAIN worker'[u].copy
                        /\ \A i \in DOMAIN worker'[u].todo : worker'[u].todo[i] \in ToSet(worker'[u].job.batch)
    BY DEF CopiesKnown
  <2>2. CASE u = w
    BY <1>0, <1>1, <1>2, <2>2 DEF CopiesKnown, Known
  <2>3. CASE u # w
    BY <1>0, <1>1, <1>3, <2>1, <2>3 DEF CopiesKnown, Known
  <2>. QED  BY <2>2, <2>3
<1>9. OverlapNoted'
  BY <1>0, <1>5 DEF OverlapNoted
<1>10. RepeatNoted'
  <2>1. SUFFICES ASSUME NEW u \in Workers, Applies(u)', NEW i \in DOMAIN worker'[u].todo,
                        "batched" \notin cause[worker'[u].todo[i].id]
                 PROVE  /\ \A j \in DOMAIN worker'[u].todo :
                              worker'[u].todo[j].id = worker'[u].todo[i].id => j = i
                        /\ \A k \in DOMAIN worker'[u].moves :
                              worker'[u].todo[i].id \notin worker'[u].moves[k].ids
    BY <1>0 DEF RepeatNoted
  <2>2. CASE u = w
    <3>1. i + 1 \in DOMAIN worker[w].todo /\ worker'[w].todo[i] = worker[w].todo[i + 1]
      BY <1>2, <2>1, <2>2
    <3>2. /\ \A j \in DOMAIN worker[w].todo :
                worker[w].todo[j].id = worker[w].todo[i + 1].id => j = i + 1
          /\ \A k \in DOMAIN worker[w].moves :
                worker[w].todo[i + 1].id \notin worker[w].moves[k].ids
      BY <1>1, <2>1, <2>2, <3>1 DEF RepeatNoted
    <3>3. ASSUME NEW j \in DOMAIN worker'[w].todo, worker'[w].todo[j].id = worker'[w].todo[i].id
          PROVE  j = i
      <4>1. j + 1 = i + 1 /\ j \in Nat /\ i \in Nat
        BY <1>2, <2>1, <2>2, <3>1, <3>2, <3>3
      <4>. QED  BY <4>1
    <3>. QED  BY <1>1, <2>2, <3>1, <3>2, <3>3
  <2>3. CASE u # w
    BY <1>1, <1>3, <2>1, <2>3 DEF RepeatNoted
  <2>. QED  BY <2>2, <2>3
<1>11. CopiesFresh'
  <2>1. SUFFICES ASSUME NEW u \in Workers, Applies(u)', NEW i \in DOMAIN worker'[u].todo,
                        worker'[u].todo[i].id \in DOMAIN worker'[u].copy,
                        Fresh(worker'[u].todo[i].id)
                 PROVE  worker'[u].copy[worker'[u].todo[i].id] = message[worker'[u].todo[i].id]
    BY <1>0 DEF CopiesFresh, Fresh
  <2>2. CASE u = w
    <3>1. i + 1 \in DOMAIN worker[w].todo /\ worker'[w].todo[i] = worker[w].todo[i + 1]
      BY <1>2, <2>1, <2>2
    <3>. QED  BY <1>1, <2>1, <2>2, <3>1 DEF CopiesFresh
  <2>3. CASE u # w
    BY <1>1, <1>3, <2>1, <2>3 DEF CopiesFresh
  <2>. QED  BY <2>2, <2>3
<1>12. ReceiptsAreKept'
  BY <1>0 DEF ReceiptsAreKept
<1>13. MirrorHolds'
  <2>1. SUFFICES ASSUME NEW m \in Messages, cause[m] = {}
                 PROVE  /\ \A u \in Workers : Applies(u)' =>
                             \A k \in DOMAIN worker'[u].moves :
                                m \in worker'[u].moves[k].ids =>
                                   worker'[u].moves[k].status = Mirror[message[m].status]
                        /\ (\A u \in Workers : ~ Pending(u, m)')
                              => recipient[m] = Mirror[message[m].status]
    BY <1>0 DEF MirrorHolds
  <2>2. \A u \in Workers : worker'[u].moves = worker[u].moves
    BY <1>1
  <2>. QED  BY <1>3, <1>6, <2>1, <2>2 DEF MirrorHolds
<1>. QED  BY <1>1, <1>7, <1>8, <1>9, <1>10, <1>11, <1>12, <1>13

(* ApplyReceipt: the copy is the row unless the message is exposed, so the *)
(* row takes the receipt into account; and the move is remembered.         *)
LEMMA ReceiptsApply ==
  ASSUME ReceiptsInv, TypeOK', NEW w \in Workers, ApplyReceipt(w)
  PROVE  ReceiptsInv'
<1>. USE DEF ReceiptsInv
<1>. DEFINE k == worker[w]
            r == Head(k.todo)
            n == r.id
            current == k.copy[n].status
            next == AdvanceStatus(current, r.status)
<1>0. recipient' = recipient /\ sender' = sender /\ cause' = cause
  BY DEF ApplyReceipt
<1>1. /\ Applies(w) /\ Applies(w)' /\ WorkersTyped'
      /\ \A u \in Workers : u # w => worker'[u] = worker[u]
      /\ k.todo \in Seq(Receipt) /\ k.todo # <<>>
      /\ worker'[w].job = k.job /\ worker'[w].copy = k.copy
      /\ worker'[w].todo = Tail(k.todo)
      /\ worker'[w].moves = IF next # current
                            THEN AddMove(k.moves, Mirror[r.status], n) ELSE k.moves
  BY ApplyFields DEF Applies
<1>2. /\ n \in Messages /\ n \in DOMAIN k.copy /\ k.copy[n] \in Row
      /\ r.status \in ReceiptStatus /\ current \in MessageStatus
      /\ message' \in [Messages -> Row]
      /\ message'[n].stamps = k.copy[n].stamps \union {r.status}
      /\ message'[n].status = IF next # current THEN next ELSE message[n].status
      /\ \A m \in Messages : m # n => message'[m] = message[m]
      /\ applied' = [applied EXCEPT ![n] = @ \union {r.status}]
  BY ApplyFields
<1>3. 1 \in DOMAIN k.todo /\ k.todo[1] = r
  BY <1>1, HeadTail
<1>4. \A i \in DOMAIN worker'[w].todo :
         i \in Nat \ {0} /\ i + 1 \in DOMAIN k.todo /\ worker'[w].todo[i] = k.todo[i + 1]
  BY <1>1, HeadTail
<1>5. k.moves \in Seq(StatusMove)
  BY <1>1, Fields
<1>. HIDE DEF k, r
<1>6. /\ next # current => next = r.status
      /\ Mirror[r.status] \in RecipientStatus
  BY <1>2, AdvanceTyped
<1>. HIDE DEF n, current, next
<1>7. /\ \A j \in DOMAIN k.moves : /\ j \in DOMAIN worker'[w].moves
                                   /\ k.moves[j].ids \subseteq worker'[w].moves[j].ids
      /\ next # current => \E j \in DOMAIN worker'[w].moves : n \in worker'[w].moves[j].ids
      /\ \A j \in DOMAIN worker'[w].moves : \A x \in worker'[w].moves[j].ids :
            \/ x = n /\ next # current /\ worker'[w].moves[j].status = Mirror[r.status]
            \/ j \in DOMAIN k.moves /\ x \in k.moves[j].ids
               /\ worker'[w].moves[j].status = k.moves[j].status
  BY <1>1, <1>2, <1>5, <1>6, Added
<1>8. \A u \in Workers : Applies(u)' <=> Applies(u)
  BY <1>1 DEF Applies
<1>9. Held(w) /\ Held(w)' /\ Holds(w, n) /\ Known(n)
  <2>1. Held(w) /\ Held(w)'
    BY <1>1, Shapes, WorkersTyped' DEF Held, Applies, Applying, NoJob
  <2>2. Holds(w, n) /\ Known(n)
    BY <1>1, <1>2, HeldMessages DEF k
  <2>. QED  BY <2>1, <2>2
<1>10. \A u \in Workers, m \in Messages : Holds(u, m)' <=> Holds(u, m)
  BY <1>1, <1>9 DEF Holds, Held, k
<1>11. "batched" \notin cause[n] =>
         /\ \A i \in DOMAIN worker'[w].todo : worker'[w].todo[i].id # n
         /\ \A j \in DOMAIN k.moves : n \notin k.moves[j].ids
  <2>1. SUFFICES ASSUME "batched" \notin cause[n]
                 PROVE  /\ \A i \in DOMAIN worker'[w].todo : worker'[w].todo[i].id # n
                        /\ \A j \in DOMAIN k.moves : n \notin k.moves[j].ids
    OBVIOUS
  <2>2. /\ \A j \in DOMAIN k.todo : k.todo[j].id = n => j = 1
        /\ \A j \in DOMAIN k.moves : n \notin k.moves[j].ids
    BY <1>1, <1>3, <2>1 DEF RepeatNoted, k, n
  <2>3. ASSUME NEW i \in DOMAIN worker'[w].todo, worker'[w].todo[i].id = n
        PROVE  FALSE
    <3>1. i + 1 = 1 /\ i \in Nat \ {0}
      BY <1>4, <2>2, <2>3
    <3>. QED  BY <3>1
  <2>. QED  BY <2>2, <2>3
<1>12. Fresh(n) => k.copy[n] = message[n]
  BY <1>1, <1>2, <1>3 DEF CopiesFresh, k, n
<1>13. Fresh(n) => "overlap" \notin cause[n] /\ "batched" \notin cause[n]
  BY DEF Fresh, StaleCauses
<1>14. Unsent'
  BY <1>0, <1>2, <1>9 DEF Unsent, Known, TypeOK
<1>15. CopiesKnown'
  <2>1. SUFFICES ASSUME NEW u \in Workers, Applies(u)'
                 PROVE  /\ \A m \in DOMAIN worker'[u].copy : Known(m)' /\ m \in IdsOf(worker'[u].job.batch)
                        /\ \A j \in DOMAIN worker'[u].moves : worker'[u].moves[j].ids \subseteq DOMAIN worker'[u].copy
                        /\ \A i \in DOMAIN worker'[u].todo : worker'[u].todo[i] \in ToSet(worker'[u].job.batch)
    BY DEF CopiesKnown
  <2>2. CASE u = w
    <3>1. /\ \A m \in DOMAIN k.copy : Known(m) /\ m \in IdsOf(k.job.batch)
          /\ \A j \in DOMAIN k.moves : k.moves[j].ids \subseteq DOMAIN k.copy
          /\ \A i \in DOMAIN k.todo : k.todo[i] \in ToSet(k.job.batch)
      BY <1>1 DEF CopiesKnown, k
    <3>2. \A j \in DOMAIN worker'[w].moves : worker'[w].moves[j].ids \subseteq DOMAIN k.copy
      BY <1>2, <1>7, <3>1
    <3>3. \A i \in DOMAIN worker'[w].todo : worker'[w].todo[i] \in ToSet(k.job.batch)
      BY <1>4, <3>1
    <3>4. \A m \in DOMAIN k.copy : Known(m)'
      BY <1>0, <3>1 DEF Known
    <3>. QED  BY <1>1, <2>2, <3>1, <3>2, <3>3, <3>4
  <2>3. CASE u # w
    BY <1>0, <1>1, <1>8, <2>1, <2>3 DEF CopiesKnown, Known
  <2>. QED  BY <2>2, <2>3
<1>16. OverlapNoted'
  BY <1>0, <1>10 DEF OverlapNoted
<1>17. RepeatNoted'
  <2>1. SUFFICES ASSUME NEW u \in Workers, Applies(u)', NEW i \in DOMAIN worker'[u].todo,
                        "batched" \notin cause[worker'[u].todo[i].id]
                 PROVE  /\ \A j \in DOMAIN worker'[u].todo :
                              worker'[u].todo[j].id = worker'[u].todo[i].id => j = i
                        /\ \A j \in DOMAIN worker'[u].moves :
                              worker'[u].todo[i].id \notin worker'[u].moves[j].ids
    BY <1>0 DEF RepeatNoted
  <2>2. CASE u = w
    <3>. DEFINE m == k.todo[i + 1].id
    <3>1. i + 1 \in DOMAIN k.todo /\ worker'[w].todo[i].id = m
      BY <1>4, <2>1, <2>2
    <3>2. /\ \A j \in DOMAIN k.todo : k.todo[j].id = m => j = i + 1
          /\ \A j \in DOMAIN k.moves : m \notin k.moves[j].ids
      BY <1>1, <2>1, <2>2, <3>1 DEF RepeatNoted, k
    <3>. HIDE DEF m
    <3>3. ASSUME NEW j \in DOMAIN worker'[w].todo, worker'[w].todo[j].id = m
          PROVE  j = i
      <4>1. j + 1 = i + 1 /\ j \in Nat /\ i \in Nat
        BY <1>4, <2>1, <2>2, <3>2, <3>3
      <4>. QED  BY <4>1
    <3>4. m # n
      <4>1. SUFFICES ASSUME m = n PROVE FALSE
        OBVIOUS
      <4>2. k.todo[1].id = m
        BY <1>3, <4>1 DEF n
      <4>3. 1 = i + 1 /\ i \in Nat \ {0}
        BY <1>3, <1>4, <2>1, <2>2, <3>2, <4>2
      <4>. QED  BY <4>3
    <3>5. \A j \in DOMAIN worker'[w].moves : m \notin worker'[w].moves[j].ids
      BY <1>7, <3>2, <3>4
    <3>. QED  BY <2>2, <3>1, <3>3, <3>5
  <2>3. CASE u # w
    BY <1>1, <1>8, <2>1, <2>3 DEF RepeatNoted
  <2>. QED  BY <2>2, <2>3
<1>18. CopiesFresh'
  <2>1. SUFFICES ASSUME NEW u \in Workers, Applies(u)', NEW i \in DOMAIN worker'[u].todo,
                        worker'[u].todo[i].id \in DOMAIN worker'[u].copy,
                        Fresh(worker'[u].todo[i].id)
                 PROVE  worker'[u].copy[worker'[u].todo[i].id] = message'[worker'[u].todo[i].id]
    BY <1>0 DEF CopiesFresh, Fresh
  <2>. DEFINE m == worker'[u].todo[i].id
  <2>2. CASE u = w
    <3>1. i + 1 \in DOMAIN k.todo /\ worker'[w].todo[i] = k.todo[i + 1]
      BY <1>4, <2>1, <2>2
    <3>2. k.copy[m] = message[m] /\ m \in Messages
      BY ZenonT(30), <1>1, <2>1, <2>2, <3>1, HeldMessages DEF CopiesFresh, k
    <3>3. m # n
      BY <1>11, <1>13, <2>1, <2>2
    <3>. QED  BY <1>1, <1>2, <2>2, <3>2, <3>3
  <2>3. CASE u # w
    <3>1. /\ worker'[u] = worker[u] /\ Applies(u)
          /\ worker[u].copy[m] = message[m] /\ m \in Messages /\ Holds(u, m)
      BY <1>1, <1>8, <2>1, <2>3, HeldMessages DEF CopiesFresh
    <3>2. m # n
      BY <1>9, <1>13, <2>1, <2>3, <3>1, OneHolder
    <3>. QED  BY <1>2, <3>1, <3>2
  <2>. QED  BY <2>2, <2>3
<1>19. ReceiptsAreKept'
  <2>1. SUFFICES ASSUME NEW m \in Messages, Fresh(m), NEW s \in applied'[m]
                 PROVE  s \in message'[m].stamps /\ Reflects(message'[m].status, s)
    BY <1>0 DEF ReceiptsAreKept, Fresh
  <2>2. CASE m = n
    <3>1. message'[n].stamps = message[n].stamps \union {r.status}
      BY <1>2, <1>12, <2>1, <2>2
    <3>2. message'[n].status = next /\ current = message[n].status
      BY <1>2, <1>12, <2>1, <2>2 DEF current
    <3>3. s = r.status \/ s \in applied[n]
      BY <1>2, <2>1, <2>2 DEF TypeOK
    <3>4. CASE s = r.status
      BY <1>2, <2>2, <3>1, <3>2, <3>4, AdvanceReflects DEF next
    <3>5. CASE s \in applied[n]
      <4>1. /\ s \in message[n].stamps /\ Reflects(message[n].status, s)
            /\ s \in ReceiptStatus
        BY <1>2, <2>1, <2>2, <3>5 DEF ReceiptsAreKept, Fresh, TypeOK
      <4>2. Reflects(next, s)
        BY <1>2, <3>2, <4>1, AdvanceReflects DEF next
      <4>. QED  BY <2>2, <3>1, <3>2, <4>1, <4>2
    <3>. QED  BY <3>3, <3>4, <3>5
  <2>3. CASE m # n
    <3>1. message'[m] = message[m] /\ applied'[m] = applied[m]
      BY <1>2, <2>3 DEF TypeOK
    <3>. QED  BY <2>1, <3>1 DEF ReceiptsAreKept, Fresh
  <2>. QED  BY <2>2, <2>3
<1>20. MirrorHolds'
  <2>1. SUFFICES ASSUME NEW m \in Messages, cause[m] = {}
                 PROVE  /\ \A u \in Workers : Applies(u)' =>
                             \A j \in DOMAIN worker'[u].moves :
                                m \in worker'[u].moves[j].ids =>
                                   worker'[u].moves[j].status = Mirror[message'[m].status]
                        /\ (\A u \in Workers : ~ Pending(u, m)')
                              => recipient[m] = Mirror[message'[m].status]
    BY <1>0 DEF MirrorHolds
  <2>2. /\ \A u \in Workers : Applies(u) =>
              \A j \in DOMAIN worker[u].moves :
                 m \in worker[u].moves[j].ids =>
                    worker[u].moves[j].status = Mirror[message[m].status]
        /\ (\A u \in Workers : ~ Pending(u, m)) => recipient[m] = Mirror[message[m].status]
    BY <2>1 DEF MirrorHolds
  <2>3. CASE m = n /\ next # current
    <3>1. Fresh(m)
      BY <2>1 DEF Fresh
    <3>2. message'[m].status = r.status
      BY <1>2, <1>6, <2>3
    <3>3. \E j \in DOMAIN worker'[w].moves : m \in worker'[w].moves[j].ids
      BY <1>7, <2>3
    <3>4. Pending(w, m)'
      BY <1>1, <3>3 DEF Pending
    <3>5. ASSUME NEW u \in Workers, Applies(u)', NEW j \in DOMAIN worker'[u].moves,
                 m \in worker'[u].moves[j].ids
          PROVE  worker'[u].moves[j].status = Mirror[message'[m].status]
      <4>1. CASE u = w
        BY <1>7, <1>11, <1>13, <2>3, <3>1, <3>2, <3>5, <4>1
      <4>2. CASE u # w
        <5>1. worker'[u] = worker[u] /\ Applies(u) /\ Holds(u, m)
          BY <1>1, <1>8, <3>5, <4>2, HeldMessages
        <5>. QED  BY <1>9, <1>13, <2>3, <3>1, <4>2, <5>1, OneHolder
      <4>. QED  BY <4>1, <4>2
    <3>. QED  BY <3>4, <3>5
  <2>4. CASE ~ (m = n /\ next # current)
    <3>1. message'[m].status = message[m].status
      BY <1>2, <2>4
    <3>2. ASSUME NEW u \in Workers, Applies(u)', NEW j \in DOMAIN worker'[u].moves,
                 m \in worker'[u].moves[j].ids
          PROVE  worker'[u].moves[j].status = Mirror[message'[m].status]
      <4>1. CASE u = w
        <5>1. /\ j \in DOMAIN k.moves /\ m \in k.moves[j].ids
              /\ worker'[w].moves[j].status = k.moves[j].status
          BY <1>7, <2>4, <3>2, <4>1
        <5>. QED  BY <1>1, <2>2, <3>1, <4>1, <5>1 DEF k
      <4>2. CASE u # w
        BY <1>1, <1>8, <2>2, <3>1, <3>2, <4>2
      <4>. QED  BY <4>1, <4>2
    <3>3. ASSUME \A u \in Workers : ~ Pending(u, m)'
          PROVE  recipient[m] = Mirror[message'[m].status]
      <4>1. ~ Pending(w, m)
        BY <1>1, <1>7, <3>3 DEF Pending, k
      <4>2. \A u \in Workers : u # w => ~ Pending(u, m)
        BY <1>1, <1>8, <3>3 DEF Pending
      <4>. QED  BY <2>2, <3>1, <4>1, <4>2
    <3>. QED  BY <3>2, <3>3
  <2>. QED  BY <2>3, <2>4
<1>. QED  BY <1>1, <1>14, <1>15, <1>16, <1>17, <1>18, <1>19, <1>20

(* MirrorMoves makes the recipients of one move agree.                     *)
LEMMA ReceiptsMirror ==
  ASSUME ReceiptsInv, TypeOK', NEW w \in Workers, MirrorMoves(w)
  PROVE  ReceiptsInv'
<1>. USE DEF ReceiptsInv
<1>. DEFINE k == worker[w]
            move == Head(k.moves)
<1>0. message' = message /\ sender' = sender /\ applied' = applied /\ cause' = cause
  BY DEF MirrorMoves
<1>1. /\ Applies(w) /\ Applies(w)' /\ WorkersTyped'
      /\ \A u \in Workers : u # w => worker'[u] = worker[u]
      /\ k.todo = <<>> /\ k.moves \in Seq(StatusMove) /\ k.moves # <<>>
      /\ worker'[w].job = k.job /\ worker'[w].copy = k.copy /\ worker'[w].todo = k.todo
      /\ worker'[w].moves = Tail(k.moves)
      /\ recipient' = [m \in Messages |-> IF m \in move.ids THEN move.status ELSE recipient[m]]
  BY MirrorFields DEF Applies
<1>2. /\ 1 \in DOMAIN k.moves /\ move = k.moves[1]
      /\ \A j \in DOMAIN worker'[w].moves :
            j + 1 \in DOMAIN k.moves /\ worker'[w].moves[j] = k.moves[j + 1]
  BY <1>1, HeadTail
<1>3. \A j \in DOMAIN k.moves : j = 1 \/ \E i \in DOMAIN worker'[w].moves : worker'[w].moves[i] = k.moves[j]
  <2>1. ASSUME NEW j \in DOMAIN k.moves, j # 1
        PROVE  j - 1 \in DOMAIN Tail(k.moves) /\ Tail(k.moves)[j - 1] = k.moves[j]
    BY <1>1, <2>1
  <2>. QED  BY <1>1, <2>1
<1>4. DOMAIN worker'[w].todo = {} /\ DOMAIN worker[w].todo = {}
  BY <1>1
<1>. HIDE DEF k, move
<1>5. \A u \in Workers : Applies(u)' <=> Applies(u)
  BY <1>1 DEF Applies
<1>6. Held(w) /\ Held(w)'
  BY <1>1, Shapes, WorkersTyped' DEF Held, Applies, Applying, NoJob
<1>7. \A u \in Workers, m \in Messages : Holds(u, m)' <=> Holds(u, m)
  BY <1>1, <1>6 DEF Holds, Held, k
<1>8. Unsent'
  BY <1>0 DEF Unsent, Known
<1>9. CopiesKnown'
  <2>1. SUFFICES ASSUME NEW u \in Workers, Applies(u)'
                 PROVE  /\ \A m \in DOMAIN worker'[u].copy : Known(m)' /\ m \in IdsOf(worker'[u].job.batch)
                        /\ \A j \in DOMAIN worker'[u].moves : worker'[u].moves[j].ids \subseteq DOMAIN worker'[u].copy
                        /\ \A i \in DOMAIN worker'[u].todo : worker'[u].todo[i] \in ToSet(worker'[u].job.batch)
    BY DEF CopiesKnown
  <2>2. CASE u = w
    BY ZenonT(30), <1>0, <1>1, <1>2, <1>4, <2>2 DEF CopiesKnown, Known, k
  <2>3. CASE u # w
    BY <1>0, <1>1, <1>5, <2>1, <2>3 DEF CopiesKnown, Known
  <2>. QED  BY <2>2, <2>3
<1>10. OverlapNoted'
  BY <1>0, <1>7 DEF OverlapNoted
<1>11. RepeatNoted'
  BY <1>0, <1>1, <1>4, <1>5 DEF RepeatNoted
<1>12. CopiesFresh'
  BY <1>0, <1>1, <1>4, <1>5 DEF CopiesFresh, Fresh
<1>13. ReceiptsAreKept'
  BY <1>0 DEF ReceiptsAreKept
<1>14. MirrorHolds'
  <2>1. SUFFICES ASSUME NEW m \in Messages, cause[m] = {}
                 PROVE  /\ \A u \in Workers : Applies(u)' =>
                             \A j \in DOMAIN worker'[u].moves :
                                m \in worker'[u].moves[j].ids =>
                                   worker'[u].moves[j].status = Mirror[message[m].status]
                        /\ (\A u \in Workers : ~ Pending(u, m)')
                              => recipient'[m] = Mirror[message[m].status]
    BY <1>0 DEF MirrorHolds
  <2>2. /\ \A u \in Workers : Applies(u) =>
              \A j \in DOMAIN worker[u].moves :
                 m \in worker[u].moves[j].ids =>
                    worker[u].moves[j].status = Mirror[message[m].status]
        /\ (\A u \in Workers : ~ Pending(u, m)) => recipient[m] = Mirror[message[m].status]
    BY <2>1 DEF MirrorHolds
  <2>3. ASSUME NEW u \in Workers, Applies(u)', NEW j \in DOMAIN worker'[u].moves,
               m \in worker'[u].moves[j].ids
        PROVE  worker'[u].moves[j].status = Mirror[message[m].status]
    <3>1. CASE u = w
      <4>1. j + 1 \in DOMAIN k.moves /\ worker'[w].moves[j] = k.moves[j + 1]
        BY <1>2, <2>3, <3>1
      <4>. QED  BY ZenonT(30), <1>1, <2>2, <2>3, <3>1, <4>1 DEF k
    <3>2. CASE u # w
      BY <1>1, <1>5, <2>2, <2>3, <3>2
    <3>. QED  BY <3>1, <3>2
  <2>4. ASSUME \A u \in Workers : ~ Pending(u, m)'
        PROVE  recipient'[m] = Mirror[message[m].status]
    <3>1. CASE m \in move.ids
      <4>1. move.status = Mirror[message[m].status]
        BY <1>1, <1>2, <2>2, <3>1 DEF k
      <4>. QED  BY <1>1, <3>1, <4>1
    <3>2. CASE m \notin move.ids
      <4>1. ~ Pending(w, m)
        BY <1>1, <1>2, <1>3, <2>4, <3>2 DEF Pending, k
      <4>2. \A u \in Workers : u # w => ~ Pending(u, m)
        BY <1>1, <1>5, <2>4 DEF Pending
      <4>3. recipient'[m] = recipient[m]
        BY <1>1, <3>2
      <4>. QED  BY <2>2, <4>1, <4>2, <4>3
    <3>. QED  BY <3>1, <3>2
  <2>. QED  BY <2>3, <2>4
<1>. QED  BY <1>1, <1>8, <1>9, <1>10, <1>11, <1>12, <1>13, <1>14

(* StartBatch reads fresh rows, and notes what exposes them.               *)
LEMMA ReceiptsStart ==
  ASSUME ReceiptsInv, TypeOK', NEW w \in Workers, NEW job \in queue, StartBatch(w, job)
  PROVE  ReceiptsInv'
<1>. USE DEF ReceiptsInv
<1>0. message' = message /\ recipient' = recipient /\ sender' = sender /\ applied' = applied
  BY DEF StartBatch
<1>1. /\ worker[w] = NoJob /\ job \in Job /\ Applies(w)' /\ WorkersTyped'
      /\ \A u \in Workers : u # w => worker'[u] = worker[u]
      /\ worker'[w].job = job /\ worker'[w].todo = job.batch /\ worker'[w].moves = <<>>
      /\ \A m \in DOMAIN worker'[w].copy : /\ m \in IdsOf(job.batch) /\ Known(m)
                                           /\ worker'[w].copy[m] = message[m]
      /\ \A m \in Messages :
            /\ cause[m] \subseteq cause'[m]
            /\ m \in Overlaps(w, job.batch) => "overlap" \in cause'[m]
            /\ m \in Repeats(job.batch) => "batched" \in cause'[m]
  BY StartFields DEF Applies
<1>2. job.batch \in Seq(Receipt)
  BY <1>1, JobFields
<1>3. ~ Applies(w)
  BY <1>1, Shapes DEF Held
<1>4. \A u \in Workers : u # w => (Applies(u)' <=> Applies(u))
  BY <1>1 DEF Applies
<1>5. DOMAIN worker'[w].moves = {}
  BY <1>1
<1>6. \A i \in DOMAIN worker'[w].todo : /\ job.batch[i].id \in Messages
                                        /\ job.batch[i].id \in IdsOf(job.batch)
                                        /\ job.batch[i] \in ToSet(job.batch)
  BY <1>1, <1>2, IdsTyped DEF ToSet
<1>7. Unsent'
  BY <1>0 DEF Unsent, Known
<1>8. CopiesKnown'
  <2>1. SUFFICES ASSUME NEW u \in Workers, Applies(u)'
                 PROVE  /\ \A m \in DOMAIN worker'[u].copy : Known(m)' /\ m \in IdsOf(worker'[u].job.batch)
                        /\ \A j \in DOMAIN worker'[u].moves : worker'[u].moves[j].ids \subseteq DOMAIN worker'[u].copy
                        /\ \A i \in DOMAIN worker'[u].todo : worker'[u].todo[i] \in ToSet(worker'[u].job.batch)
    BY DEF CopiesKnown
  <2>2. CASE u = w
    BY <1>0, <1>1, <1>5, <1>6, <2>2 DEF Known
  <2>3. CASE u # w
    BY <1>0, <1>1, <1>4, <2>1, <2>3 DEF CopiesKnown, Known
  <2>. QED  BY <2>2, <2>3
<1>9. OverlapNoted'
  <2>1. SUFFICES ASSUME NEW u \in Workers, NEW v \in Workers, NEW m \in Messages,
                        u # v, Holds(u, m)', Holds(v, m)'
                 PROVE  "overlap" \in cause'[m]
    BY DEF OverlapNoted
  <2>2. ASSUME NEW x \in Workers, x # w, Holds(x, m)'
        PROVE  Holds(x, m)
    BY <1>1, <2>2 DEF Holds
  <2>3. ASSUME Holds(w, m)' PROVE m \in IdsOf(job.batch)
    BY <1>1, <2>3 DEF Holds
  <2>4. CASE u = w \/ v = w
    <3>1. m \in Overlaps(w, job.batch)
      BY <2>1, <2>2, <2>3, <2>4 DEF Overlaps
    <3>. QED  BY <1>1, <3>1
  <2>5. CASE u # w /\ v # w
    BY <1>1, <2>1, <2>2, <2>5 DEF OverlapNoted
  <2>. QED  BY <2>4, <2>5
<1>10. RepeatNoted'
  <2>1. SUFFICES ASSUME NEW u \in Workers, Applies(u)', NEW i \in DOMAIN worker'[u].todo,
                        "batched" \notin cause'[worker'[u].todo[i].id]
                 PROVE  /\ \A j \in DOMAIN worker'[u].todo :
                              worker'[u].todo[j].id = worker'[u].todo[i].id => j = i
                        /\ \A k \in DOMAIN worker'[u].moves :
                              worker'[u].todo[i].id \notin worker'[u].moves[k].ids
    BY DEF RepeatNoted
  <2>2. CASE u = w
    <3>1. /\ i \in DOMAIN job.batch /\ job.batch[i].id \in Messages
          /\ job.batch[i].id \in IdsOf(job.batch)
          /\ job.batch[i].id \notin Repeats(job.batch)
      BY <1>1, <1>6, <2>1, <2>2
    <3>2. \A j \in DOMAIN job.batch : job.batch[j].id = job.batch[i].id => j = i
      BY <3>1 DEF Repeats
    <3>. QED  BY <1>1, <1>5, <2>2, <3>2
  <2>3. CASE u # w
    <3>1. worker'[u] = worker[u] /\ Applies(u) /\ worker[u].todo[i].id \in Messages
      BY <1>1, <1>4, <2>1, <2>3, HeldMessages
    <3>. QED  BY <1>1, <2>1, <3>1 DEF RepeatNoted
  <2>. QED  BY <2>2, <2>3
<1>11. \A m \in Messages : Fresh(m)' => Fresh(m)
  BY <1>1 DEF Fresh
<1>12. CopiesFresh'
  <2>1. SUFFICES ASSUME NEW u \in Workers, Applies(u)', NEW i \in DOMAIN worker'[u].todo,
                        worker'[u].todo[i].id \in DOMAIN worker'[u].copy,
                        cause'[worker'[u].todo[i].id] \intersect StaleCauses = {}
                 PROVE  worker'[u].copy[worker'[u].todo[i].id] = message[worker'[u].todo[i].id]
    BY <1>0 DEF CopiesFresh, Fresh
  <2>2. CASE u = w
    BY <1>1, <2>1, <2>2
  <2>3. CASE u # w
    <3>1. worker'[u] = worker[u] /\ Applies(u) /\ worker[u].todo[i].id \in Messages
      BY <1>1, <1>4, <2>1, <2>3, HeldMessages
    <3>2. Fresh(worker[u].todo[i].id)
      BY <1>11, <2>1, <3>1 DEF Fresh
    <3>. QED  BY <2>1, <3>1, <3>2 DEF CopiesFresh
  <2>. QED  BY <2>2, <2>3
<1>13. ReceiptsAreKept'
  BY <1>0, <1>1 DEF ReceiptsAreKept
<1>14. MirrorHolds'
  <2>1. SUFFICES ASSUME NEW m \in Messages, cause'[m] = {}
                 PROVE  /\ \A u \in Workers : Applies(u)' =>
                             \A j \in DOMAIN worker'[u].moves :
                                m \in worker'[u].moves[j].ids =>
                                   worker'[u].moves[j].status = Mirror[message[m].status]
                        /\ (\A u \in Workers : ~ Pending(u, m)')
                              => recipient[m] = Mirror[message[m].status]
    BY <1>0 DEF MirrorHolds
  <2>2. cause[m] = {}
    BY <1>1, <2>1
  <2>3. ASSUME NEW u \in Workers, Applies(u)', NEW j \in DOMAIN worker'[u].moves,
               m \in worker'[u].moves[j].ids
        PROVE  worker'[u].moves[j].status = Mirror[message[m].status]
    BY <1>1, <1>4, <1>5, <2>2, <2>3 DEF MirrorHolds
  <2>4. ASSUME \A u \in Workers : ~ Pending(u, m)'
        PROVE  recipient[m] = Mirror[message[m].status]
    <3>1. \A u \in Workers : ~ Pending(u, m)
      BY <1>1, <1>3, <1>4, <2>4 DEF Pending
    <3>. QED  BY <2>2, <3>1 DEF MirrorHolds
  <2>. QED  BY <2>3, <2>4
<1>. QED  BY <1>1, <1>7, <1>8, <1>9, <1>10, <1>12, <1>13, <1>14

(* The sender's two steps keep the agreement, or are late.                 *)
LEMMA ReceiptsSender ==
  ASSUME ReceiptsInv, TypeOK', NEW n \in Messages, RecordWamid(n) \/ MirrorQueued(n)
  PROVE  ReceiptsInv'
<1>. USE DEF ReceiptsInv
<1>1. /\ worker' = worker /\ applied' = applied
      /\ \A m \in Messages : cause[m] \subseteq cause'[m] /\ (Known(m) => Known(m)')
  BY DEF RecordWamid, MirrorQueued, Known, TypeOK
<1>2. \A m \in Messages : Known(m) => message'[m] = message[m]
  BY DEF RecordWamid, MirrorQueued, Known, TypeOK
<1>3. \A m \in Messages : Fresh(m)' => Fresh(m)
  BY <1>1 DEF Fresh
<1>4. \A u \in Workers : Applies(u)' <=> Applies(u)
  BY <1>1 DEF Applies
<1>5. WorkersTyped'
  BY <1>1 DEF WorkersTyped
<1>6. Unsent'
  BY <1>1, <1>2 DEF RecordWamid, MirrorQueued, Unsent, Known, TypeOK
<1>7. CopiesKnown'
  BY <1>1, <1>4, Fields, CopyRows DEF CopiesKnown
<1>8. OverlapNoted'
  BY <1>1 DEF OverlapNoted, Holds
<1>9. RepeatNoted'
  BY <1>1, <1>4, HeldMessages DEF RepeatNoted
<1>10. CopiesFresh'
  <2>1. SUFFICES ASSUME NEW u \in Workers, Applies(u), NEW i \in DOMAIN worker[u].todo,
                        worker[u].todo[i].id \in DOMAIN worker[u].copy,
                        cause'[worker[u].todo[i].id] \intersect StaleCauses = {}
                 PROVE  worker[u].copy[worker[u].todo[i].id] = message'[worker[u].todo[i].id]
    BY <1>1, <1>4 DEF CopiesFresh, Fresh
  <2>. DEFINE m == worker[u].todo[i].id
  <2>2. m \in Messages /\ Known(m)
    BY <2>1, HeldMessages
  <2>3. Fresh(m)
    BY <1>3, <2>1, <2>2 DEF Fresh
  <2>. QED  BY <1>2, <2>1, <2>2, <2>3 DEF CopiesFresh
<1>11. ReceiptsAreKept'
  <2>1. SUFFICES ASSUME NEW m \in Messages, cause'[m] \intersect StaleCauses = {}, NEW s \in applied[m]
                 PROVE  s \in message'[m].stamps /\ Reflects(message'[m].status, s)
    BY <1>1 DEF ReceiptsAreKept
  <2>2. Known(m)
    BY <2>1 DEF Unsent
  <2>. QED  BY <1>1, <1>2, <2>1, <2>2 DEF ReceiptsAreKept
<1>12. MirrorHolds'
  <2>1. SUFFICES ASSUME NEW m \in Messages, cause'[m] = {}
                 PROVE  /\ \A u \in Workers : Applies(u) =>
                             \A j \in DOMAIN worker[u].moves :
                                m \in worker[u].moves[j].ids =>
                                   worker[u].moves[j].status = Mirror[message'[m].status]
                        /\ (\A u \in Workers : ~ Pending(u, m))
                              => recipient'[m] = Mirror[message'[m].status]
    BY <1>1, <1>4 DEF MirrorHolds, Pending
  <2>2. cause[m] = {}
    BY <1>1, <2>1
  <2>3. recipient'[m] = recipient[m]
    <3>1. CASE RecordWamid(n)
      BY <3>1 DEF RecordWamid
    <3>2. CASE MirrorQueued(n) /\ m = n
      <4>1. CASE recipient' = recipient
        BY <4>1
      <4>2. CASE /\ recipient' = [recipient EXCEPT ![n] = "QUEUED"]
                 /\ cause' = IF recipient[n] = "QUEUED" THEN cause
                            ELSE [cause EXCEPT ![n] = @ \union {"late"}]
        <5>1. recipient[n] = "QUEUED"
          <6>1. SUFFICES ASSUME recipient[n] # "QUEUED" PROVE "late" \in cause'[n]
            BY <2>1, <3>2
          <6>. QED  BY <4>2, <6>1 DEF TypeOK
        <5>. QED  BY <3>2, <4>2, <5>1 DEF TypeOK
      <4>. QED  BY <3>2, <4>1, <4>2 DEF MirrorQueued
    <3>3. CASE MirrorQueued(n) /\ m # n
      BY <3>3 DEF MirrorQueued, TypeOK
    <3>. QED  BY <3>1, <3>2, <3>3
  <2>4. Mirror[message'[m].status] = Mirror[message[m].status]
    <3>1. CASE Known(m)
      BY <1>2, <3>1
    <3>2. CASE ~ Known(m)
      <4>1. message[m].status = "QUEUED"
        BY <3>2 DEF Unsent, Absent
      <4>2. message'[m].status \in {"QUEUED", "ACCEPTED"}
        BY SMTT(30), <4>1 DEF RecordWamid, MirrorQueued, TypeOK, Row
      <4>. QED  BY <4>1, <4>2 DEF Mirror, MessageStatus
    <3>. QED  BY <3>1, <3>2
  <2>. QED  BY <2>2, <2>3, <2>4 DEF MirrorHolds
<1>. QED  BY <1>5, <1>6, <1>7, <1>8, <1>9, <1>10, <1>11, <1>12

(* Abort forgets moves, and notes whose.                                   *)
LEMMA ReceiptsAbort ==
  ASSUME ReceiptsInv, TypeOK', NEW w \in Workers, Abort(w)
  PROVE  ReceiptsInv'
<1>. USE DEF ReceiptsInv
<1>0. message' = message /\ recipient' = recipient /\ sender' = sender /\ applied' = applied
  BY DEF Abort
<1>1. /\ worker'[w] = NoJob /\ WorkersTyped'
      /\ \A u \in Workers : u # w => worker'[u] = worker[u]
      /\ \A m \in Messages : /\ cause[m] \subseteq cause'[m]
                             /\ Applies(w) /\ m \in Unmirrored(w) => cause'[m] # {}
                             /\ "aborted" \notin cause'[m] => cause'[m] = cause[m]
  BY AbortFields
<1>2. ~ Applies(w)' /\ ~ Held(w)'
  BY <1>1 DEF Applies, Applying, Held, NoJob
<1>3. \A u \in Workers : Applies(u)' => u # w /\ Applies(u) /\ worker'[u] = worker[u]
  BY <1>1, <1>2 DEF Applies
<1>4. \A m \in Messages : Fresh(m)' => Fresh(m)
  BY <1>1 DEF Fresh
<1>5. Unsent'
  BY <1>0 DEF Unsent, Known
<1>6. CopiesKnown'
  BY <1>0, <1>3 DEF CopiesKnown, Known
<1>7. OverlapNoted'
  BY <1>1, <1>2 DEF OverlapNoted, Holds, Held
<1>8. RepeatNoted'
  BY <1>1, <1>3, HeldMessages DEF RepeatNoted
<1>9. CopiesFresh'
  <2>1. SUFFICES ASSUME NEW u \in Workers, Applies(u)', NEW i \in DOMAIN worker'[u].todo,
                        worker'[u].todo[i].id \in DOMAIN worker'[u].copy,
                        cause'[worker'[u].todo[i].id] \intersect StaleCauses = {}
                 PROVE  worker'[u].copy[worker'[u].todo[i].id] = message[worker'[u].todo[i].id]
    BY <1>0 DEF CopiesFresh, Fresh
  <2>2. worker'[u] = worker[u] /\ Applies(u) /\ worker[u].todo[i].id \in Messages
    BY <1>3, <2>1, HeldMessages
  <2>3. Fresh(worker[u].todo[i].id)
    BY <1>4, <2>1, <2>2 DEF Fresh
  <2>. QED  BY <2>1, <2>2, <2>3 DEF CopiesFresh
<1>10. ReceiptsAreKept'
  BY <1>0, <1>1 DEF ReceiptsAreKept
<1>11. MirrorHolds'
  <2>1. SUFFICES ASSUME NEW m \in Messages, cause'[m] = {}
                 PROVE  /\ \A u \in Workers : Applies(u)' =>
                             \A j \in DOMAIN worker'[u].moves :
                                m \in worker'[u].moves[j].ids =>
                                   worker'[u].moves[j].status = Mirror[message[m].status]
                        /\ (\A u \in Workers : ~ Pending(u, m)')
                              => recipient[m] = Mirror[message[m].status]
    BY <1>0 DEF MirrorHolds
  <2>2. cause[m] = {}
    BY <1>1, <2>1
  <2>3. ASSUME \A u \in Workers : ~ Pending(u, m)'
        PROVE  recipient[m] = Mirror[message[m].status]
    <3>1. ~ Pending(w, m)
      BY <1>1, <2>1 DEF Pending, Unmirrored
    <3>2. \A u \in Workers : u # w => ~ Pending(u, m)
      BY <1>1, <2>3 DEF Pending, Applies
    <3>. QED  BY <2>2, <3>1, <3>2 DEF MirrorHolds
  <2>. QED  BY <1>3, <2>2, <2>3 DEF MirrorHolds
<1>. QED  BY <1>1, <1>5, <1>6, <1>7, <1>8, <1>9, <1>10, <1>11

(* The rest leaves the rows, the recipients and the running lists alone.   *)
LEMMA ReceiptsStep ==
  ASSUME ReceiptsInv, [Next]_vars
  PROVE  ReceiptsInv'
<1>0. TypeOK' /\ WorkersTyped'
  BY TypeStep DEF ReceiptsInv, TypeInv
<1>. HIDE DEF ReceiptsInv
<1>1. TypeOK /\ WorkersTyped
  BY DEF ReceiptsInv
<1>2. ASSUME NEW e \in Events, NEW b \in Batches, Deliver(e, b)
      PROVE  ReceiptsInv'
  <2>1. /\ worker' = worker /\ message' = message /\ recipient' = recipient
        /\ sender' = sender /\ applied' = applied /\ cause' = cause
    BY <1>2 DEF Deliver
  <2>. QED  BY <1>0, <2>1, ReceiptsFrame
<1>3. ASSUME NEW w \in Workers, DeferOrphans(w)
      PROVE  ReceiptsInv'
  <2>1. /\ message' = message /\ recipient' = recipient
        /\ sender' = sender /\ applied' = applied /\ cause' = cause
    BY <1>3 DEF DeferOrphans
  <2>2. /\ Applies(w) /\ worker'[w] \in Marking /\ worker'[w].job = worker[w].job
        /\ worker[w].moves = <<>>
        /\ \A u \in Workers : u # w => worker'[u] = worker[u]
    BY <1>1, <1>3, DeferFields
  <2>3. ~ Applies(w)' /\ Held(w) /\ \A m \in Messages : ~ Pending(w, m)
    BY <1>1, <2>2, Shapes DEF Applies, Applying, Marking, Pending
  <2>. QED  BY <1>0, <2>1, <2>2, <2>3, ReceiptsFrame
<1>4. ASSUME NEW w \in Workers, MarkEvent(w)
      PROVE  ReceiptsInv'
  <2>1. /\ message' = message /\ recipient' = recipient
        /\ sender' = sender /\ applied' = applied /\ cause' = cause
    BY <1>4 DEF MarkEvent
  <2>2. /\ worker[w] \in Marking /\ worker'[w] = NoJob
        /\ \A u \in Workers : u # w => worker'[u] = worker[u]
    BY <1>1, <1>4, MarkFields
  <2>3. ~ Applies(w)' /\ \A m \in Messages : ~ Pending(w, m)
    BY <1>1, <2>2, Shapes DEF Applies, Applying, NoJob, Pending
  <2>. QED  BY <1>0, <2>1, <2>2, <2>3, ReceiptsFrame
<1>5. ASSUME UNCHANGED vars PROVE ReceiptsInv'
  BY <1>0, <1>5, ReceiptsFrame DEF vars
<1>6. ASSUME NEW m \in Messages, RecordWamid(m) \/ MirrorQueued(m)
      PROVE  ReceiptsInv'
  BY <1>0, <1>6, ReceiptsSender
<1>7. ASSUME NEW w \in Workers, NEW job \in queue, StartBatch(w, job)
      PROVE  ReceiptsInv'
  BY <1>0, <1>7, ReceiptsStart
<1>8. ASSUME NEW w \in Workers, SetAside(w) \/ ApplyReceipt(w) \/ MirrorMoves(w) \/ Abort(w)
      PROVE  ReceiptsInv'
  BY <1>0, <1>8, ReceiptsSetAside, ReceiptsApply, ReceiptsMirror, ReceiptsAbort
<1>. QED  BY <1>2, <1>3, <1>4, <1>5, <1>6, <1>7, <1>8, StepCases

(* At the start nothing has come.                                          *)
LEMMA ReceiptsInit ==
  ASSUME Init
  PROVE  ReceiptsInv
<1>1. TypeOK /\ WorkersTyped
  BY TypeInit DEF TypeInv
<1>2. \A w \in Workers : ~ Applies(w) /\ ~ Held(w)
  BY DEF Init, Applies, Applying, Held, NoJob
<1>3. Unsent
  BY DEF Init, Unsent
<1>4. CopiesKnown /\ OverlapNoted /\ RepeatNoted /\ CopiesFresh
  BY <1>2 DEF CopiesKnown, OverlapNoted, RepeatNoted, CopiesFresh, Holds, Held
<1>5. ReceiptsAreKept
  BY DEF Init, ReceiptsAreKept
<1>6. MirrorHolds
  <2>1. \A m \in Messages : recipient[m] = "QUEUED" /\ message[m].status = "QUEUED"
    BY DEF Init, Absent
  <2>2. Mirror["QUEUED"] = "QUEUED"
    BY DEF Mirror, MessageStatus
  <2>. QED  BY <1>2, <2>1, <2>2 DEF MirrorHolds
<1>. QED  BY <1>1, <1>3, <1>4, <1>5, <1>6 DEF ReceiptsInv

(* What is pending is held, so a recipient nobody works for agrees.        *)
LEMMA AgreementFollows ==
  ASSUME ReceiptsInv
  PROVE  ReceiptsAreTrue
<1>1. \A w \in Workers, m \in Messages : Pending(w, m) => Holds(w, m)
  BY HeldMessages DEF ReceiptsInv, Pending
<1>2. RecipientAgrees
  BY <1>1 DEF ReceiptsInv, RecipientAgrees, MirrorHolds
<1>. QED  BY <1>2 DEF ReceiptsInv, ReceiptsAreTrue

(***************************************************************************)
(* However receipts, jobs, deaths and the sender interleave, the row has   *)
(* every receipt that was applied and the recipient shows its status, but  *)
(* for the four named causes.                                              *)
(***************************************************************************)
THEOREM ReceiptsCorrect == Spec => []ReceiptsAreTrue
<1>1. Init => ReceiptsInv
  BY ReceiptsInit
<1>2. ReceiptsInv /\ [Next]_vars => ReceiptsInv'
  BY ReceiptsStep
<1>3. ReceiptsInv => ReceiptsAreTrue
  BY AgreementFollows
<1>. QED  BY <1>1, <1>2, <1>3, PTL DEF Spec

(* Only the sender and a receipt write a status, and both write a later    *)
(* one.                                                                    *)
LEMMA StatusStep ==
  ASSUME ReceiptsInv, [Next]_vars, NEW m \in Messages, Fresh(m)
  PROVE  MayFollow(message'[m].status, message[m].status)
<1>1. TypeOK /\ WorkersTyped
  BY DEF ReceiptsInv
<1>2. CASE message' = message
  BY <1>2 DEF MayFollow
<1>3. ASSUME NEW n \in Messages, RecordWamid(n)
      PROVE  MayFollow(message'[m].status, message[m].status)
  <2>1. CASE m = n
    <3>1. message[m].status = "QUEUED"
      BY <1>3, <2>1 DEF ReceiptsInv, Unsent, Known, RecordWamid, Absent
    <3>2. message'[m].status = "ACCEPTED"
      BY <1>1, <1>3, <2>1 DEF RecordWamid, TypeOK, Row
    <3>. QED  BY <3>1, <3>2, Ranks DEF MayFollow
  <2>2. CASE m # n
    BY <1>1, <1>3, <2>2 DEF RecordWamid, TypeOK, MayFollow
  <2>. QED  BY <2>1, <2>2
<1>4. ASSUME NEW w \in Workers, ApplyReceipt(w)
      PROVE  MayFollow(message'[m].status, message[m].status)
  <2>. DEFINE k == worker[w]
              r == Head(k.todo)
              next == AdvanceStatus(k.copy[r.id].status, r.status)
  <2>1. /\ Applies(w) /\ k.todo \in Seq(Receipt) /\ k.todo # <<>>
        /\ r.id \in DOMAIN k.copy /\ r.status \in ReceiptStatus
        /\ k.copy[r.id].status \in MessageStatus
        /\ message'[r.id].status = IF next # k.copy[r.id].status THEN next
                                   ELSE message[r.id].status
        /\ \A n \in Messages : n # r.id => message'[n] = message[n]
    BY <1>1, <1>4, ApplyFields
  <2>2. 1 \in DOMAIN k.todo /\ k.todo[1] = r
    BY <2>1, HeadTail
  <2>3. CASE m = r.id
    <3>1. k.copy[m] = message[m]
      BY <2>1, <2>2, <2>3 DEF ReceiptsInv, CopiesFresh
    <3>2. MayFollow(next, message[m].status)
      BY <2>1, <2>3, <3>1, AdvanceOnlyAdvances
    <3>. QED  BY <2>1, <2>3, <3>1, <3>2 DEF MayFollow
  <2>4. CASE m # r.id
    BY <2>1, <2>4 DEF MayFollow
  <2>. QED  BY <2>3, <2>4
<1>5. \/ message' = message
      \/ \E n \in Messages : RecordWamid(n)
      \/ \E w \in Workers : ApplyReceipt(w)
  BY StepCases DEF vars, MirrorQueued, Deliver, StartBatch, SetAside, MirrorMoves,
                   DeferOrphans, MarkEvent, Abort
<1>. QED  BY <1>2, <1>3, <1>4, <1>5

(***************************************************************************)
(* A status never falls back and FAILED is never left, unless two jobs or  *)
(* two receipts of one batch worked on one copy.                           *)
(***************************************************************************)
THEOREM StatusCorrect == Spec => StatusOnlyAdvances
<1>1. Init => ReceiptsInv
  BY ReceiptsInit
<1>2. ReceiptsInv /\ [Next]_vars => ReceiptsInv'
  BY ReceiptsStep
<1>3. ReceiptsInv /\ [Next]_vars =>
        [\A m \in Messages : cause[m] \intersect StaleCauses = {} =>
            MayFollow(message'[m].status, message[m].status)]_vars
  BY StatusStep DEF Fresh
<1>. QED  BY <1>1, <1>2, <1>3, PTL DEF Spec, StatusOnlyAdvances

-----------------------------------------------------------------------------
(***************************************************************************)
(* A PROCESSED event has been handled.                                     *)
(***************************************************************************)
(* Being in hand is being in one of the jobs.                              *)
LEMMA PlacesHold ==
  ASSUME TypeOK, WorkersTyped
  PROVE  /\ Places \subseteq Job
         /\ \A e, r : InHand(e, r) <=> \E j \in Places : j.event = e /\ r \in ToSet(j.batch)
<1>1. Places \subseteq Job
  BY Shapes DEF Places, TypeOK
<1>. QED  BY <1>1 DEF Places, InHand, Held

(* The same of the next state.                                             *)
LEMMA PlacesHoldNext ==
  ASSUME TypeOK', WorkersTyped'
  PROVE  /\ Places' \subseteq Job
         /\ \A e, r : InHand(e, r)' <=> \E j \in Places' : j.event = e /\ r \in ToSet(j.batch)
<1>1. \A w \in Workers : Held(w)' => worker'[w].job \in Job
  BY DEF TypeOK, Held
<1>2. Places' \subseteq Job
  BY <1>1 DEF Places, TypeOK
<1>. QED  BY <1>2 DEF Places, InHand, Held

(* What a batch holds are receipts of messages.                            *)
LEMMA BatchIds ==
  ASSUME NEW b \in Seq(Receipt)
  PROVE  \A r \in ToSet(b) : r \in Receipt /\ r.id \in Messages
<1>1. \A r \in Receipt : r.id \in Messages
  BY DEF Receipt
<1>. QED  BY <1>1, IdsTyped

(* The batch of an event, and of a job, is one.                            *)
LEMMA BatchesTyped ==
  ASSUME TypeOK, WorkersTyped
  PROVE  /\ \A e \in Events : batch[e] \in Seq(Receipt)
         /\ \A j \in Job : j.batch \in Seq(Receipt)
         /\ \A u \in Workers : Held(u) => worker[u].job.batch \in Seq(Receipt)
<1>1. <<>> \in Seq(Receipt)
  OBVIOUS
<1>2. \A e \in Events : batch[e] \in Seq(Receipt)
  BY <1>1, DeliveryReceiptsAssumption DEF TypeOK
<1>. QED  BY <1>2, Shapes, JobFields

(* Jobs that are added, and none of the event's own, keep what is known of *)
(* the events and of the runs that are done.                               *)
LEMMA HandledFrame ==
  ASSUME HandledInv, TypeOK', WorkersTyped', OneTracked', BatchSplit',
         event' = event, batch' = batch, dropped \subseteq dropped',
         \A m \in Messages : applied[m] \subseteq applied'[m],
         Places \subseteq Places',
         \A j \in Places' : j \in Places \/ ~ j.tracked,
         \A u \in Workers : worker'[u] \in Marking => worker'[u] = worker[u]
  PROVE  HandledInv'
<1>1. \A e, r, n : Further(e, r, n) => Further(e, r, n)'
  BY DEF Further
<1>2. \A e, r : InHand(e, r) => InHand(e, r)'
  BY PlacesHold, PlacesHoldNext DEF HandledInv
<1>3. \A e \in Events : Tracked(e)' => Tracked(e)
  BY DEF Tracked
<1>4. \A e \in Events : \A r \in ToSet(batch[e]) : r.id \in Messages
  BY BatchesTyped, BatchIds DEF HandledInv
<1>5. \A u \in Workers : worker[u] \in Marking => \A r \in ToSet(worker[u].job.batch) : r.id \in Messages
  BY Shapes, BatchesTyped, BatchIds DEF HandledInv
<1>6. MarkHolds'
  <2>1. SUFFICES ASSUME NEW u \in Workers, worker'[u] \in Marking,
                        ~ (~ worker'[u].handedOn /\ worker'[u].job.tracked),
                        NEW r \in ToSet(worker'[u].job.batch)
                 PROVE  \/ r.status \in applied'[r.id]
                        \/ <<worker'[u].job.event, r>> \in dropped'
                        \/ \E j \in Places' : /\ j.event = worker'[u].job.event
                                              /\ j.attempt > worker'[u].job.attempt
                                              /\ r \in ToSet(j.batch)
    BY DEF MarkHolds, Further
  <2>2. worker'[u] = worker[u]
    BY <2>1
  <2>3. \/ r.status \in applied[r.id]
        \/ <<worker[u].job.event, r>> \in dropped
        \/ Further(worker[u].job.event, r, worker[u].job.attempt)
    BY <2>1, <2>2 DEF HandledInv, MarkHolds
  <2>4. r.id \in Messages
    BY <1>5, <2>1, <2>2
  <2>. QED  BY <1>1, <2>2, <2>3, <2>4 DEF Further
<1>7. EventHolds'
  <2>1. SUFFICES ASSUME NEW e \in Events, event[e] # "NONE"
                 PROVE  Handled(e)' \/ (event[e] = "FAILED" /\ ~ Tracked(e)')
    BY DEF EventHolds
  <2>2. CASE Handled(e)
    BY <1>2, <1>4, <2>2 DEF Handled
  <2>3. CASE event[e] = "FAILED" /\ ~ Tracked(e)
    BY <1>3, <2>3
  <2>. QED  BY <2>1, <2>2, <2>3 DEF HandledInv, EventHolds
<1>. QED  BY <1>6, <1>7 DEF HandledInv

(* The jobs are where they were when no run changes its job.               *)
LEMMA SameJobs ==
  ASSUME queue' = queue, event' = event, batch' = batch, OneTracked,
         \A u \in Workers : (Held(u)' <=> Held(u)) /\ (Held(u) => worker'[u].job = worker[u].job)
  PROVE  OneTracked' /\ Places' = Places
<1>1. Places' = Places
  BY DEF Places
<1>2. OneTracked'
  BY DEF OneTracked, JobSound
<1>. QED  BY <1>1, <1>2

(* A step of a run that is still applying.                                 *)
LEMMA HandledApplying ==
  ASSUME HandledInv, TypeOK', NEW w \in Workers,
         SetAside(w) \/ ApplyReceipt(w) \/ MirrorMoves(w)
  PROVE  HandledInv'
<1>. USE DEF HandledInv
<1>. DEFINE k == worker[w]
            h == Head(k.todo)
<1>1. /\ queue' = queue /\ event' = event /\ batch' = batch /\ dropped' = dropped
      /\ \A m \in Messages : applied[m] \subseteq applied'[m]
  <2>1. CASE SetAside(w)
    BY <2>1 DEF SetAside
  <2>2. CASE MirrorMoves(w)
    BY <2>2 DEF MirrorMoves
  <2>3. CASE ApplyReceipt(w)
    BY <2>3 DEF ApplyReceipt, TypeOK
  <2>. QED  BY <2>1, <2>2, <2>3
<1>2. /\ Applies(w) /\ worker'[w] \in Applying /\ WorkersTyped'
      /\ worker'[w].job = k.job
      /\ \A u \in Workers : u # w => worker'[u] = worker[u]
  BY SetAsideFields, ApplyFields, MirrorFields
<1>3. Held(w) /\ Held(w)'
  BY <1>2, Shapes DEF Held, Applying, NoJob
<1>4. OneTracked' /\ Places' = Places
  BY <1>1, <1>2, <1>3, SameJobs DEF Held
<1>5. \A r \in ToSet(k.todo) \union ToSet(k.orphans) \union k.expired :
         \/ r \in ToSet(worker'[w].todo) \union ToSet(worker'[w].orphans) \union worker'[w].expired
         \/ r.status \in applied'[r.id]
  <2>1. CASE SetAside(w)
    <3>1. ToSet(k.todo) = {h} \union ToSet(worker'[w].todo)
      BY <2>1, SetAsideFields, HeadTail
    <3>2. ToSet(worker'[w].orphans) \union worker'[w].expired
            = ToSet(k.orphans) \union k.expired \union {h}
      BY <2>1, SetAsideFields
    <3>. QED  BY <3>1, <3>2
  <2>2. CASE MirrorMoves(w)
    BY <2>2, MirrorFields
  <2>3. CASE ApplyReceipt(w)
    <3>1. /\ ToSet(k.todo) = {h} \union ToSet(worker'[w].todo)
          /\ worker'[w].orphans = k.orphans /\ worker'[w].expired = k.expired
      <4>1. /\ k.todo \in Seq(Receipt) /\ k.todo # <<>>
            /\ h = Head(k.todo) /\ worker'[w].todo = Tail(k.todo)
            /\ worker'[w].orphans = k.orphans /\ worker'[w].expired = k.expired
        BY <2>3, ApplyFields
      <4>2. ToSet(k.todo) = {Head(k.todo)} \union ToSet(Tail(k.todo))
        BY <4>1, HeadTail
      <4>. QED  BY <4>1, <4>2
    <3>2. h.id \in Messages /\ applied' = [applied EXCEPT ![h.id] = @ \union {h.status}]
      BY <2>3, ApplyFields
    <3>. HIDE DEF h
    <3>3. h.status \in applied'[h.id]
      BY <3>2 DEF TypeOK
    <3>. QED  BY <3>1, <3>3
  <2>. QED  BY <2>1, <2>2, <2>3
<1>6. BatchSplit'
  <2>1. SUFFICES ASSUME NEW u \in Workers, Applies(u)', NEW r \in ToSet(worker'[u].job.batch)
                 PROVE  \/ r.status \in applied'[r.id]
                        \/ r \in ToSet(worker'[u].todo) \union ToSet(worker'[u].orphans)
                                   \union worker'[u].expired
    BY DEF BatchSplit
  <2>2. Applies(u) /\ worker'[u].job = worker[u].job
    BY <1>2, <2>1 DEF Applies
  <2>3. r.id \in Messages
    BY <2>1, <2>2, Shapes, BatchesTyped, BatchIds
  <2>4. CASE r.status \in applied[r.id]
    BY <1>1, <2>3, <2>4
  <2>5. CASE r \in ToSet(worker[u].todo) \union ToSet(worker[u].orphans) \union worker[u].expired
    BY <1>2, <1>5, <2>5
  <2>. QED  BY <2>1, <2>2, <2>4, <2>5 DEF BatchSplit
<1>7. \A u \in Workers : worker'[u] \in Marking => worker'[u] = worker[u]
  BY <1>2 DEF Applying, Marking
<1>. QED  BY <1>1, <1>2, <1>4, <1>6, <1>7, HandledFrame

(* StartBatch moves a job from the queue to a run that has it all to do.   *)
LEMMA HandledStart ==
  ASSUME HandledInv, TypeOK', NEW w \in Workers, NEW job \in queue, StartBatch(w, job)
  PROVE  HandledInv'
<1>. USE DEF HandledInv
<1>1. /\ queue' = queue \ {job} /\ event' = event /\ batch' = batch
      /\ dropped' = dropped /\ applied' = applied
  BY DEF StartBatch
<1>2. /\ worker[w] = NoJob /\ job \in Job /\ worker'[w] \in Applying /\ WorkersTyped'
      /\ \A u \in Workers : u # w => worker'[u] = worker[u]
      /\ worker'[w].job = job /\ worker'[w].todo = job.batch
  BY StartFields
<1>3. ~ Held(w) /\ Held(w)' /\ \A u \in Workers : u # w => (Held(u)' <=> Held(u))
  BY <1>2 DEF Held, Applying, NoJob
<1>4. Places' = Places
  BY <1>1, <1>2, <1>3 DEF Places
<1>5. OneTracked'
  <2>1. \A j \in queue : JobSound(j)'
    BY <1>1 DEF OneTracked, JobSound
  <2>2. \A u \in Workers : Held(u)' =>
           /\ event'[worker'[u].job.event] # "NONE"
           /\ worker'[u].job.tracked => /\ worker'[u].job.batch = batch'[worker'[u].job.event]
                                        /\ worker'[u].job.attempt = 0
    BY <1>1, <1>2, <1>3 DEF OneTracked, JobSound
  <2>3. \A u, v \in Workers : u # v /\ Held(u)' /\ Held(v)'
           /\ worker'[u].job.tracked /\ worker'[v].job.tracked
           => worker'[u].job.event # worker'[v].job.event
    BY <1>2, <1>3 DEF OneTracked
  <2>4. \A u \in Workers : \A j \in queue' : Held(u)'
           /\ worker'[u].job.tracked /\ j.tracked => worker'[u].job.event # j.event
    <3>1. SUFFICES ASSUME NEW u \in Workers, NEW j \in queue', Held(u)',
                          worker'[u].job.tracked, j.tracked,
                          worker'[u].job.event = j.event
                   PROVE  FALSE
      OBVIOUS
    <3>2. CASE u # w
      BY <1>1, <1>2, <1>3, <3>1, <3>2 DEF OneTracked
    <3>3. CASE u = w
      <4>1. /\ j \in Job /\ job \in Job /\ j # job /\ j.tracked /\ job.tracked
            /\ j.event = job.event
        BY <1>1, <1>2, <3>1, <3>3 DEF TypeOK
      <4>2. j.batch = job.batch /\ j.attempt = job.attempt
        BY <1>1, <4>1 DEF OneTracked, JobSound
      <4>3. j.tracked = job.tracked
        BY <4>1, JobFields
      <4>. QED  BY <4>1, <4>2, <4>3 DEF Job
    <3>. QED  BY <3>2, <3>3
  <2>. QED  BY <1>1, <2>1, <2>2, <2>3, <2>4 DEF OneTracked, JobSound
<1>6. BatchSplit'
  BY <1>1, <1>2 DEF BatchSplit, Applies
<1>7. \A u \in Workers : worker'[u] \in Marking => worker'[u] = worker[u]
  BY <1>2 DEF Applying, Marking
<1>. QED  BY <1>1, <1>2, <1>4, <1>5, <1>6, <1>7, HandledFrame

(* DeferOrphans leaves every receipt of the batch somewhere.               *)
LEMMA HandledDefer ==
  ASSUME HandledInv, TypeOK', NEW w \in Workers, DeferOrphans(w)
  PROVE  HandledInv'
<1>. USE DEF HandledInv
<1>. DEFINE k == worker[w]
            job == k.job
            deferred == OrphansToDefer(w)
            later == [event |-> job.event, tracked |-> FALSE,
                      batch |-> deferred, attempt |-> job.attempt + 1]
            expired == Given(job, k.expired \union (ToSet(k.orphans) \ ToSet(deferred)))
            refused == Given(job, ToSet(deferred))
<1>1. event' = event /\ batch' = batch /\ applied' = applied
  BY DEF DeferOrphans
<1>2. /\ Applies(w) /\ worker'[w] \in Marking /\ WorkersTyped'
      /\ \A u \in Workers : u # w => worker'[u] = worker[u]
      /\ k.todo = <<>> /\ worker'[w].job = job /\ job \in Job
      /\ expired \subseteq dropped' /\ dropped \subseteq dropped'
      /\ \/ /\ worker'[w].handedOn
            /\ queue' = IF deferred = <<>> THEN queue ELSE queue \union {later}
         \/ /\ ~ worker'[w].handedOn
            /\ queue' = queue
            /\ job.tracked \/ refused \subseteq dropped'
  BY DeferFields
<1>3. later.event = job.event /\ ~ later.tracked /\ later.batch = deferred /\ later.attempt = job.attempt + 1
  OBVIOUS
<1>4. Held(w) /\ Held(w)' /\ \A u \in Workers : Held(u)' <=> Held(u)
  BY <1>2, Shapes DEF Held, Marking, NoJob
<1>5. k.job = job /\ event[job.event] # "NONE"
  BY <1>4 DEF OneTracked, JobSound
<1>6. job.attempt \in Nat
  BY <1>2, JobFields
<1>. HIDE DEF later, job
<1>7. queue' = queue \/ queue' = queue \union {later}
  BY <1>2
<1>8. \A u \in Workers : Held(u) => worker'[u].job = worker[u].job
  BY <1>2, <1>5
<1>9. Places' = Places \/ Places' = Places \union {later}
  BY <1>4, <1>7, <1>8 DEF Places
<1>10. OneTracked'
  BY <1>1, <1>3, <1>4, <1>5, <1>7, <1>8 DEF OneTracked, JobSound
<1>11. BatchSplit'
  <2>1. \A u \in Workers : Applies(u)' => u # w
    BY <1>2 DEF Applies, Applying, Marking
  <2>. QED  BY <1>1, <1>2, <2>1 DEF BatchSplit, Applies
<1>12. \A r \in ToSet(job.batch) :
          \/ r.status \in applied[r.id] \/ r \in ToSet(k.orphans) \/ r \in k.expired
  <2>1. ToSet(k.todo) = {}
    BY <1>2 DEF ToSet
  <2>. QED  BY <1>2, <1>5, <2>1 DEF BatchSplit
<1>13. \A r \in (k.expired \union ToSet(k.orphans)) \ ToSet(deferred) : <<job.event, r>> \in dropped'
  <2>1. SUFFICES ASSUME NEW r \in (k.expired \union ToSet(k.orphans)) \ ToSet(deferred)
                 PROVE  <<job.event, r>> \in expired
    BY <1>2
  <2>. QED  BY DEF Given
<1>14. \A r \in k.expired : <<job.event, r>> \in dropped'
  <2>1. SUFFICES ASSUME NEW r \in k.expired PROVE <<job.event, r>> \in expired
    BY <1>2
  <2>. QED  BY DEF Given
<1>15. \A r \in ToSet(deferred) : <<job.event, r>> \in refused
  BY DEF Given
<1>. HIDE DEF expired, refused, deferred
<1>16. \A r \in ToSet(deferred) : deferred # <<>>
  BY DEF ToSet
<1>17. \A e \in Events : \A r, n : Further(e, r, n) =>
          \E j \in Places' : j.event = e /\ j.attempt > n /\ r \in ToSet(j.batch)
  BY <1>9 DEF Further
<1>18. MarkHolds'
  <2>1. SUFFICES ASSUME NEW u \in Workers, worker'[u] \in Marking,
                        ~ (~ worker'[u].handedOn /\ worker'[u].job.tracked),
                        NEW r \in ToSet(worker'[u].job.batch)
                 PROVE  \/ r.status \in applied'[r.id]
                        \/ <<worker'[u].job.event, r>> \in dropped'
                        \/ \E j \in Places' : /\ j.event = worker'[u].job.event
                                              /\ j.attempt > worker'[u].job.attempt
                                              /\ r \in ToSet(j.batch)
    BY DEF MarkHolds, Further
  <2>2. CASE u # w
    BY <1>1, <1>2, <1>9, <2>1, <2>2 DEF MarkHolds, Further
  <2>3. CASE u = w
    <3>1. CASE r.status \in applied[r.id] \/ r \in k.expired
                  \/ r \in ToSet(k.orphans) \ ToSet(deferred)
      BY <1>1, <1>2, <1>13, <1>14, <2>3, <3>1
    <3>2. CASE r \in ToSet(deferred)
      <4>1. CASE worker'[w].handedOn
        <5>1. later \in queue'
          BY <1>2, <1>16, <3>2, <4>1
        <5>2. later \in Places' /\ later.attempt > job.attempt
          BY <1>3, <1>6, <5>1 DEF Places
        <5>. QED  BY <1>2, <1>3, <2>3, <3>2, <5>2
      <4>2. CASE ~ worker'[w].handedOn
        BY <1>2, <1>15, <2>1, <2>3, <3>2, <4>2
      <4>. QED  BY <4>1, <4>2
    <3>. QED  BY <1>2, <1>12, <2>1, <2>3, <3>1, <3>2
  <2>. QED  BY <2>2, <2>3
<1>19. EventHolds'
  <2>1. SUFFICES ASSUME NEW e \in Events, event[e] # "NONE"
                 PROVE  Handled(e)' \/ (event[e] = "FAILED" /\ ~ Tracked(e)')
    BY <1>1 DEF EventHolds
  <2>2. CASE Handled(e)
    <3>1. \A r : InHand(e, r) => InHand(e, r)'
      BY <1>2, <1>9, PlacesHold, PlacesHoldNext
    <3>. QED  BY <1>1, <1>2, <2>2, <3>1 DEF Handled
  <2>3. CASE event[e] = "FAILED" /\ ~ Tracked(e)
    BY <1>3, <1>9, <2>3 DEF Tracked
  <2>. QED  BY <2>1, <2>2, <2>3 DEF EventHolds
<1>. QED  BY <1>2, <1>10, <1>11, <1>18, <1>19

(* Deliver puts the whole batch into a job.                                *)
LEMMA HandledDeliver ==
  ASSUME HandledInv, TypeOK', WorkersTyped', NEW e \in Events, NEW b \in Batches, Deliver(e, b)
  PROVE  HandledInv'
<1>. USE DEF HandledInv
<1>. DEFINE new == [event |-> e, tracked |-> TRUE, batch |-> b, attempt |-> 0]
<1>1. /\ event[e] = "NONE" /\ event' = [event EXCEPT ![e] = "RECEIVED"]
      /\ batch' = [batch EXCEPT ![e] = b] /\ queue' = queue \union {new}
      /\ worker' = worker /\ applied' = applied /\ dropped' = dropped
  BY DEF Deliver
<1>2. new.event = e /\ new.tracked /\ new.batch = b /\ new.attempt = 0
  OBVIOUS
<1>. HIDE DEF new
<1>3. /\ \A j \in queue : j.event # e /\ j.event \in Events
      /\ \A u \in Workers : Held(u) => worker[u].job.event # e /\ worker[u].job.event \in Events
  BY <1>1, Shapes, JobFields DEF OneTracked, JobSound, TypeOK
<1>4. \A j \in Places : j.event # e
  BY <1>3 DEF Places
<1>5. Places' = Places \union {new}
  BY <1>1 DEF Places, Held
<1>6. /\ event'[e] = "RECEIVED" /\ batch'[e] = b
      /\ \A d \in Events : d # e => event'[d] = event[d] /\ batch'[d] = batch[d]
  BY <1>1 DEF TypeOK
<1>7. OneTracked'
  <2>1. \A u \in Workers : Held(u)' <=> Held(u)
    BY <1>1 DEF Held
  <2>2. \A j \in queue' : JobSound(j)'
    BY <1>1, <1>2, <1>3, <1>6 DEF OneTracked, JobSound
  <2>3. \A u \in Workers : Held(u) =>
           /\ event'[worker[u].job.event] # "NONE"
           /\ worker[u].job.tracked => /\ worker[u].job.batch = batch'[worker[u].job.event]
                                       /\ worker[u].job.attempt = 0
    BY <1>3, <1>6 DEF OneTracked, JobSound
  <2>. QED  BY <1>1, <1>2, <1>3, <2>1, <2>2, <2>3 DEF OneTracked, JobSound
<1>8. BatchSplit'
  BY <1>1 DEF BatchSplit, Applies
<1>9. MarkHolds'
  BY <1>1, <1>5 DEF MarkHolds, Further
<1>10. EventHolds'
  <2>1. SUFFICES ASSUME NEW d \in Events, event'[d] # "NONE"
                 PROVE  Handled(d)' \/ (event'[d] = "FAILED" /\ ~ Tracked(d)')
    BY DEF EventHolds
  <2>2. \A c, r : (\E j \in Places' : j.event = c /\ r \in ToSet(j.batch)) => InHand(c, r)'
    BY PlacesHoldNext
  <2>3. CASE d = e
    BY <1>2, <1>5, <1>6, <2>2, <2>3 DEF Handled
  <2>4. CASE d # e
    <3>1. \A r : InHand(d, r) => InHand(d, r)'
      BY <1>5, <2>2, PlacesHold
    <3>2. Tracked(d)' => Tracked(d)
      BY <1>2, <1>5, <2>4 DEF Tracked
    <3>. QED  BY <1>1, <1>6, <2>1, <2>4, <3>1, <3>2 DEF EventHolds, Handled
  <2>. QED  BY <2>3, <2>4
<1>. QED  BY <1>7, <1>8, <1>9, <1>10

(* What the end of a run that keeps its promise leaves of one receipt.     *)
LEMMA MarkLeaves ==
  ASSUME HandledInv, NEW w \in Workers, worker[w] \in Marking,
         NEW r \in ToSet(worker[w].job.batch),
         ~ (~ worker[w].handedOn /\ worker[w].job.tracked),
         Places \ {worker[w].job} \subseteq Places'
  PROVE  \/ r.status \in applied[r.id]
         \/ <<worker[w].job.event, r>> \in dropped
         \/ \E j \in Places' : /\ j.event = worker[w].job.event
                               /\ j.attempt > worker[w].job.attempt
                               /\ r \in ToSet(j.batch)
<1>1. worker[w].job.attempt \in Nat
  BY Shapes, JobFields DEF HandledInv
<1>2. \A j \in Places : j.attempt > worker[w].job.attempt => j # worker[w].job
  BY <1>1
<1>. QED  BY <1>2 DEF HandledInv, MarkHolds, Further

(* MarkEvent marks PROCESSED only what its run, or a later job, has.       *)
LEMMA HandledMark ==
  ASSUME HandledInv, TypeOK', NEW w \in Workers, MarkEvent(w)
  PROVE  HandledInv'
<1>. USE DEF HandledInv
<1>. DEFINE job == worker[w].job
            Kept == ~ (~ worker[w].handedOn /\ job.tracked)
<1>1. /\ batch' = batch /\ queue' = queue /\ applied' = applied /\ dropped' = dropped
      /\ event' = IF job.tracked
                  THEN [event EXCEPT ![job.event] =
                           IF worker[w].handedOn THEN "PROCESSED" ELSE "FAILED"]
                  ELSE event
  BY DEF MarkEvent
<1>2. /\ worker[w] \in Marking /\ job \in Job /\ worker'[w] = NoJob /\ WorkersTyped'
      /\ \A u \in Workers : u # w => worker'[u] = worker[u]
  BY MarkFields
<1>3. /\ Held(w) /\ ~ Held(w)' /\ \A u \in Workers : u # w => (Held(u)' <=> Held(u))
      /\ \A u \in Workers : Held(u)' => Held(u) /\ u # w
      /\ job.event \in Events /\ job.attempt \in Nat
  BY <1>2, Shapes, JobFields DEF Held
<1>4. Places \ {job} \subseteq Places' /\ Places' \subseteq Places /\ job \in Places
  BY <1>1, <1>2, <1>3 DEF Places
<1>5. \A j \in Places' : job.tracked /\ j.tracked => j.event # job.event
  BY <1>1, <1>2, <1>3 DEF Places, OneTracked
<1>6. job.tracked => job.attempt = 0
  BY <1>3 DEF OneTracked, JobSound
<1>7. /\ \A d \in Events : event[d] # "NONE" => event'[d] # "NONE"
      /\ \A d \in Events : d # job.event \/ ~ job.tracked => event'[d] = event[d]
      /\ job.tracked /\ ~ worker[w].handedOn => event'[job.event] = "FAILED"
  BY <1>1, <1>3 DEF TypeOK
<1>8. OneTracked'
  <2>1. /\ \A j \in queue : j.event \in Events
        /\ \A u \in Workers : Held(u) => worker[u].job.event \in Events
    BY Shapes, JobFields DEF TypeOK
  <2>2. \A j \in queue' : JobSound(j)'
    BY <1>1, <1>7, <2>1 DEF OneTracked, JobSound
  <2>3. \A u \in Workers : Held(u) =>
           /\ event'[worker[u].job.event] # "NONE"
           /\ worker[u].job.tracked => /\ worker[u].job.batch = batch'[worker[u].job.event]
                                       /\ worker[u].job.attempt = 0
    BY <1>1, <1>7, <2>1 DEF OneTracked, JobSound
  <2>. QED  BY <1>1, <1>2, <1>3, <2>2, <2>3 DEF OneTracked, JobSound
<1>9. BatchSplit'
  <2>1. \A u \in Workers : Applies(u)' => u # w
    BY <1>2 DEF Applies, Applying, NoJob
  <2>. QED  BY <1>1, <1>2, <2>1 DEF BatchSplit, Applies
<1>. HIDE DEF job
<1>10. Kept => \A r \in ToSet(job.batch) :
          \/ r.status \in applied[r.id] \/ <<job.event, r>> \in dropped
          \/ \E j \in Places' : j.event = job.event /\ j.attempt > job.attempt /\ r \in ToSet(j.batch)
  BY <1>2, <1>4, MarkLeaves DEF job
<1>11. MarkHolds'
  <2>1. SUFFICES ASSUME NEW u \in Workers, worker'[u] \in Marking,
                        ~ (~ worker'[u].handedOn /\ worker'[u].job.tracked),
                        NEW r \in ToSet(worker'[u].job.batch)
                 PROVE  \/ r.status \in applied'[r.id]
                        \/ <<worker'[u].job.event, r>> \in dropped'
                        \/ \E j \in Places' : /\ j.event = worker'[u].job.event
                                              /\ j.attempt > worker'[u].job.attempt
                                              /\ r \in ToSet(j.batch)
    BY DEF MarkHolds, Further
  <2>2. u # w /\ worker'[u] = worker[u]
    BY <1>2, <2>1 DEF Marking, NoJob
  <2>3. \/ r.status \in applied[r.id]
        \/ <<worker[u].job.event, r>> \in dropped
        \/ \E j \in Places : /\ j.event = worker[u].job.event
                             /\ j.attempt > worker[u].job.attempt
                             /\ r \in ToSet(j.batch)
    BY <2>1, <2>2 DEF MarkHolds, Further
  <2>4. CASE \E j \in Places : /\ j.event = worker[u].job.event
                               /\ j.attempt > worker[u].job.attempt
                               /\ r \in ToSet(j.batch)
    <3>1. PICK j \in Places : /\ j.event = worker[u].job.event
                              /\ j.attempt > worker[u].job.attempt
                              /\ r \in ToSet(j.batch)
      BY <2>4
    <3>2. CASE j # job
      BY <1>4, <2>2, <3>1, <3>2
    <3>3. CASE j = job
      <4>1. worker[u].job.attempt \in Nat
        BY <2>1, <2>2, Shapes, JobFields
      <4>2. job.attempt > 0
        BY <1>3, <3>1, <3>3, <4>1
      <4>3. Kept
        BY <1>6, <4>2
      <4>4. \A n \in Nat : n > job.attempt => n > worker[u].job.attempt
        BY <1>3, <3>1, <3>3, <4>1
      <4>5. \A i \in Places' : i.attempt \in Nat
        BY PlacesHoldNext, <1>2, JobFields
      <4>. QED  BY <1>1, <1>10, <2>2, <3>1, <3>3, <4>3, <4>4, <4>5
    <3>. QED  BY <3>2, <3>3
  <2>. QED  BY <1>1, <2>2, <2>3, <2>4
<1>12. ASSUME NEW e \in Events, Handled(e), e # job.event \/ Kept
       PROVE  Handled(e)'
  <2>1. SUFFICES ASSUME NEW r \in ToSet(batch[e])
                 PROVE  r.status \in applied[r.id] \/ InHand(e, r)' \/ <<e, r>> \in dropped
    BY <1>1 DEF Handled
  <2>2. CASE InHand(e, r)
    <3>1. PICK j \in Places : j.event = e /\ r \in ToSet(j.batch)
      BY <2>2, PlacesHold
    <3>2. CASE j # job
      BY <1>2, <1>4, <3>1, <3>2, PlacesHoldNext
    <3>3. CASE j = job
      BY <1>2, <1>10, <1>12, <3>1, <3>3, PlacesHoldNext
    <3>. QED  BY <3>2, <3>3
  <2>. QED  BY <1>12, <2>1, <2>2 DEF Handled
<1>13. EventHolds'
  <2>1. SUFFICES ASSUME NEW e \in Events, event'[e] # "NONE"
                 PROVE  Handled(e)' \/ (event'[e] = "FAILED" /\ ~ Tracked(e)')
    BY DEF EventHolds
  <2>2. CASE e = job.event /\ ~ Kept
    BY <1>5, <1>7, <2>2 DEF Tracked
  <2>3. CASE e # job.event \/ Kept
    <3>1. event[e] # "NONE"
      BY <1>3, <1>7, <2>1 DEF OneTracked, JobSound, job
    <3>2. CASE Handled(e)
      BY <1>12, <2>3, <3>2
    <3>3. CASE event[e] = "FAILED" /\ ~ Tracked(e)
      <4>1. ~ (job.tracked /\ e = job.event)
        BY <1>4, <3>3 DEF Tracked
      <4>. QED  BY <1>4, <1>7, <3>3, <4>1 DEF Tracked
    <3>. QED  BY <3>1, <3>2, <3>3 DEF EventHolds
  <2>. QED  BY <2>2, <2>3
<1>. QED  BY <1>2, <1>8, <1>9, <1>11, <1>13

(* Abort puts the job back, or gives up all it has.                        *)
LEMMA HandledAbort ==
  ASSUME HandledInv, TypeOK', NEW w \in Workers, Abort(w)
  PROVE  HandledInv'
<1>. USE DEF HandledInv
<1>. DEFINE job == worker[w].job
<1>1. /\ Held(w) /\ job \in Job /\ worker'[w] = NoJob /\ WorkersTyped'
      /\ \A u \in Workers : u # w => worker'[u] = worker[u]
      /\ \/ job.tracked /\ event' = [event EXCEPT ![job.event] = "FAILED"]
         \/ event' = event
      /\ \/ queue' = queue \union {job} /\ dropped' = dropped
         \/ queue' = queue /\ dropped' = dropped \union Given(job, ToSet(job.batch))
      /\ batch' = batch /\ applied' = applied
  BY AbortFields DEF Abort
<1>2. /\ ~ Held(w)' /\ \A u \in Workers : Held(u)' => Held(u) /\ u # w
      /\ \A u \in Workers : u # w => (Held(u)' <=> Held(u))
      /\ job.event \in Events
  BY <1>1, JobFields DEF Held
<1>3. /\ \A d \in Events : event'[d] = event[d] \/ (d = job.event /\ event'[d] = "FAILED")
      /\ \A d \in Events : event[d] # "NONE" <=> event'[d] # "NONE"
  BY <1>1, <1>2 DEF TypeOK, OneTracked, JobSound
<1>4. Places' \subseteq Places
  BY <1>1, <1>2 DEF Places
<1>5. \/ Places' = Places
      \/ /\ Places \ {job} \subseteq Places'
         /\ \A r \in ToSet(job.batch) : <<job.event, r>> \in dropped'
  <2>1. CASE queue' = queue \union {job}
    BY <1>1, <1>2, <2>1 DEF Places
  <2>2. CASE queue' = queue /\ dropped' = dropped \union Given(job, ToSet(job.batch))
    <3>1. \A r \in ToSet(job.batch) : <<job.event, r>> \in Given(job, ToSet(job.batch))
      BY DEF Given
    <3>. QED  BY <1>1, <1>2, <2>2, <3>1 DEF Places
  <2>. QED  BY <1>1, <2>1, <2>2
<1>6. OneTracked'
  <2>1. /\ \A j \in queue : j.event \in Events
        /\ \A u \in Workers : Held(u) => worker[u].job.event \in Events
    BY Shapes, JobFields DEF TypeOK
  <2>2. /\ JobSound(job) /\ \A j \in queue' : j \in queue \/ j = job
    BY <1>1 DEF OneTracked
  <2>3. \A j \in queue' : JobSound(j)'
    BY <1>1, <1>2, <1>3, <2>1, <2>2 DEF OneTracked, JobSound
  <2>4. \A u \in Workers : Held(u) =>
           /\ event'[worker[u].job.event] # "NONE"
           /\ worker[u].job.tracked => /\ worker[u].job.batch = batch'[worker[u].job.event]
                                       /\ worker[u].job.attempt = 0
    BY <1>1, <1>3, <2>1 DEF OneTracked, JobSound
  <2>. QED  BY <1>1, <1>2, <2>2, <2>3, <2>4 DEF OneTracked, JobSound
<1>7. BatchSplit'
  BY <1>1, <1>2 DEF BatchSplit, Applies, Applying, NoJob
<1>. HIDE DEF job
<1>8. dropped \subseteq dropped'
  BY <1>1
<1>9. \A j \in Places : \A r : r \in ToSet(j.batch) => j \in Places' \/ <<j.event, r>> \in dropped'
  BY <1>5
<1>10. MarkHolds'
  <2>1. SUFFICES ASSUME NEW u \in Workers, worker'[u] \in Marking,
                        ~ (~ worker'[u].handedOn /\ worker'[u].job.tracked),
                        NEW r \in ToSet(worker'[u].job.batch)
                 PROVE  \/ r.status \in applied'[r.id]
                        \/ <<worker'[u].job.event, r>> \in dropped'
                        \/ \E j \in Places' : /\ j.event = worker'[u].job.event
                                              /\ j.attempt > worker'[u].job.attempt
                                              /\ r \in ToSet(j.batch)
    BY DEF MarkHolds, Further
  <2>2. u # w /\ worker'[u] = worker[u]
    BY <1>1, <2>1 DEF Marking, NoJob
  <2>3. \/ r.status \in applied[r.id]
        \/ <<worker[u].job.event, r>> \in dropped
        \/ \E j \in Places : /\ j.event = worker[u].job.event
                             /\ j.attempt > worker[u].job.attempt
                             /\ r \in ToSet(j.batch)
    BY <2>1, <2>2 DEF MarkHolds, Further
  <2>. QED  BY <1>1, <1>8, <1>9, <2>2, <2>3
<1>11. EventHolds'
  <2>1. SUFFICES ASSUME NEW e \in Events, event'[e] # "NONE"
                 PROVE  Handled(e)' \/ (event'[e] = "FAILED" /\ ~ Tracked(e)')
    BY DEF EventHolds
  <2>2. CASE Handled(e)
    <3>1. \A r : InHand(e, r) => InHand(e, r)' \/ <<e, r>> \in dropped'
      BY <1>1, <1>9, PlacesHold, PlacesHoldNext
    <3>. QED  BY <1>1, <1>8, <2>2, <3>1 DEF Handled
  <2>3. CASE event[e] = "FAILED" /\ ~ Tracked(e)
    BY <1>3, <1>4, <2>3 DEF Tracked
  <2>. QED  BY <1>3, <2>1, <2>2, <2>3 DEF EventHolds
<1>. QED  BY <1>1, <1>6, <1>7, <1>10, <1>11

(* Every step keeps what is known of the events.                           *)
LEMMA HandledStep ==
  ASSUME HandledInv, [Next]_vars
  PROVE  HandledInv'
<1>0. TypeOK' /\ WorkersTyped'
  BY TypeStep DEF HandledInv, TypeInv
<1>1. ASSUME NEW m \in Messages, RecordWamid(m) \/ MirrorQueued(m)
      PROVE  HandledInv'
  <2>1. UNCHANGED <<worker, queue, event, batch, applied, dropped>>
    BY <1>1 DEF RecordWamid, MirrorQueued
  <2>. QED  BY <1>0, <2>1 DEF HandledInv, OneTracked, JobSound, BatchSplit, Applies, MarkHolds,
                     Further, Places, Held, EventHolds, Handled, Tracked, InHand
<1>2. ASSUME UNCHANGED vars PROVE HandledInv'
  <2>1. UNCHANGED <<worker, queue, event, batch, applied, dropped>>
    BY <1>2 DEF vars
  <2>. QED  BY <1>0, <2>1 DEF HandledInv, OneTracked, JobSound, BatchSplit, Applies, MarkHolds,
                     Further, Places, Held, EventHolds, Handled, Tracked, InHand
<1>3. ASSUME NEW e \in Events, NEW b \in Batches, Deliver(e, b)
      PROVE  HandledInv'
  BY <1>0, <1>3, HandledDeliver
<1>4. ASSUME NEW w \in Workers, NEW job \in queue, StartBatch(w, job)
      PROVE  HandledInv'
  BY <1>0, <1>4, HandledStart
<1>5. ASSUME NEW w \in Workers, SetAside(w) \/ ApplyReceipt(w) \/ MirrorMoves(w)
      PROVE  HandledInv'
  BY <1>0, <1>5, HandledApplying
<1>6. ASSUME NEW w \in Workers, DeferOrphans(w) \/ MarkEvent(w) \/ Abort(w)
      PROVE  HandledInv'
  BY <1>0, <1>6, HandledDefer, HandledMark, HandledAbort
<1>. QED  BY <1>1, <1>2, <1>3, <1>4, <1>5, <1>6, StepCases

(* At the start there is no event.                                         *)
LEMMA HandledInit ==
  ASSUME Init
  PROVE  HandledInv
<1>1. TypeOK /\ WorkersTyped
  BY TypeInit DEF TypeInv
<1>2. \A w \in Workers : ~ Applies(w) /\ ~ Held(w) /\ worker[w] \notin Marking
  BY DEF Init, Applies, Applying, Marking, Held, NoJob
<1>. QED
  BY <1>1, <1>2 DEF Init, HandledInv, OneTracked, BatchSplit, MarkHolds, EventHolds

(***************************************************************************)
(* An event that is marked PROCESSED has had every receipt applied, handed *)
(* on to a job that has it, or given up, for any batches, any number of    *)
(* jobs and deaths, and any cap on the attempts.                           *)
(***************************************************************************)
THEOREM HandledCorrect == Spec => []ProcessedMeansHandled
<1>1. Init => HandledInv
  BY HandledInit
<1>2. HandledInv /\ [Next]_vars => HandledInv'
  BY HandledStep
<1>3. HandledInv => ProcessedMeansHandled
  BY DEF HandledInv, EventHolds, Handled, ProcessedMeansHandled
<1>. QED  BY <1>1, <1>2, <1>3, PTL DEF Spec
-----------------------------------------------------------------------------
(***************************************************************************)
(* The inductive strengthenings of CampaignCounters.                       *)
(***************************************************************************)
Notes == [Keys -> Nat]
Totals == 0..Cardinality(Contacts)

Noting == [step : {"noteGet"}, key : Keys] \union
          [step : {"noteSet"}, key : Keys, copy : Notes]

\* A recount has a reason: the note it saw, or that it could see none.
Seen == (Notes \ {NoNote}) \union {Unreadable}

Tallying == [step : {"count"}, seen : Seen,
             tally : UNION {[S -> Totals] : S \in SUBSET Counters}]
Comparing == [step : {"compare"}, seen : Seen]
Clearing == [step : {"clear"}, now : Notes]

Queueing == [step : {"queue"}, copy : Nat, queued : Nat]

CallersTyped ==
    /\ tick \in {Idle} \union Queueing
    /\ mover \in [Movers -> {Idle} \union Noting]
    /\ recount \in [Recounts -> {Idle} \union Tallying \union Comparing \union Clearing]

\* The contacts of a stage are never more than there are, and one who left
\* PENDING does not come back: no count of queuedCount, old or new, is above
\* what the rows say now.
QueuedBounded ==
    /\ counter["queuedCount"] <= Tally("queuedCount")
    /\ tick # Idle => tick.copy + tick.queued <= Tally("queuedCount")
    /\ \A u \in Recounts :
         recount[u].step = "count" /\ "queuedCount" \in DOMAIN recount[u].tally =>
            recount[u].tally["queuedCount"] <= Tally("queuedCount")

CountersTypedInv == CountersTypeOK /\ CallersTyped /\ QueuedBounded

\* Nothing went wrong that CountersSettle excepts, and the campaign is not
\* cancelled.
Clean == excuse \subseteq {"late"}
Live == phase \in ActivePhases

Told == Counters \ {"queuedCount"}
Busy == \E v \in Movers : mover[v] # Idle

\* The note a recount started from; nothing, if it could not be read.
Base(u) == IF recount[u].seen = Unreadable THEN NoNote ELSE recount[u].seen

Grown(n, b) == \A k \in Keys : b[k] <= n[k]

OneRecount ==
    "overlap" \notin excuse =>
        \A u, w \in Recounts : recount[u] # Idle /\ recount[w] # Idle => u = w

\* While it works, the note a recount saw can only be added to.
NoteGrows ==
    Clean => \A u \in Recounts :
        /\ recount[u].step \in {"count", "compare"} => Grown(note, Base(u))
        /\ recount[u].step = "clear" => Grown(note, recount[u].now) /\ recount[u].now # NoNote

\* A total that is behind has a note, or somebody who is about to write one.
Untold ==
    Clean /\ Live => \A s \in Told : counter[s] = Tally(s) \/ note # NoNote \/ Busy

\* And so has a count a recount has made or written, since it started.
SinceCounted ==
    Clean /\ Live => \A u \in Recounts, s \in Told :
        /\ recount[u].step = "count" /\ s \in DOMAIN recount[u].tally =>
              recount[u].tally[s] = Tally(s) \/ note # Base(u) \/ Busy
        /\ recount[u].step = "compare" => counter[s] = Tally(s) \/ note # Base(u) \/ Busy
        /\ recount[u].step = "clear" => counter[s] = Tally(s) \/ note # recount[u].now \/ Busy

\* queuedCount has no note: the tick knows the difference.
TickKnows ==
    Clean /\ Live =>
        /\ tick = Idle => counter["queuedCount"] = Tally("queuedCount")
        /\ tick # Idle => /\ tick.copy + tick.queued = Tally("queuedCount")
                          /\ counter["queuedCount"] >= tick.copy
        /\ \A u \in Recounts :
             recount[u].step = "count" /\ "queuedCount" \in DOMAIN recount[u].tally =>
                recount[u].tally["queuedCount"] >=
                    IF tick = Idle THEN Tally("queuedCount") ELSE tick.copy

SettleInv == CountersTypedInv /\ OneRecount /\ NoteGrows /\ Untold /\ SinceCounted /\ TickKnows

\* What Meta reported last is what the recipient's row says, if it says so.
ReceiptShown ==
    \A c \in Contacts : standing[c] \in {"SENT", "DELIVERED", "READ"} => receipt[c] = standing[c]

Rising == Counters \intersect {"deliveredCount", "respondedCount"}

\* Totals and counts of a recount lag behind the rows, in the order in which
\* they were taken.
InOrder ==
    excuse \intersect {"overlap", "late"} = {} => \A s \in Rising :
        /\ counter[s] <= Tally(s)
        /\ \A u \in Recounts :
             recount[u].step = "count" /\ s \in DOMAIN recount[u].tally =>
                counter[s] <= recount[u].tally[s] /\ recount[u].tally[s] <= Tally(s)

FunnelInv == CountersTypedInv /\ OneRecount /\ ReceiptShown /\ InOrder
(***************************************************************************)
(* How the totals follow the rows.                                         *)
(***************************************************************************)
\* What Tally says of a set of rows.
Total(stage, rows) == Cardinality({c \in Contacts : rows[c] \in Funnel[stage]})

\* A total is a number of contacts.
LEMMA TotalType ==
  ASSUME NEW stage, NEW rows
  PROVE  Total(stage, rows) \in Totals
<1>1. IsFiniteSet(Contacts)
  BY CampaignCountersAssumption
<1>2. {c \in Contacts : rows[c] \in Funnel[stage]} \in SUBSET Contacts
  OBVIOUS
<1>3. /\ IsFiniteSet({c \in Contacts : rows[c] \in Funnel[stage]})
      /\ Cardinality({c \in Contacts : rows[c] \in Funnel[stage]}) <= Cardinality(Contacts)
  BY <1>1, <1>2, FS_Subset
<1>4. /\ Cardinality(Contacts) \in Nat
      /\ Cardinality({c \in Contacts : rows[c] \in Funnel[stage]}) \in Nat
  BY <1>1, <1>3, FS_CardinalityType
<1> QED
  BY <1>3, <1>4 DEF Total, Totals

\* Tally is the total of the rows as they are, and as they will be.
LEMMA TallyIsTotal ==
  \A s : Tally(s) = Total(s, standing) /\ Tally(s)' = Total(s, standing')
BY DEF Tally, Total

\* A total depends on which rows count only.
LEMMA SameTotal ==
  ASSUME NEW stage, NEW rows, NEW rows2,
         \A c \in Contacts : rows[c] \in Funnel[stage] <=> rows2[c] \in Funnel[stage]
  PROVE  Total(stage, rows) = Total(stage, rows2)
<1>1. {c \in Contacts : rows[c] \in Funnel[stage]} = {c \in Contacts : rows2[c] \in Funnel[stage]}
  OBVIOUS
<1> QED
  BY <1>1 DEF Total

\* A total rises with the rows that count.
LEMMA TotalRises ==
  ASSUME NEW stage, NEW rows, NEW rows2,
         \A c \in Contacts : rows[c] \in Funnel[stage] => rows2[c] \in Funnel[stage]
  PROVE  Total(stage, rows) <= Total(stage, rows2)
<1> DEFINE S == {c \in Contacts : rows[c] \in Funnel[stage]}
           T == {c \in Contacts : rows2[c] \in Funnel[stage]}
<1>1. S \in SUBSET T /\ T \in SUBSET Contacts
  OBVIOUS
<1>2. IsFiniteSet(T)
  BY <1>1, CampaignCountersAssumption, FS_Subset
<1>3. Cardinality(S) <= Cardinality(T)
  BY <1>1, <1>2, FS_Subset
<1> QED
  BY <1>3 DEF Total

\* One row that did not count and does now is one more.
LEMMA OneMore ==
  ASSUME NEW stage, NEW rows, NEW rows2, NEW c \in Contacts,
         rows[c] \notin Funnel[stage], rows2[c] \in Funnel[stage],
         \A d \in Contacts \ {c} : rows2[d] = rows[d]
  PROVE  Total(stage, rows2) = Total(stage, rows) + 1
<1> DEFINE S == {d \in Contacts : rows[d] \in Funnel[stage]}
           T == {d \in Contacts : rows2[d] \in Funnel[stage]}
<1>1. T = S \union {c} /\ c \notin S /\ S \in SUBSET Contacts
  OBVIOUS
<1>2. IsFiniteSet(S)
  BY <1>1, CampaignCountersAssumption, FS_Subset
<1>3. Cardinality(S \union {c}) = Cardinality(S) + 1
  BY <1>1, <1>2, FS_AddElement
<1> QED
  BY <1>1, <1>3 DEF Total

\* The stages: PENDING counts for none, QUEUED for queuedCount alone.
LEMMA Stages ==
  /\ "queuedCount" \in Counters
  /\ \A s \in Counters : "PENDING" \notin Funnel[s]
  /\ \A s \in Told : "QUEUED" \notin Funnel[s]
  /\ \A t \in Standing : t \in Funnel["queuedCount"] <=> t # "PENDING"
BY CampaignCountersAssumption DEF Told, Funnel, Standing

\* A note that cannot be read is not a note.
LEMMA UnreadableIsNone == Unreadable \notin Notes /\ NoNote \in Notes
<1>1. DOMAIN Unreadable = {"unreadable"}
  BY DEF Unreadable
<1>2. "failed" \in Keys /\ "failed" \notin {"unreadable"}
  BY DEF Keys
<1>3. \A n \in Notes : DOMAIN n = Keys
  BY DEF Notes
<1> QED
  BY <1>1, <1>2, <1>3 DEF Notes, NoNote

\* What is idle is neither a tick, a mover nor a recount at work, and each
\* step has its name.
LEMMA StepNames ==
  /\ Idle.step = "idle"
  /\ \A k \in Queueing : k.step = "queue"
  /\ \A k \in Noting : k.step \in {"noteGet", "noteSet"}
  /\ \A k \in Tallying : k.step = "count"
  /\ \A k \in Comparing : k.step = "compare"
  /\ \A k \in Clearing : k.step = "clear"
BY DEF Idle, Queueing, Noting, Tallying, Comparing, Clearing

(***************************************************************************)
(* Types: what every caller holds, and the bounds of queuedCount.          *)
(***************************************************************************)
\* The contacts can be counted, so the totals are natural numbers.
LEMMA TotalsAreNat == Totals \subseteq Nat /\ 0 \in Totals
<1>1. Cardinality(Contacts) \in Nat
  BY CampaignCountersAssumption, FS_CardinalityType
<1> QED
  BY <1>1 DEF Totals

\* The campaign starts without numbers.
LEMMA CountersTypedInit == CountersInit => CountersTypedInv
<1> SUFFICES ASSUME CountersInit PROVE CountersTypedInv
  OBVIOUS
<1>1. Tally("queuedCount") \in Nat
  BY TotalType, TallyIsTotal, TotalsAreNat
<1>2. counter \in [Counters -> Totals] /\ counter["queuedCount"] = 0
  BY TotalsAreNat, Stages DEF CountersInit
<1>3. CountersTypeOK
  BY <1>2, UnreadableIsNone, CampaignCountersAssumption
     DEF CountersInit, CountersTypeOK, Totals, Notes, Standing, MessageStatus, ActivePhases, Excuses
<1>4. CallersTyped
  BY DEF CountersInit, CallersTyped
<1>5. QueuedBounded
  BY <1>1, <1>2, StepNames DEF CountersInit, QueuedBounded
<1> QED
  BY <1>3, <1>4, <1>5 DEF CountersTypedInv

\* What is true of every tally of a recount that is counting.
LEMMA TallyFields ==
  ASSUME CountersTypedInv, NEW u \in Recounts, recount[u].step = "count"
  PROVE  /\ recount[u] \in Tallying
         /\ DOMAIN recount[u].tally \subseteq Counters
         /\ \A s \in DOMAIN recount[u].tally : recount[u].tally[s] \in Totals
         /\ recount[u].seen \in Seen
BY StepNames DEF CountersTypedInv, CallersTyped, Tallying

\* The rows only move away from PENDING, so QueuedBounded is kept by every
\* step that writes no number.
LEMMA BoundsKept ==
  ASSUME CountersTypedInv, UNCHANGED counter,
         \A c \in Contacts : standing'[c] = "PENDING" => standing[c] = "PENDING",
         standing' \in [Contacts -> Standing],
         tick' \in {tick, Idle},
         \A u \in Recounts : recount'[u].step = "count" =>
            \/ recount'[u] = recount[u]
            \/ recount'[u].tally = <<>>
  PROVE  QueuedBounded'
<1>1. Tally("queuedCount") <= Tally("queuedCount")'
  <2>1. \A c \in Contacts : standing[c] \in Funnel["queuedCount"] => standing'[c] \in Funnel["queuedCount"]
    BY Stages DEF CountersTypedInv, CountersTypeOK
  <2> QED
    BY <2>1, TotalRises, TallyIsTotal
<1>2. Tally("queuedCount") \in Nat /\ Tally("queuedCount")' \in Nat
  BY TotalType, TallyIsTotal, TotalsAreNat
<1>3. counter["queuedCount"] \in Nat
  BY Stages, TotalsAreNat DEF CountersTypedInv, CountersTypeOK, Totals
<1>4. counter["queuedCount"]' <= Tally("queuedCount")'
  BY <1>1, <1>2, <1>3 DEF CountersTypedInv, QueuedBounded
<1>5. tick' # Idle => tick'.copy + tick'.queued <= Tally("queuedCount")'
  <2> SUFFICES ASSUME tick' # Idle PROVE tick'.copy + tick'.queued <= Tally("queuedCount")'
    OBVIOUS
  <2>1. tick' = tick /\ tick \in Queueing
    BY DEF CountersTypedInv, CallersTyped
  <2>2. tick.copy \in Nat /\ tick.queued \in Nat /\ tick.copy + tick.queued <= Tally("queuedCount")
    BY <2>1 DEF CountersTypedInv, QueuedBounded, Queueing
  <2> QED
    BY <2>1, <2>2, <1>1, <1>2
<1>6. ASSUME NEW u \in Recounts, recount'[u].step = "count",
             "queuedCount" \in DOMAIN recount'[u].tally
      PROVE  recount'[u].tally["queuedCount"] <= Tally("queuedCount")'
  <2>1. recount'[u] = recount[u]
    BY <1>6
  <2>2. recount[u].tally["queuedCount"] \in Nat
    BY <2>1, <1>6, TallyFields, TotalsAreNat
  <2>3. recount[u].tally["queuedCount"] <= Tally("queuedCount")
    BY <2>1, <1>6 DEF CountersTypedInv, QueuedBounded
  <2> QED
    BY <2>1, <2>2, <2>3, <1>1, <1>2
<1> QED
  BY <1>4, <1>5, <1>6 DEF QueuedBounded

\* The runner's tick keeps the types: each row it queues is one more.
LEMMA CountersTypedTick ==
  ASSUME CountersTypedInv,
         TickStart \/ (\E c \in Contacts : TickQueue(c)) \/ TickEnd \/ TickDies
  PROVE  CountersTypedInv'
<1> USE DEF CountersTypedInv
<1>q. "queuedCount" \in Counters /\ counter \in [Counters -> Totals] /\ Totals \subseteq Nat
  BY Stages, TotalsAreNat DEF CountersTypeOK, Totals
<1>t. /\ Tally("queuedCount") \in Nat /\ Tally("queuedCount")' \in Nat
      /\ counter["queuedCount"] \in Nat
      /\ \A n \in Nat : n <= Tally("queuedCount") \/ n <= Tally("queuedCount")' => n \in Totals
  <2>1. Tally("queuedCount") \in Totals /\ Tally("queuedCount")' \in Totals
    BY TotalType, TallyIsTotal
  <2>2. Cardinality(Contacts) \in Nat
    BY CampaignCountersAssumption, FS_CardinalityType
  <2> QED
    BY <2>1, <2>2, <1>q DEF Totals
<1>1. CASE TickStart
  <2>1. tick' = [step |-> "queue", copy |-> counter["queuedCount"], queued |-> 0]
    BY <1>1 DEF TickStart
  <2>2. tick' \in Queueing
    BY <2>1, <1>q DEF Queueing
  <2>3. CountersTypeOK' /\ CallersTyped'
    BY <1>1, <2>2 DEF TickStart, CountersTypeOK, CallersTyped
  <2>4. Tally("queuedCount")' = Tally("queuedCount")
    BY <1>1 DEF TickStart, Tally
  <2>5. tick'.copy + tick'.queued <= Tally("queuedCount")'
    BY <2>1, <2>4, <1>q, <1>t DEF QueuedBounded
  <2> QED
    BY <2>3, <2>4, <2>5, <1>1 DEF TickStart, QueuedBounded
<1>2. ASSUME NEW c \in Contacts, TickQueue(c) PROVE CountersTypedInv'
  <2>1. tick \in Queueing /\ standing[c] = "PENDING"
    BY <1>2 DEF TickQueue, CallersTyped
  <2>2. /\ counter' = counter /\ recount' = recount /\ mover' = mover /\ phase' = phase
        /\ note' = note /\ receipt' = receipt
    BY <1>2 DEF TickQueue
  <2>3. CASE tick' = [tick EXCEPT !.queued = @ + 1] /\ standing' = [standing EXCEPT ![c] = "QUEUED"]
             /\ UNCHANGED <<slips, excuse>>
    <3>1. /\ tick' \in Queueing /\ tick'.copy = tick.copy /\ tick'.queued = tick.queued + 1
          /\ tick.copy \in Nat /\ tick.queued \in Nat
      BY <2>3, <2>1 DEF Queueing
    <3>2. Tally("queuedCount")' = Tally("queuedCount") + 1
      <4>1. /\ standing[c] \notin Funnel["queuedCount"] /\ standing'[c] \in Funnel["queuedCount"]
            /\ \A d \in Contacts \ {c} : standing'[d] = standing[d]
        BY <2>1, <2>3, Stages DEF CountersTypeOK, Standing
      <4> QED
        BY <4>1, OneMore, TallyIsTotal
    <3>3. CountersTypeOK' /\ CallersTyped'
      BY <2>3, <2>2, <3>1 DEF CountersTypeOK, CallersTyped, Standing
    <3>4. tick # Idle
      BY <2>1, StepNames
    <3>5. tick.copy + tick.queued <= Tally("queuedCount")
      BY <3>4 DEF QueuedBounded
    <3>6. counter["queuedCount"] <= Tally("queuedCount")'
      BY <3>2, <1>q, <1>t DEF QueuedBounded
    <3>7. ASSUME NEW u \in Recounts, recount[u].step = "count",
                 "queuedCount" \in DOMAIN recount[u].tally
          PROVE  recount[u].tally["queuedCount"] <= Tally("queuedCount")'
      <4>1. recount[u].tally["queuedCount"] \in Nat
        BY <3>7, TallyFields, TotalsAreNat
      <4>2. recount[u].tally["queuedCount"] <= Tally("queuedCount")
        BY <3>7 DEF QueuedBounded
      <4> QED
        BY <4>1, <4>2, <3>2, <1>q, <1>t
    <3>8. tick'.copy + tick'.queued <= Tally("queuedCount")'
      BY <3>1, <3>2, <3>5, <1>q, <1>t
    <3> QED
      BY <3>3, <3>6, <3>7, <3>8, <2>2 DEF QueuedBounded
  <2>4. CASE tick' = tick /\ standing' = [standing EXCEPT ![c] = "FAILED"]
             /\ slips < MaxSlips /\ slips' = slips + 1 /\ Excused("unnoted", TRUE)
    <3>1. excuse' \subseteq Excuses /\ slips' \in 0..MaxSlips
      BY <2>4, CampaignCountersAssumption DEF Excused, Excuses, CountersTypeOK
    <3>2. CountersTypeOK' /\ CallersTyped'
      BY <2>4, <2>2, <3>1 DEF CountersTypeOK, CallersTyped, Standing
    <3>3. \A d \in Contacts : standing'[d] = "PENDING" => standing[d] = "PENDING"
      BY <2>4 DEF CountersTypeOK
    <3>4. standing' \in [Contacts -> Standing]
      BY <3>2 DEF CountersTypeOK
    <3> QED
      BY <3>2, <3>3, <3>4, <2>2, <2>4, BoundsKept
  <2> QED
    BY <1>2, <2>3, <2>4 DEF TickQueue
<1>3. CASE TickEnd
  <2>1. tick \in Queueing /\ tick # Idle /\ tick.copy \in Nat /\ tick.queued \in Nat
    BY <1>3 DEF TickEnd, CallersTyped, Queueing
  <2>2. tick.copy + tick.queued <= Tally("queuedCount")
    BY <2>1 DEF QueuedBounded
  <2>3. tick.copy + tick.queued \in Totals
    BY <2>1, <2>2, <1>t
  <2>4. /\ counter' \in [Counters -> Totals]
        /\ counter'["queuedCount"] \in {counter["queuedCount"], tick.copy + tick.queued}
        /\ excuse' \in SUBSET Excuses
    BY <1>3, <2>3, <1>q DEF TickEnd, Excused, Excuses, CountersTypeOK
  <2>5. /\ tick' = Idle /\ standing' = standing /\ recount' = recount /\ mover' = mover
        /\ phase' = phase /\ note' = note /\ receipt' = receipt /\ slips' = slips
    BY <1>3 DEF TickEnd
  <2>6. Tally("queuedCount")' = Tally("queuedCount")
    BY <2>5 DEF Tally
  <2>7. CountersTypeOK' /\ CallersTyped'
    BY <2>4, <2>5 DEF CountersTypeOK, CallersTyped, Totals
  <2> QED
    BY <2>2, <2>4, <2>5, <2>6, <2>7 DEF QueuedBounded
<1>4. CASE TickDies
  <2>1. /\ tick' = Idle /\ slips' = slips + 1 /\ slips < MaxSlips
        /\ UNCHANGED <<standing, receipt, phase, counter, mover, note, recount>>
        /\ excuse' \in SUBSET Excuses
    BY <1>4 DEF TickDies, Excused, Excuses, CountersTypeOK
  <2>2. CountersTypeOK' /\ CallersTyped'
    BY <2>1, CampaignCountersAssumption DEF CountersTypeOK, CallersTyped
  <2> QED
    BY <2>1, <2>2, BoundsKept DEF CountersTypeOK
<1> QED
  BY <1>1, <1>2, <1>3, <1>4

\* The end of a campaign keeps the types.
LEMMA CountersTypedEnd ==
  ASSUME CountersTypedInv, NEW to \in {"COMPLETED", "CANCELLED"}, EndCampaign(to)
  PROVE  CountersTypedInv'
<1> USE DEF CountersTypedInv
<1>1. /\ UNCHANGED <<receipt, counter, tick, mover, note, recount, slips, excuse>>
      /\ phase' = to
      /\ standing' = [c \in Contacts |-> IF standing[c] = "PENDING" THEN "SKIPPED" ELSE standing[c]]
  BY DEF EndCampaign
<1>2. standing' \in [Contacts -> Standing] /\ \A c \in Contacts : standing'[c] # "PENDING"
  BY <1>1 DEF CountersTypeOK, Standing
<1>3. CountersTypeOK' /\ CallersTyped'
  BY <1>1, <1>2 DEF CountersTypeOK, CallersTyped, ActivePhases
<1> QED
  BY <1>1, <1>2, <1>3, BoundsKept

\* What the three ways to move a recipient have in common.
Moved(v, c, to, key) ==
    /\ Move(v, c, to, key)
    /\ standing[c] \notin {"PENDING", "SKIPPED"}
    /\ to \in Standing \ {"PENDING", "QUEUED", "SKIPPED"} /\ key \in Keys
    /\ receipt' \in [Contacts -> MessageStatus]
    /\ excuse' \in {excuse, excuse \union {"late"}}

\* Each of them is one.
LEMMA MovesAreMoved ==
  ASSUME CountersTypedInv, NEW v \in Movers, NEW c \in Contacts,
         SendFails(v, c) \/ Reply(v, c) \/ \E s \in Reported : ReceiptMoves(v, c, s)
  PROVE  \E to \in Standing, key \in Keys : Moved(v, c, to, key)
<1> USE DEF CountersTypedInv, CountersTypeOK
<1>1. CASE SendFails(v, c)
  <2>1. Moved(v, c, "FAILED", "failed")
    BY <1>1 DEF SendFails, Moved, Standing, Keys, MessageStatus
  <2> QED
    BY <2>1 DEF Standing, Keys
<1>2. CASE Reply(v, c)
  <2>1. Moved(v, c, "RESPONDED", "responded")
    BY <1>2 DEF Reply, Moved, Standing, Keys
  <2> QED
    BY <2>1 DEF Standing, Keys
<1>3. ASSUME NEW s \in Reported, ReceiptMoves(v, c, s)
      PROVE  \E to \in Standing, key \in Keys : Moved(v, c, to, key)
  <2>1. s \in {"SENT", "DELIVERED", "READ"}
    BY CampaignCountersAssumption
  <2>2. s \in Standing \ {"PENDING", "QUEUED", "SKIPPED"} /\ s \in Keys /\ s \in MessageStatus
    BY <2>1 DEF Standing, Keys, MessageStatus
  <2>3. Moved(v, c, s, s)
    BY <1>3, <2>2 DEF ReceiptMoves, Moved, Excused
  <2> QED
    BY <2>2, <2>3
<1> QED
  BY <1>1, <1>2, <1>3

\* A move keeps the types.
LEMMA CountersTypedMove ==
  ASSUME CountersTypedInv, NEW v \in Movers, NEW c \in Contacts,
         NEW to \in Standing, NEW key \in Keys, Moved(v, c, to, key)
  PROVE  CountersTypedInv'
<1> USE DEF CountersTypedInv
<1>1. /\ UNCHANGED <<phase, counter, tick, note, recount, slips>>
      /\ standing' = [standing EXCEPT ![c] = to]
      /\ mover' = [mover EXCEPT ![v] = [step |-> "noteGet", key |-> key]]
      /\ to # "PENDING" /\ receipt' \in [Contacts -> MessageStatus]
      /\ excuse' \in {excuse, excuse \union {"late"}}
  BY DEF Moved, Move
<1>2. [step |-> "noteGet", key |-> key] \in Noting
  BY DEF Noting
<1>3. standing' \in [Contacts -> Standing]
      /\ \A d \in Contacts : standing'[d] = "PENDING" => standing[d] = "PENDING"
  BY <1>1 DEF CountersTypeOK
<1>4. mover' \in [Movers -> {Idle} \union Noting]
  BY <1>1, <1>2 DEF CallersTyped
<1>5. excuse' \subseteq Excuses
  BY <1>1 DEF CountersTypeOK, Excuses
<1>6. CountersTypeOK' /\ CallersTyped'
  BY <1>1, <1>3, <1>4, <1>5 DEF CountersTypeOK, CallersTyped
<1> QED
  BY <1>1, <1>3, <1>6, BoundsKept

\* Writing a note keeps the types.
LEMMA CountersTypedNote ==
  ASSUME CountersTypedInv, NEW v \in Movers, NoteGet(v) \/ NoteSet(v) \/ NoteFails(v)
  PROVE  CountersTypedInv'
<1> USE DEF CountersTypedInv
<1>1. /\ UNCHANGED <<standing, receipt, phase, counter, tick, recount>>
      /\ standing' \in [Contacts -> Standing]
  BY DEF NoteGet, NoteSet, NoteFails, CountersTypeOK
<1>2. /\ mover' \in [Movers -> {Idle} \union Noting] /\ note' \in Notes
      /\ slips' \in 0..MaxSlips /\ excuse' \subseteq Excuses
  <2>1. CASE NoteGet(v)
    <3>1. mover[v] \in Noting /\ mover[v].key \in Keys
      BY <2>1, StepNames DEF NoteGet, CallersTyped, Noting
    <3>2. [step |-> "noteSet", key |-> mover[v].key, copy |-> note] \in Noting
      BY <3>1 DEF Noting, Notes, CountersTypeOK
    <3> QED
      BY <2>1, <3>2 DEF NoteGet, CallersTyped, CountersTypeOK, Notes
  <2>2. CASE NoteSet(v)
    <3>1. mover[v].key \in Keys /\ mover[v].copy \in Notes
      BY <2>2, StepNames DEF NoteSet, CallersTyped, Noting
    <3>2. note' = [mover[v].copy EXCEPT ![mover[v].key] = @ + 1]
      BY <2>2 DEF NoteSet
    <3>3. note' \in Notes
      BY <3>1, <3>2 DEF Notes
    <3> QED
      BY <2>2, <3>3 DEF NoteSet, CallersTyped, CountersTypeOK, Excused, Excuses
  <2>3. CASE NoteFails(v)
    BY <2>3, CampaignCountersAssumption DEF NoteFails, CallersTyped, CountersTypeOK, Excused, Excuses, Notes
  <2> QED
    BY <2>1, <2>2, <2>3
<1>3. CountersTypeOK' /\ CallersTyped'
  BY <1>1, <1>2 DEF CountersTypeOK, CallersTyped, Notes
<1> QED
  BY <1>1, <1>3, BoundsKept

\* A recount keeps the types: what it counts are totals.
LEMMA CountersTypedRecount ==
  ASSUME CountersTypedInv, NEW u \in Recounts,
         \/ RecountStart(u) \/ CountRows(u) \/ RecountWrite(u)
         \/ Compare(u) \/ Clear(u) \/ RecountFails(u)
  PROVE  CountersTypedInv'
<1> USE DEF CountersTypedInv
<1>1. CASE RecountStart(u)
  <2>1. PICK seen \in {note, Unreadable} :
          /\ seen # NoNote
          /\ IF seen = Unreadable
             THEN slips < MaxSlips /\ slips' = slips + 1 ELSE UNCHANGED slips
          /\ recount' = [recount EXCEPT ![u] = [step |-> "count", seen |-> seen, tally |-> <<>>]]
    BY <1>1 DEF RecountStart
  <2>2. seen \in Seen
    BY <2>1 DEF Seen, Notes, CountersTypeOK
  <2>3. <<>> \in [{} -> Totals] /\ {} \in SUBSET Counters
    OBVIOUS
  <2>4. [step |-> "count", seen |-> seen, tally |-> <<>>] \in Tallying
    BY <2>2, <2>3 DEF Tallying
  <2>5. recount' \in [Recounts -> {Idle} \union Tallying \union Comparing \union Clearing]
    BY <2>1, <2>4 DEF CallersTyped
  <2>6. slips' \in 0..MaxSlips
    BY <2>1, CampaignCountersAssumption DEF CountersTypeOK
  <2>7. UNCHANGED <<standing, receipt, phase, counter, tick, mover, note>> /\ excuse' \subseteq Excuses
    BY <1>1 DEF RecountStart, Excused, Excuses, CountersTypeOK
  <2>8. CountersTypeOK' /\ CallersTyped'
    BY <2>5, <2>6, <2>7 DEF CountersTypeOK, CallersTyped
  <2>9. \A w \in Recounts : recount'[w] = recount[w] \/ recount'[w].tally = <<>>
    BY <2>1 DEF CallersTyped
  <2> QED
    BY <2>7, <2>8, <2>9, BoundsKept DEF CountersTypeOK
<1>2. CASE CountRows(u)
  <2>1. /\ recount[u].step = "count"
        /\ UNCHANGED <<standing, receipt, phase, counter, tick, mover, note, slips, excuse>>
    BY <1>2 DEF CountRows
  <2>2. PICK stages \in SUBSET (Counters \ DOMAIN recount[u].tally) \ {{}} :
          recount' = [recount EXCEPT ![u].tally =
             [s \in stages \union DOMAIN @ |-> IF s \in stages THEN Tally(s) ELSE @[s]]]
    BY <1>2 DEF CountRows
  <2> DEFINE new == [s \in stages \union DOMAIN recount[u].tally |->
                        IF s \in stages THEN Tally(s) ELSE recount[u].tally[s]]
  <2>3. /\ recount[u] \in Tallying /\ DOMAIN recount[u].tally \subseteq Counters
        /\ \A s \in DOMAIN recount[u].tally : recount[u].tally[s] \in Totals
    BY <2>1, TallyFields
  <2>4. \A s \in Counters : Tally(s) \in Totals
    BY TotalType, TallyIsTotal
  <2>5. new \in [stages \union DOMAIN recount[u].tally -> Totals]
        /\ stages \union DOMAIN recount[u].tally \in SUBSET Counters
    BY <2>3, <2>4
  <2>6. /\ recount' = [recount EXCEPT ![u] = [@ EXCEPT !.tally = new]]
        /\ new \in UNION {[S -> Totals] : S \in SUBSET Counters}
    BY <2>2, <2>5
  <2> HIDE DEF new
  <2>7. [recount[u] EXCEPT !.tally = new] \in Tallying
    BY <2>3, <2>6 DEF Tallying
  <2>8. recount' \in [Recounts -> {Idle} \union Tallying \union Comparing \union Clearing]
    BY <2>6, <2>7 DEF CallersTyped
  <2>9. CountersTypeOK' /\ CallersTyped'
    BY <2>1, <2>8 DEF CountersTypeOK, CallersTyped
  <2>10. Tally("queuedCount")' = Tally("queuedCount")
    BY <2>1 DEF Tally
  <2>11. ASSUME NEW w \in Recounts, recount'[w].step = "count",
                "queuedCount" \in DOMAIN recount'[w].tally
         PROVE  recount'[w].tally["queuedCount"] <= Tally("queuedCount")
    <3>1. CASE w # u
      <4>1. recount'[w] = recount[w]
        BY <3>1, <2>6 DEF CallersTyped
      <4> QED
        BY <4>1, <2>11 DEF QueuedBounded
    <3>2. CASE w = u
      <4>1. recount'[w].tally = new
        BY <3>2, <2>6, <2>3 DEF CallersTyped, Tallying
      <4>2. Tally("queuedCount") \in Nat
        BY TotalType, TallyIsTotal, TotalsAreNat
      <4>3. new["queuedCount"] = Tally("queuedCount")
            \/ /\ "queuedCount" \in DOMAIN recount[u].tally
               /\ new["queuedCount"] = recount[u].tally["queuedCount"]
        BY <4>1, <2>11 DEF new
      <4> QED
        BY <4>1, <4>2, <4>3, <2>1 DEF QueuedBounded
    <3> QED
      BY <3>1, <3>2
  <2> QED
    BY <2>1, <2>9, <2>10, <2>11 DEF QueuedBounded
<1>3. CASE RecountWrite(u)
  <2>1. /\ recount[u].step = "count" /\ DOMAIN recount[u].tally = Counters
        /\ counter' = recount[u].tally
        /\ recount' = [recount EXCEPT ![u] = [step |-> "compare", seen |-> recount[u].seen]]
        /\ UNCHANGED <<standing, receipt, phase, tick, mover, note, slips, excuse>>
    BY <1>3 DEF RecountWrite
  <2>2. /\ recount[u] \in Tallying /\ recount[u].seen \in Seen
        /\ \A s \in DOMAIN recount[u].tally : recount[u].tally[s] \in Totals
    BY <2>1, TallyFields
  <2>3. recount[u].tally \in [Counters -> Totals]
    BY <2>1, <2>2 DEF Tallying
  <2>4. [step |-> "compare", seen |-> recount[u].seen] \in Comparing
    BY <2>2 DEF Comparing
  <2>5. CountersTypeOK' /\ CallersTyped'
    BY <2>1, <2>3, <2>4 DEF CountersTypeOK, CallersTyped, Totals
  <2>6. Tally("queuedCount")' = Tally("queuedCount")
    BY <2>1 DEF Tally
  <2>7. counter'["queuedCount"] <= Tally("queuedCount")
    BY <2>1, Stages DEF QueuedBounded
  <2>8. \A w \in Recounts : recount'[w].step = "count" => recount'[w] = recount[w]
    BY <2>1, <2>4, StepNames DEF CallersTyped
  <2> QED
    BY <2>1, <2>5, <2>6, <2>7, <2>8 DEF QueuedBounded
<1>4. CASE Compare(u) \/ Clear(u) \/ RecountFails(u)
  <2>1. /\ UNCHANGED <<standing, receipt, phase, counter, tick, mover>>
        /\ slips' \in 0..MaxSlips /\ excuse' \subseteq Excuses /\ note' \in Notes
    BY <1>4, CampaignCountersAssumption, UnreadableIsNone
       DEF Compare, Clear, RecountFails, Excused, Excuses, CountersTypeOK, Notes
  <2>2. PICK k \in {Idle, [step |-> "clear", now |-> note]} : recount' = [recount EXCEPT ![u] = k]
    BY <1>4 DEF Compare, Clear, RecountFails
  <2>3. k \in {Idle} \union Clearing
    BY <2>2 DEF Clearing, CountersTypeOK, Notes
  <2>4. recount' \in [Recounts -> {Idle} \union Tallying \union Comparing \union Clearing]
    BY <2>2, <2>3 DEF CallersTyped
  <2>5. CountersTypeOK' /\ CallersTyped'
    BY <2>1, <2>4 DEF CountersTypeOK, CallersTyped, Notes
  <2>6. \A w \in Recounts : recount'[w].step = "count" => recount'[w] = recount[w]
    BY <2>2, <2>3, StepNames DEF CallersTyped
  <2> QED
    BY <2>1, <2>5, <2>6, BoundsKept DEF CountersTypeOK
<1> QED
  BY <1>1, <1>2, <1>3, <1>4

(***************************************************************************)
(* CountersSettle.                                                         *)
(***************************************************************************)
\* What is excused stays excused, and a campaign that was cancelled stays so.
LEMMA ExcusesStay ==
  ASSUME CountersNext
  PROVE  excuse \subseteq excuse' /\ (Live' => Live)
<1> USE DEF Excused, Live, ActivePhases
<1>1. CASE TickStart \/ TickEnd \/ TickDies \/ \E c \in Contacts : TickQueue(c)
  BY <1>1 DEF TickStart, TickEnd, TickDies, TickQueue
<1>2. CASE \E to \in {"COMPLETED", "CANCELLED"} : EndCampaign(to)
  BY <1>2 DEF EndCampaign
<1>3. CASE \E v \in Movers, c \in Contacts :
             SendFails(v, c) \/ Reply(v, c) \/ \E s \in Reported : ReceiptMoves(v, c, s)
  BY <1>3 DEF SendFails, Reply, ReceiptMoves, Move
<1>4. CASE \E v \in Movers : NoteGet(v) \/ NoteSet(v) \/ NoteFails(v)
  BY <1>4 DEF NoteGet, NoteSet, NoteFails
<1>5. CASE \E u \in Recounts :
             \/ RecountStart(u) \/ CountRows(u) \/ RecountWrite(u)
             \/ Compare(u) \/ Clear(u) \/ RecountFails(u)
  BY <1>5 DEF RecountStart, CountRows, RecountWrite, Compare, Clear, RecountFails
<1> QED
  BY <1>1, <1>2, <1>3, <1>4, <1>5 DEF CountersNext

\* A step that touches no note, no caller of one and no total that a note is
\* about leaves everything but TickKnows as it is.
LEMMA ToldKept ==
  ASSUME SettleInv, UNCHANGED <<mover, note, recount>>,
         excuse \subseteq excuse', Live' => Live,
         Clean' /\ Live' => \A s \in Told : counter'[s] = counter[s] /\ Tally(s)' = Tally(s)
  PROVE  OneRecount' /\ NoteGrows' /\ Untold' /\ SinceCounted'
<1>1. Clean' => Clean
  BY DEF Clean
<1>2. \A u \in Recounts : Base(u)' = Base(u)
  BY DEF Base
<1>3. Busy' <=> Busy
  BY DEF Busy
<1>4. OneRecount'
  BY DEF SettleInv, OneRecount
<1>5. NoteGrows'
  BY <1>1, <1>2 DEF SettleInv, NoteGrows
<1>6. Untold'
  BY <1>1, <1>3 DEF SettleInv, Untold
<1>7. SinceCounted'
  BY <1>1, <1>2, <1>3 DEF SettleInv, SinceCounted
<1> QED
  BY <1>4, <1>5, <1>6, <1>7

\* The arithmetic of queuedCount.
LEMMA QueuedNumbers ==
  ASSUME CountersTypedInv
  PROVE  /\ Tally("queuedCount") \in Nat /\ Tally("queuedCount")' \in Nat
         /\ counter["queuedCount"] \in Nat
         /\ tick # Idle => tick \in Queueing /\ tick.copy \in Nat /\ tick.queued \in Nat
         /\ \A u \in Recounts :
              recount[u].step = "count" /\ "queuedCount" \in DOMAIN recount[u].tally =>
                 recount[u].tally["queuedCount"] \in Nat
<1>1. Tally("queuedCount") \in Nat /\ Tally("queuedCount")' \in Nat
  BY TotalType, TallyIsTotal, TotalsAreNat
<1>2. counter["queuedCount"] \in Nat
  BY Stages, TotalsAreNat DEF CountersTypedInv, CountersTypeOK, Totals
<1>3. tick # Idle => tick \in Queueing /\ tick.copy \in Nat /\ tick.queued \in Nat
  BY DEF CountersTypedInv, CallersTyped, Queueing
<1>4. \A u \in Recounts :
         recount[u].step = "count" /\ "queuedCount" \in DOMAIN recount[u].tally =>
            recount[u].tally["queuedCount"] \in Nat
  BY TallyFields, TotalsAreNat
<1> QED
  BY <1>1, <1>2, <1>3, <1>4

\* The runner's tick knows what it has queued.
LEMMA SettleTick ==
  ASSUME SettleInv, CountersNext,
         TickStart \/ (\E c \in Contacts : TickQueue(c)) \/ TickEnd \/ TickDies
  PROVE  SettleInv'
<1>1. CountersTypedInv /\ CountersTypedInv'
  BY CountersTypedTick DEF SettleInv
<1>2. UNCHANGED <<mover, note, recount>> /\ excuse \subseteq excuse' /\ (Live' => Live)
  BY ExcusesStay DEF TickStart, TickQueue, TickEnd, TickDies
<1>3. ASSUME Clean', NEW s \in Told
      PROVE  counter'[s] = counter[s] /\ Tally(s)' = Tally(s)
  <2>1. counter'[s] = counter[s]
    BY <1>1 DEF TickStart, TickQueue, TickEnd, TickDies, Told, CountersTypedInv, CountersTypeOK
  <2>2. standing' = standing \/ \E c \in Contacts :
           standing[c] = "PENDING" /\ standing' = [standing EXCEPT ![c] = "QUEUED"]
    BY <1>3 DEF TickStart, TickQueue, TickEnd, TickDies, Excused, Clean
  <2>3. \A c \in Contacts : standing[c] \in Funnel[s] <=> standing'[c] \in Funnel[s]
    BY <2>2, <1>1, Stages DEF Told, CountersTypedInv, CountersTypeOK
  <2> QED
    BY <2>1, <2>3, SameTotal, TallyIsTotal
<1>4. OneRecount' /\ NoteGrows' /\ Untold' /\ SinceCounted'
  BY <1>2, <1>3, ToldKept
<1>5. TickKnows'
  <2> SUFFICES ASSUME Clean', Live'
               PROVE  /\ tick' = Idle => counter'["queuedCount"] = Tally("queuedCount")'
                      /\ tick' # Idle => /\ tick'.copy + tick'.queued = Tally("queuedCount")'
                                         /\ counter'["queuedCount"] >= tick'.copy
                      /\ \A u \in Recounts :
                           recount[u].step = "count" /\ "queuedCount" \in DOMAIN recount[u].tally =>
                              recount[u].tally["queuedCount"] >=
                                 IF tick' = Idle THEN Tally("queuedCount")' ELSE tick'.copy
    BY <1>2 DEF TickKnows
  <2>1. Clean /\ Live
    BY <1>2 DEF Clean
  <2> DEFINE T == Tally("queuedCount")
             q == counter["queuedCount"]
             C(u) == recount[u].step = "count" /\ "queuedCount" \in DOMAIN recount[u].tally
             t(u) == recount[u].tally["queuedCount"]
  <2>2. /\ T \in Nat /\ T' \in Nat /\ q \in Nat /\ \A u \in Recounts : C(u) => t(u) \in Nat
        /\ tick # Idle => tick \in Queueing /\ tick.copy \in Nat /\ tick.queued \in Nat
    BY <1>1, QueuedNumbers
  <2>3. /\ tick = Idle => q = T /\ \A u \in Recounts : C(u) => t(u) >= T
        /\ tick # Idle => /\ tick.copy + tick.queued = T /\ q >= tick.copy
                          /\ \A u \in Recounts : C(u) => t(u) >= tick.copy
    BY <2>1 DEF SettleInv, TickKnows
  <2>4. q <= T /\ \A u \in Recounts : C(u) => t(u) <= T
    BY <1>1 DEF CountersTypedInv, QueuedBounded
  <2>5. CASE TickStart
    <3>1. /\ tick = Idle /\ tick' = [step |-> "queue", copy |-> q, queued |-> 0]
          /\ standing' = standing /\ counter' = counter
      BY <2>5 DEF TickStart
    <3>2. T' = T
      BY <3>1 DEF Tally
    <3>3. tick' # Idle /\ tick'.copy = q /\ tick'.queued = 0
      BY <3>1 DEF Idle
    <3> QED
      BY <3>1, <3>2, <3>3, <2>2, <2>3
  <2>6. ASSUME NEW c \in Contacts, TickQueue(c)
        PROVE  /\ tick' # Idle /\ tick'.copy + tick'.queued = T'
               /\ counter'["queuedCount"] >= tick'.copy
               /\ \A u \in Recounts : C(u) => t(u) >= tick'.copy
    <3>1. /\ tick # Idle /\ standing[c] = "PENDING" /\ tick' = [tick EXCEPT !.queued = @ + 1]
          /\ standing' = [standing EXCEPT ![c] = "QUEUED"] /\ counter' = counter
      BY <2>6 DEF TickQueue, Excused, Clean
    <3>2. T' = T + 1
      <4>1. /\ standing[c] \notin Funnel["queuedCount"] /\ standing'[c] \in Funnel["queuedCount"]
            /\ \A d \in Contacts \ {c} : standing'[d] = standing[d]
        BY <1>1, <3>1, Stages DEF CountersTypedInv, CountersTypeOK, Standing
      <4> QED
        BY <4>1, OneMore, TallyIsTotal
    <3>3. /\ tick' \in Queueing /\ tick'.copy = tick.copy /\ tick'.queued = tick.queued + 1
      BY <3>1, <2>2 DEF Queueing
    <3>4. tick' # Idle
      BY <3>3, StepNames
    <3> QED
      BY <3>1, <3>2, <3>3, <3>4, <2>2, <2>3
  <2>7. CASE TickEnd
    <3>1. tick # Idle /\ tick' = Idle /\ standing' = standing
      BY <2>7 DEF TickEnd
    <3>2. T' = T
      BY <3>1 DEF Tally
    <3>3. CASE tick.queued > 0
      <4>1. counter' = [counter EXCEPT !["queuedCount"] = tick.copy + tick.queued]
        BY <2>7, <3>3 DEF TickEnd
      <4>2. \A u \in Recounts : recount[u].step # "count"
        BY <2>7, <3>3 DEF TickEnd, Excused, Clean
      <4>3. counter'["queuedCount"] = T
        BY <4>1, <3>1, <2>3, <1>1, Stages DEF CountersTypedInv, CountersTypeOK
      <4> QED
        BY <3>1, <3>2, <4>2, <4>3
    <3>4. CASE ~ (tick.queued > 0)
      <4>1. counter' = counter
        BY <2>7, <3>4 DEF TickEnd
      <4>2. tick.copy = T
        BY <3>1, <3>4, <2>2, <2>3
      <4> QED
        BY <3>1, <3>2, <4>1, <4>2, <2>2, <2>3, <2>4
    <3> QED
      BY <3>3, <3>4
  <2>8. CASE TickDies
    <3>1. tick # Idle /\ tick' = Idle /\ standing' = standing /\ counter' = counter
      BY <2>8 DEF TickDies
    <3>2. T' = T
      BY <3>1 DEF Tally
    <3>3. ~ (tick.queued > 0)
      BY <2>8 DEF TickDies, Excused, Clean
    <3>4. tick.copy = T
      BY <3>1, <3>3, <2>2, <2>3
    <3> QED
      BY <3>1, <3>2, <3>4, <2>2, <2>3, <2>4
  <2> QED
    BY <2>5, <2>6, <2>7, <2>8
<1> QED
  BY <1>1, <1>4, <1>5 DEF SettleInv

\* The end of a campaign: nobody is PENDING any more, or nobody counts.
LEMMA SettleEnd ==
  ASSUME SettleInv, CountersNext, NEW to \in {"COMPLETED", "CANCELLED"}, EndCampaign(to)
  PROVE  SettleInv'
<1>1. CountersTypedInv /\ CountersTypedInv'
  BY CountersTypedEnd DEF SettleInv
<1>2. /\ UNCHANGED <<counter, tick, mover, note, recount, excuse>>
      /\ excuse \subseteq excuse' /\ (Live' => Live)
  BY ExcusesStay DEF EndCampaign
<1>3. Live' => standing' = standing
  <2> SUFFICES ASSUME Live' PROVE standing' = standing
    OBVIOUS
  <2>1. to = "COMPLETED"
    BY DEF EndCampaign, Live, ActivePhases
  <2>2. "PENDING" \notin Range(standing)
    BY <2>1 DEF EndCampaign
  <2>3. \A c \in Contacts : standing[c] # "PENDING"
    BY <2>2, <1>1 DEF Range, CountersTypedInv, CountersTypeOK
  <2>4. standing' = [c \in Contacts |-> standing[c]]
    BY <2>3 DEF EndCampaign
  <2> QED
    BY <2>4, <1>1 DEF CountersTypedInv, CountersTypeOK
<1>4. Live' => \A s : Tally(s)' = Tally(s)
  BY <1>3 DEF Tally
<1>5. OneRecount' /\ NoteGrows' /\ Untold' /\ SinceCounted'
  BY <1>2, <1>4, ToldKept
<1>6. TickKnows'
  BY <1>2, <1>4 DEF SettleInv, TickKnows, Clean
<1> QED
  BY <1>1, <1>5, <1>6 DEF SettleInv

\* A step that leaves the notes and the recounts alone, and somebody at work
\* on a note, leaves nothing unexplained.
LEMMA BusyExplains ==
  ASSUME SettleInv, CountersTypedInv', UNCHANGED <<counter, tick, note, recount>>,
         excuse \subseteq excuse', "overlap" \in excuse' => "overlap" \in excuse, Live' => Live,
         Tally("queuedCount")' = Tally("queuedCount"), Busy'
  PROVE  SettleInv'
<1>1. Clean' => Clean
  BY DEF Clean
<1>2. \A u \in Recounts : Base(u)' = Base(u)
  BY DEF Base
<1>3. OneRecount'
  BY DEF SettleInv, OneRecount
<1>4. NoteGrows'
  BY <1>1, <1>2 DEF SettleInv, NoteGrows
<1>5. Untold' /\ SinceCounted'
  BY DEF Untold, SinceCounted
<1>6. TickKnows'
  BY <1>1 DEF SettleInv, TickKnows
<1> QED
  BY <1>3, <1>4, <1>5, <1>6 DEF SettleInv

\* Whoever moves a recipient has a note to write.
LEMMA SettleMove ==
  ASSUME SettleInv, CountersNext, NEW v \in Movers, NEW c \in Contacts,
         NEW to \in Standing, NEW key \in Keys, Moved(v, c, to, key)
  PROVE  SettleInv'
<1>1. CountersTypedInv /\ CountersTypedInv'
  BY CountersTypedMove DEF SettleInv
<1>2. /\ UNCHANGED <<phase, counter, tick, note, recount>>
      /\ excuse \subseteq excuse' /\ (Live' => Live)
      /\ "overlap" \in excuse' => "overlap" \in excuse
  BY ExcusesStay DEF Moved, Move
<1>3. \A d \in Contacts : standing[d] \in Funnel["queuedCount"] <=> standing'[d] \in Funnel["queuedCount"]
  BY <1>1, Stages DEF Moved, Move, CountersTypedInv, CountersTypeOK
<1>4. Tally("queuedCount")' = Tally("queuedCount")
  BY <1>3, SameTotal, TallyIsTotal
<1>5. Busy'
  <2>1. mover'[v] = [step |-> "noteGet", key |-> key]
    BY <1>1 DEF Moved, Move, CountersTypedInv, CallersTyped
  <2> QED
    BY <2>1 DEF Busy, Idle
<1> QED
  BY <1>1, <1>2, <1>4, <1>5, BusyExplains

\* A note that is written grows, whatever its writer had read.
LEMMA SettleNote ==
  ASSUME SettleInv, CountersNext, NEW v \in Movers, NoteGet(v) \/ NoteSet(v) \/ NoteFails(v)
  PROVE  SettleInv'
<1>1. CountersTypedInv /\ CountersTypedInv'
  BY CountersTypedNote DEF SettleInv
<1>2. /\ UNCHANGED <<standing, counter, tick, recount>>
      /\ excuse \subseteq excuse' /\ (Live' => Live)
      /\ "overlap" \in excuse' => "overlap" \in excuse
  BY ExcusesStay DEF NoteGet, NoteSet, NoteFails, Excused
<1>3. \A s : Tally(s)' = Tally(s)
  BY <1>2 DEF Tally
<1>4. CASE NoteGet(v)
  <2>1. mover'[v] # Idle
    BY <1>4, <1>1 DEF NoteGet, CountersTypedInv, CallersTyped, Idle
  <2>2. Busy' /\ note' = note
    BY <1>4, <2>1 DEF NoteGet, Busy
  <2> QED
    BY <1>1, <1>2, <1>3, <2>2, BusyExplains
<1>5. CASE NoteSet(v)
  <2> DEFINE key == mover[v].key
  <2>1. key \in Keys /\ mover[v].copy \in Notes /\ note \in Notes
    BY <1>5, <1>1, StepNames
       DEF NoteSet, CountersTypedInv, CallersTyped, CountersTypeOK, Noting, Notes
  <2>2. note' = [mover[v].copy EXCEPT ![key] = @ + 1]
    BY <1>5 DEF NoteSet
  <2>3. Clean' => Clean /\ note \in {mover[v].copy, NoNote}
    BY <1>5, <1>2 DEF NoteSet, Excused, Clean
  <2>4. Clean' => Grown(note', note) /\ note'[key] > note[key]
    <3>1. \A k \in Keys : mover[v].copy[k] \in Nat /\ note[k] \in Nat
      BY <2>1 DEF Notes
    <3>2. note'[key] = mover[v].copy[key] + 1 /\ \A k \in Keys \ {key} : note'[k] = mover[v].copy[k]
      BY <2>1, <2>2 DEF Notes
    <3> QED
      BY <2>1, <2>3, <3>1, <3>2 DEF Grown, NoNote
  <2> HIDE DEF key
  <2>5. ASSUME NEW b \in Notes, Grown(note, b), Clean'
        PROVE  Grown(note', b) /\ note' # b
    <3>1. \A k \in Keys : b[k] \in Nat /\ note[k] \in Nat /\ note'[k] \in Nat
      BY <2>1, <2>5, <1>1 DEF Notes, CountersTypedInv, CountersTypeOK
    <3>2. \A k \in Keys : b[k] <= note[k] /\ note[k] <= note'[k]
      BY <2>4, <2>5 DEF Grown
    <3>3. b[key] < note'[key]
      BY <2>1, <2>4, <2>5, <3>1, <3>2
    <3> QED
      BY <2>1, <3>1, <3>2, <3>3 DEF Grown
  <2>6. \A u \in Recounts : Base(u)' = Base(u)
    BY <1>2 DEF Base
  <2>7. ASSUME NEW u \in Recounts, Clean'
        PROVE  /\ recount[u].step \in {"count", "compare"} => Grown(note', Base(u)) /\ note' # Base(u)
               /\ recount[u].step = "clear" => Grown(note', recount[u].now) /\ note' # recount[u].now
    <3>1. CASE recount[u].step \in {"count", "compare"}
      <4>1. recount[u].seen \in Seen
        BY <3>1, <1>1, StepNames DEF CountersTypedInv, CallersTyped, Tallying, Comparing
      <4>2. Base(u) \in Notes
        BY <4>1, UnreadableIsNone DEF Base, Seen
      <4>3. Grown(note, Base(u))
        BY <3>1, <2>3, <2>7 DEF SettleInv, NoteGrows
      <4> QED
        BY <3>1, <4>2, <4>3, <2>5, <2>7
    <3>2. CASE recount[u].step = "clear"
      <4>1. recount[u].now \in Notes
        BY <3>2, <1>1, StepNames DEF CountersTypedInv, CallersTyped, Clearing
      <4>2. Grown(note, recount[u].now)
        BY <3>2, <2>3, <2>7 DEF SettleInv, NoteGrows
      <4> QED
        BY <3>2, <4>1, <4>2, <2>5, <2>7
    <3> QED
      BY <3>1, <3>2
  <2>8. Clean' => note' # NoNote
    <3>1. Grown(note, NoNote)
      BY <2>1 DEF Grown, NoNote, Notes
    <3> QED
      BY <3>1, <2>5, UnreadableIsNone
  <2>9. OneRecount'
    BY <1>2 DEF SettleInv, OneRecount
  <2>10. NoteGrows'
    BY <1>2, <2>3, <2>6, <2>7 DEF SettleInv, NoteGrows
  <2>11. Untold'
    BY <2>8 DEF Untold
  <2>12. SinceCounted'
    BY <1>2, <2>6, <2>7 DEF SinceCounted
  <2>13. TickKnows'
    BY <1>2, <1>3, <2>3 DEF SettleInv, TickKnows
  <2> QED
    BY <1>1, <2>9, <2>10, <2>11, <2>12, <2>13 DEF SettleInv
<1>6. CASE NoteFails(v)
  <2>1. ~ Clean'
    BY <1>6 DEF NoteFails, Excused, Clean
  <2>2. OneRecount'
    BY <1>2 DEF SettleInv, OneRecount
  <2>3. NoteGrows' /\ Untold' /\ SinceCounted' /\ TickKnows'
    BY <2>1 DEF NoteGrows, Untold, SinceCounted, TickKnows
  <2> QED
    BY <1>1, <2>2, <2>3 DEF SettleInv
<1> QED
  BY <1>4, <1>5, <1>6

\* A recount that started from a note finds it unchanged only when nothing
\* was written since.
LEMMA SettleRecount ==
  ASSUME SettleInv, CountersNext, NEW u \in Recounts,
         \/ RecountStart(u) \/ CountRows(u) \/ RecountWrite(u)
         \/ Compare(u) \/ Clear(u) \/ RecountFails(u)
  PROVE  SettleInv'
<1>1. CountersTypedInv /\ CountersTypedInv'
  BY CountersTypedRecount DEF SettleInv
<1>2. /\ UNCHANGED <<standing, tick, mover>> /\ excuse \subseteq excuse' /\ (Live' => Live)
      /\ Live' = Live
  BY ExcusesStay DEF RecountStart, CountRows, RecountWrite, Compare, Clear, RecountFails, Live
<1>3. /\ \A s : Tally(s)' = Tally(s)
      /\ Busy' <=> Busy
      /\ Clean' => Clean
  BY <1>2 DEF Tally, Busy, Clean
<1>4. /\ \A w \in Recounts \ {u} : recount'[w] = recount[w]
      /\ \A w \in Recounts \ {u} : Base(w)' = Base(w)
  <2>1. \A w \in Recounts \ {u} : recount'[w] = recount[w]
    BY <1>1 DEF RecountStart, CountRows, RecountWrite, Compare, Clear, RecountFails,
                CountersTypedInv, CallersTyped
  <2> QED
    BY <2>1 DEF Base
<1>5. ASSUME "overlap" \notin excuse', NEW w \in Recounts \ {u}
      PROVE  recount'[w] = Idle
  <2>1. "overlap" \notin excuse
    BY <1>2, <1>5
  <2>2. CASE RecountStart(u)
    BY <2>2, <1>4, <1>5 DEF RecountStart, Excused
  <2>3. CASE ~ RecountStart(u)
    <3>1. recount[u] # Idle
      BY <2>3 DEF CountRows, RecountWrite, Compare, Clear, RecountFails, Idle
    <3> QED
      BY <3>1, <2>1, <1>4 DEF SettleInv, OneRecount
  <2> QED
    BY <2>2, <2>3
<1>6. OneRecount'
  BY <1>5 DEF OneRecount
<1>7. Clean' => \A w \in Recounts \ {u} : recount'[w].step = "idle"
  BY <1>5, StepNames DEF Clean
<1> SUFFICES ASSUME Clean'
             PROVE  NoteGrows' /\ Untold' /\ SinceCounted' /\ TickKnows'
  BY <1>1, <1>6 DEF SettleInv, NoteGrows, Untold, SinceCounted, TickKnows
<1>8. Clean
  BY <1>3
<1> DEFINE Q == "queuedCount"
<1>9. CASE RecountStart(u)
  <2>1. PICK seen \in {note, Unreadable} :
          recount' = [recount EXCEPT ![u] = [step |-> "count", seen |-> seen, tally |-> <<>>]]
    BY <1>9 DEF RecountStart
  <2>2. recount'[u] = [step |-> "count", seen |-> seen, tally |-> <<>>]
        /\ note' = note /\ counter' = counter
    BY <2>1, <1>9, <1>1 DEF RecountStart, CountersTypedInv, CallersTyped
  <2>3. /\ recount'[u].step = "count" /\ recount'[u].seen = seen /\ recount'[u].tally = <<>>
        /\ DOMAIN recount'[u].tally = {}
    BY <2>2
  <2>4. Grown(note', Base(u)')
    BY <2>2, <2>3, <1>1 DEF Grown, Base, NoNote, CountersTypedInv, CountersTypeOK
  <2>5. NoteGrows'
    BY <1>7, <2>3, <2>4 DEF NoteGrows
  <2>6. Untold'
    BY <1>2, <1>3, <1>8, <2>2 DEF SettleInv, Untold
  <2>7. SinceCounted'
    BY <1>7, <2>3 DEF SinceCounted
  <2>8. TickKnows'
    BY <1>2, <1>3, <1>7, <1>8, <2>2, <2>3 DEF SettleInv, TickKnows
  <2> QED
    BY <2>5, <2>6, <2>7, <2>8
<1>10. CASE CountRows(u)
  <2>1. recount[u].step = "count" /\ note' = note /\ counter' = counter
    BY <1>10 DEF CountRows
  <2>2. PICK stages \in SUBSET (Counters \ DOMAIN recount[u].tally) \ {{}} :
          recount' = [recount EXCEPT ![u].tally =
             [s \in stages \union DOMAIN @ |-> IF s \in stages THEN Tally(s) ELSE @[s]]]
    BY <1>10 DEF CountRows
  <2> DEFINE new == [s \in stages \union DOMAIN recount[u].tally |->
                        IF s \in stages THEN Tally(s) ELSE recount[u].tally[s]]
  <2>3. recount[u] \in Tallying
    BY <2>1, <1>1, TallyFields
  <2>4. recount' = [recount EXCEPT ![u] = [@ EXCEPT !.tally = new]]
    BY <2>2
  <2>5. ASSUME NEW s \in DOMAIN new
        PROVE  \/ new[s] = Tally(s)
               \/ s \in DOMAIN recount[u].tally /\ new[s] = recount[u].tally[s]
    <3>1. s \in stages \union DOMAIN recount[u].tally
      BY <2>5
    <3>2. new[s] = IF s \in stages THEN Tally(s) ELSE recount[u].tally[s]
      BY <3>1
    <3> QED
      BY <3>1, <3>2
  <2> HIDE DEF new
  <2>6. recount'[u].step = "count" /\ recount'[u].tally = new /\ recount'[u].seen = recount[u].seen
    BY <2>3, <2>4, <2>1, <1>1 DEF CountersTypedInv, CallersTyped, Tallying
  <2>7. Base(u)' = Base(u)
    BY <2>6 DEF Base
  <2>8. NoteGrows'
    BY <1>7, <1>8, <2>1, <2>6, <2>7 DEF SettleInv, NoteGrows
  <2>9. Untold'
    BY <1>2, <1>3, <1>8, <2>1 DEF SettleInv, Untold
  <2>10. SinceCounted'
    <3>1. ASSUME Live, NEW s \in Told, s \in DOMAIN new
          PROVE  new[s] = Tally(s) \/ note # Base(u) \/ Busy
      BY <3>1, <1>8, <2>1, <2>5 DEF SettleInv, SinceCounted
    <3> QED
      BY <3>1, <1>2, <1>3, <1>7, <2>1, <2>6, <2>7 DEF SinceCounted
  <2>11. TickKnows'
    <3>1. ASSUME Live, Q \in DOMAIN new
          PROVE  new[Q] >= IF tick = Idle THEN Tally(Q) ELSE tick.copy
      <4>1. CASE new[Q] = Tally(Q)
        BY <4>1, <3>1, <1>1, <1>8, QueuedNumbers DEF SettleInv, TickKnows
      <4>2. CASE Q \in DOMAIN recount[u].tally /\ new[Q] = recount[u].tally[Q]
        BY <4>2, <3>1, <1>8, <2>1 DEF SettleInv, TickKnows
      <4> QED
        BY <3>1, <4>1, <4>2, <2>5
    <3> QED
      BY <3>1, <1>2, <1>3, <1>7, <1>8, <2>1, <2>6 DEF SettleInv, TickKnows
  <2> QED
    BY <2>8, <2>9, <2>10, <2>11
<1>11. CASE RecountWrite(u)
  <2>1. /\ recount[u].step = "count" /\ DOMAIN recount[u].tally = Counters
        /\ counter' = recount[u].tally /\ note' = note
        /\ recount' = [recount EXCEPT ![u] = [step |-> "compare", seen |-> recount[u].seen]]
    BY <1>11 DEF RecountWrite
  <2>2. recount[u].seen \in Seen
    BY <2>1, <1>1, TallyFields
  <2>3. recount'[u].step = "compare" /\ recount'[u].seen = recount[u].seen
    BY <2>1, <1>1 DEF CountersTypedInv, CallersTyped
  <2>4. Base(u)' = Base(u)
    BY <2>3 DEF Base
  <2>5. NoteGrows'
    BY <1>7, <1>8, <2>1, <2>3, <2>4 DEF SettleInv, NoteGrows
  <2>6. Live => \A s \in Told : counter'[s] = Tally(s) \/ note # Base(u) \/ Busy
    BY <1>8, <2>1 DEF SettleInv, SinceCounted, Told
  <2>7. ASSUME note = NoNote PROVE Base(u) = note
    <3>1. Base(u) \in Notes
      BY <2>2, UnreadableIsNone DEF Base, Seen
    <3>2. Grown(note, Base(u))
      BY <1>8, <2>1 DEF SettleInv, NoteGrows
    <3>3. \A k \in Keys : Base(u)[k] = 0
      BY <3>1, <3>2, <2>7 DEF Grown, NoNote, Notes
    <3> QED
      BY <3>1, <3>3, <2>7 DEF NoNote, Notes
  <2>8. Untold'
    BY <1>2, <1>3, <2>1, <2>6, <2>7 DEF Untold
  <2>9. SinceCounted'
    BY <1>2, <1>3, <1>7, <2>1, <2>3, <2>4, <2>6 DEF SinceCounted
  <2>10. TickKnows'
    <3>1. Q \in DOMAIN recount[u].tally
      BY <2>1, Stages
    <3>2. recount[u].tally[Q] \in Nat /\ Tally(Q) \in Nat /\ recount[u].tally[Q] <= Tally(Q)
      BY <3>1, <2>1, <1>1, QueuedNumbers DEF CountersTypedInv, QueuedBounded
    <3>3. Live => recount[u].tally[Q] >= IF tick = Idle THEN Tally(Q) ELSE tick.copy
      BY <3>1, <2>1, <1>8 DEF SettleInv, TickKnows
    <3>4. Live => /\ tick = Idle => counter'[Q] = Tally(Q)
                  /\ tick # Idle => counter'[Q] >= tick.copy
      BY <3>2, <3>3, <2>1
    <3>5. Live => (tick # Idle => tick.copy + tick.queued = Tally(Q))
      BY <1>8 DEF SettleInv, TickKnows
    <3> QED
      BY <3>4, <3>5, <1>2, <1>3, <1>7, <2>3 DEF TickKnows
  <2> QED
    BY <2>5, <2>8, <2>9, <2>10
<1>12. CASE Compare(u)
  <2>1. recount[u].step = "compare" /\ note' = note /\ counter' = counter
    BY <1>12 DEF Compare
  <2>2. recount[u].seen \in Seen
    BY <2>1, <1>1, StepNames DEF CountersTypedInv, CallersTyped, Comparing
  <2>3. \/ recount'[u] = Idle
        \/ recount'[u] = [step |-> "clear", now |-> note] /\ note = recount[u].seen
    BY <1>12, <1>1 DEF Compare, Excused, Clean, CountersTypedInv, CallersTyped
  <2>4. Untold'
    BY <1>2, <1>3, <1>8, <2>1 DEF SettleInv, Untold
  <2>5. CASE recount'[u] = Idle
    <3>1. NoteGrows' /\ SinceCounted'
      BY <1>7, <2>5, StepNames DEF NoteGrows, SinceCounted
    <3>2. TickKnows'
      BY <1>2, <1>3, <1>7, <1>8, <2>1, <2>5, StepNames DEF SettleInv, TickKnows
    <3> QED
      BY <2>4, <3>1, <3>2
  <2>6. CASE recount'[u] = [step |-> "clear", now |-> note] /\ note = recount[u].seen
    <3>1. recount'[u].step = "clear" /\ recount'[u].now = note
      BY <2>6
    <3>2. note \in Notes /\ note # NoNote /\ Base(u) = note
      BY <2>6, <2>2, <1>1, UnreadableIsNone DEF Seen, Base, CountersTypedInv, CountersTypeOK, Notes
    <3>3. Grown(note, note)
      BY <3>2 DEF Grown, Notes
    <3>4. NoteGrows'
      BY <1>7, <2>1, <3>1, <3>2, <3>3 DEF NoteGrows
    <3>5. Live => \A s \in Told : counter[s] = Tally(s) \/ note # Base(u) \/ Busy
      BY <1>8, <2>1 DEF SettleInv, SinceCounted
    <3>6. SinceCounted'
      BY <1>2, <1>3, <1>7, <2>1, <3>1, <3>2, <3>5 DEF SinceCounted
    <3>7. TickKnows'
      BY <1>2, <1>3, <1>7, <1>8, <2>1, <3>1 DEF SettleInv, TickKnows
    <3> QED
      BY <2>4, <3>4, <3>6, <3>7
  <2> QED
    BY <2>3, <2>5, <2>6
<1>13. CASE Clear(u)
  <2>1. /\ recount[u].step = "clear" /\ note' = NoNote /\ counter' = counter
        /\ recount'[u] = Idle /\ note = recount[u].now
    BY <1>13, <1>1 DEF Clear, Excused, Clean, CountersTypedInv, CallersTyped
  <2>2. Live => \A s \in Told : counter[s] = Tally(s) \/ Busy
    BY <1>8, <2>1 DEF SettleInv, SinceCounted
  <2>3. NoteGrows' /\ SinceCounted'
    BY <1>7, <2>1, StepNames DEF NoteGrows, SinceCounted
  <2>4. Untold'
    BY <1>2, <1>3, <2>1, <2>2 DEF Untold
  <2>5. TickKnows'
    BY <1>2, <1>3, <1>7, <1>8, <2>1, StepNames DEF SettleInv, TickKnows
  <2> QED
    BY <2>3, <2>4, <2>5
<1>14. CASE RecountFails(u)
  <2>1. note' = note /\ counter' = counter /\ recount'[u] = Idle
    BY <1>14, <1>1 DEF RecountFails, CountersTypedInv, CallersTyped
  <2>2. NoteGrows' /\ SinceCounted'
    BY <1>7, <2>1, StepNames DEF NoteGrows, SinceCounted
  <2>3. Untold'
    BY <1>2, <1>3, <1>8, <2>1 DEF SettleInv, Untold
  <2>4. TickKnows'
    BY <1>2, <1>3, <1>7, <1>8, <2>1, StepNames DEF SettleInv, TickKnows
  <2> QED
    BY <2>2, <2>3, <2>4
<1> QED
  BY <1>9, <1>10, <1>11, <1>12, <1>13, <1>14

\* Every step keeps the types.
LEMMA CountersTypedNext ==
  ASSUME CountersTypedInv, CountersNext PROVE CountersTypedInv'
<1>1. CASE TickStart \/ TickEnd \/ TickDies \/ \E c \in Contacts : TickQueue(c)
  BY <1>1, CountersTypedTick
<1>2. ASSUME NEW to \in {"COMPLETED", "CANCELLED"}, EndCampaign(to) PROVE CountersTypedInv'
  BY <1>2, CountersTypedEnd
<1>3. ASSUME NEW v \in Movers, NEW c \in Contacts,
             SendFails(v, c) \/ Reply(v, c) \/ \E s \in Reported : ReceiptMoves(v, c, s)
      PROVE  CountersTypedInv'
  BY <1>3, MovesAreMoved, CountersTypedMove
<1>4. ASSUME NEW v \in Movers, NoteGet(v) \/ NoteSet(v) \/ NoteFails(v) PROVE CountersTypedInv'
  BY <1>4, CountersTypedNote
<1>5. ASSUME NEW u \in Recounts,
             \/ RecountStart(u) \/ CountRows(u) \/ RecountWrite(u)
             \/ Compare(u) \/ Clear(u) \/ RecountFails(u)
      PROVE  CountersTypedInv'
  BY <1>5, CountersTypedRecount
<1> QED
  BY <1>1, <1>2, <1>3, <1>4, <1>5 DEF CountersNext

\* Every step keeps what CountersSettle rests on.
LEMMA SettleNext ==
  ASSUME SettleInv, CountersNext PROVE SettleInv'
<1>0. CountersTypedInv
  BY DEF SettleInv
<1>1. CASE TickStart \/ TickEnd \/ TickDies \/ \E c \in Contacts : TickQueue(c)
  BY <1>1, SettleTick
<1>2. ASSUME NEW to \in {"COMPLETED", "CANCELLED"}, EndCampaign(to) PROVE SettleInv'
  BY <1>2, SettleEnd
<1>3. ASSUME NEW v \in Movers, NEW c \in Contacts,
             SendFails(v, c) \/ Reply(v, c) \/ \E s \in Reported : ReceiptMoves(v, c, s)
      PROVE  SettleInv'
  BY <1>0, <1>3, MovesAreMoved, SettleMove
<1>4. ASSUME NEW v \in Movers, NoteGet(v) \/ NoteSet(v) \/ NoteFails(v) PROVE SettleInv'
  BY <1>4, SettleNote
<1>5. ASSUME NEW u \in Recounts,
             \/ RecountStart(u) \/ CountRows(u) \/ RecountWrite(u)
             \/ Compare(u) \/ Clear(u) \/ RecountFails(u)
      PROVE  SettleInv'
  BY <1>5, SettleRecount
<1> QED
  BY <1>1, <1>2, <1>3, <1>4, <1>5 DEF CountersNext

\* A campaign starts settled.
LEMMA SettleInit == CountersInit => SettleInv
<1> SUFFICES ASSUME CountersInit PROVE SettleInv
  OBVIOUS
<1>1. CountersTypedInv
  BY CountersTypedInit
<1>2. \A u \in Recounts : recount[u] = Idle /\ recount[u].step = "idle"
  BY StepNames DEF CountersInit
<1>3. \A s \in Counters : counter[s] = 0 /\ Tally(s) = 0
  <2>1. \A s \in Counters : {c \in Contacts : standing[c] \in Funnel[s]} = {}
    BY Stages DEF CountersInit
  <2>2. \A s \in Counters : Tally(s) = 0
    BY <2>1, FS_EmptySet DEF Tally
  <2> QED
    BY <2>2 DEF CountersInit
<1>4. OneRecount /\ NoteGrows /\ SinceCounted
  BY <1>2 DEF OneRecount, NoteGrows, SinceCounted
<1>5. Untold
  BY <1>3 DEF Untold, Told
<1>6. TickKnows
  BY <1>2, <1>3, Stages DEF TickKnows, CountersInit
<1> QED
  BY <1>1, <1>4, <1>5, <1>6 DEF SettleInv

\* The inductive invariant gives the property.
LEMMA SettleSays == SettleInv => CountersSettle
<1> SUFFICES ASSUME SettleInv, Quiet, phase \in ActivePhases, excuse \ {"late"} = {},
                    NEW s \in Counters
             PROVE  counter[s] = Tally(s)
  BY DEF CountersSettle
<1>1. Clean /\ Live /\ ~ Busy /\ tick = Idle /\ note = NoNote
  BY DEF Clean, Live, Busy, Quiet
<1> QED
  BY <1>1 DEF SettleInv, Untold, TickKnows, Told

(***************************************************************************)
(* FunnelNeverFalls.                                                       *)
(***************************************************************************)
\* What a receipt may follow: the row of a contact says at least what the
\* last receipt said, and the next one is further on.
LEMMA ReceiptShownNext ==
  ASSUME CountersTypedInv, ReceiptShown, CountersNext
  PROVE  /\ ReceiptShown'
         /\ "late" \notin excuse' => \A s \in Rising, c \in Contacts :
               standing[c] \in Funnel[s] => standing'[c] \in Funnel[s]
<1> USE DEF CountersTypedInv, CountersTypeOK
<1>r. \A s \in Rising : /\ {"READ", "RESPONDED"} \intersect Funnel[s] # {}
                        /\ Funnel[s] \in {{"DELIVERED", "READ", "RESPONDED"}, {"RESPONDED"}}
  BY DEF Rising, Funnel
<1>1. CASE \/ TickStart \/ TickEnd \/ TickDies
           \/ \E v \in Movers : NoteGet(v) \/ NoteSet(v) \/ NoteFails(v)
           \/ \E u \in Recounts :
                 \/ RecountStart(u) \/ CountRows(u) \/ RecountWrite(u)
                 \/ Compare(u) \/ Clear(u) \/ RecountFails(u)
  <2>1. UNCHANGED <<standing, receipt>>
    BY <1>1 DEF TickStart, TickEnd, TickDies, NoteGet, NoteSet, NoteFails,
                RecountStart, CountRows, RecountWrite, Compare, Clear, RecountFails
  <2> QED
    BY <2>1 DEF ReceiptShown
<1>2. ASSUME NEW c \in Contacts, TickQueue(c)
      PROVE  /\ ReceiptShown'
             /\ \A s \in Rising, d \in Contacts :
                   standing[d] \in Funnel[s] => standing'[d] \in Funnel[s]
  <2>1. standing[c] = "PENDING" /\ receipt' = receipt
        /\ \E to \in {"QUEUED", "FAILED"} : standing' = [standing EXCEPT ![c] = to]
    BY <1>2 DEF TickQueue
  <2> QED
    BY <2>1, <1>r DEF ReceiptShown
<1>3. ASSUME NEW to \in {"COMPLETED", "CANCELLED"}, EndCampaign(to)
      PROVE  /\ ReceiptShown'
             /\ \A s \in Rising, d \in Contacts :
                   standing[d] \in Funnel[s] => standing'[d] \in Funnel[s]
  <2>1. /\ receipt' = receipt
        /\ \A d \in Contacts : standing'[d] = IF standing[d] = "PENDING" THEN "SKIPPED" ELSE standing[d]
    BY <1>3 DEF EndCampaign
  <2> QED
    BY <2>1, <1>r DEF ReceiptShown
<1>4. ASSUME NEW v \in Movers, NEW c \in Contacts, SendFails(v, c) \/ Reply(v, c)
      PROVE  /\ ReceiptShown'
             /\ \A s \in Rising, d \in Contacts :
                   standing[d] \in Funnel[s] => standing'[d] \in Funnel[s]
  <2>1. \/ /\ standing[c] = "QUEUED" /\ standing' = [standing EXCEPT ![c] = "FAILED"]
           /\ receipt' = [receipt EXCEPT ![c] = "FAILED"]
        \/ standing' = [standing EXCEPT ![c] = "RESPONDED"] /\ receipt' = receipt
    BY <1>4 DEF SendFails, Reply, Move
  <2> QED
    BY <2>1, <1>r DEF ReceiptShown
<1>5. ASSUME NEW v \in Movers, NEW c \in Contacts, NEW status \in Reported, ReceiptMoves(v, c, status)
      PROVE  /\ ReceiptShown'
             /\ "late" \notin excuse' => \A s \in Rising, d \in Contacts :
                   standing[d] \in Funnel[s] => standing'[d] \in Funnel[s]
  <2>1. /\ standing' = [standing EXCEPT ![c] = status]
        /\ receipt' = [receipt EXCEPT ![c] = status]
        /\ receipt[c] # "FAILED" /\ AdvanceStatus(receipt[c], status) # receipt[c]
        /\ "late" \notin excuse' => standing[c] # "RESPONDED"
    BY <1>5 DEF ReceiptMoves, Move, Excused
  <2>2. status \in {"SENT", "DELIVERED", "READ"}
    BY CampaignCountersAssumption
  <2>3. ReceiptShown'
    BY <2>1, <2>2 DEF ReceiptShown
  <2>4. ASSUME "late" \notin excuse', NEW s \in Rising, standing[c] \in Funnel[s]
        PROVE  status \in Funnel[s]
    <3>1. standing[c] \in {"DELIVERED", "READ"} /\ Funnel[s] = {"DELIVERED", "READ", "RESPONDED"}
      BY <2>1, <2>4, <1>r
    <3>2. receipt[c] = standing[c]
      BY <3>1 DEF ReceiptShown
    <3>3. Rank[status] > Rank[receipt[c]]
      BY <2>1, <2>2 DEF AdvanceStatus
    <3>4. status \in {"DELIVERED", "READ"}
      BY <2>2, <3>1, <3>2, <3>3 DEF Rank, MessageStatus
    <3> QED
      BY <3>1, <3>4
  <2> QED
    BY <2>1, <2>3, <2>4
<1> QED
  BY <1>1, <1>2, <1>3, <1>4, <1>5 DEF CountersNext

\* While no recount overlaps another and no receipt is late, counts lag
\* behind the rows, and the totals behind the counts.
LEMMA FunnelNext ==
  ASSUME FunnelInv, CountersNext
  PROVE  /\ FunnelInv'
         /\ excuse' \intersect {"overlap", "late"} = {} => \A s \in Rising : counter'[s] >= counter[s]
<1>1. CountersTypedInv /\ CountersTypedInv' /\ excuse \subseteq excuse'
  BY CountersTypedNext, ExcusesStay DEF FunnelInv
<1>2. ReceiptShown /\ ReceiptShown'
  BY <1>1, ReceiptShownNext DEF FunnelInv
<1>3. OneRecount'
  <2>1. CASE \E u \in Recounts : RecountStart(u)
    BY <2>1, <1>1 DEF RecountStart, Excused, OneRecount, CountersTypedInv, CallersTyped
  <2>2. CASE \E u \in Recounts :
               CountRows(u) \/ RecountWrite(u) \/ Compare(u) \/ Clear(u) \/ RecountFails(u)
    <3>1. PICK u \in Recounts :
            CountRows(u) \/ RecountWrite(u) \/ Compare(u) \/ Clear(u) \/ RecountFails(u)
      BY <2>2
    <3>2. recount[u] # Idle
      BY <3>1 DEF CountRows, RecountWrite, Compare, Clear, RecountFails, Idle
    <3>3. \A w \in Recounts \ {u} : recount'[w] = recount[w]
      BY <3>1, <1>1 DEF CountRows, RecountWrite, Compare, Clear, RecountFails,
                        CountersTypedInv, CallersTyped
    <3> QED
      BY <3>2, <3>3, <1>1 DEF FunnelInv, OneRecount
  <2>3. CASE recount' = recount
    BY <2>3, <1>1 DEF FunnelInv, OneRecount
  <2> QED
    BY <2>1, <2>2, <2>3
       DEF CountersNext, TickStart, TickQueue, TickEnd, TickDies, EndCampaign, SendFails,
           Reply, ReceiptMoves, Move, NoteGet, NoteSet, NoteFails
<1>4. ASSUME excuse' \intersect {"overlap", "late"} = {}, NEW s \in Rising
      PROVE  /\ counter'[s] >= counter[s] /\ counter'[s] <= Tally(s)'
             /\ \A u \in Recounts :
                  recount'[u].step = "count" /\ s \in DOMAIN recount'[u].tally =>
                     counter'[s] <= recount'[u].tally[s] /\ recount'[u].tally[s] <= Tally(s)'
  <2>1. "overlap" \notin excuse /\ "late" \notin excuse /\ "late" \notin excuse' /\ "overlap" \notin excuse'
    BY <1>1, <1>4
  <2>2. s \in Counters /\ s # "queuedCount"
    BY DEF Rising
  <2>3. Tally(s) <= Tally(s)' /\ Tally(s) \in Nat /\ Tally(s)' \in Nat
    <3>1. \A c \in Contacts : standing[c] \in Funnel[s] => standing'[c] \in Funnel[s]
      BY <1>1, <1>2, <2>1, ReceiptShownNext
    <3> QED
      BY <3>1, TotalRises, TallyIsTotal, TotalType, TotalsAreNat
  <2>4. counter[s] \in Nat /\ counter[s] <= Tally(s)
    BY <1>1, <2>1, <2>2, TotalsAreNat
       DEF FunnelInv, InOrder, CountersTypedInv, CountersTypeOK, Totals
  <2>5. ASSUME NEW u \in Recounts, recount[u].step = "count", s \in DOMAIN recount[u].tally
        PROVE  /\ recount[u].tally[s] \in Nat
               /\ counter[s] <= recount[u].tally[s] /\ recount[u].tally[s] <= Tally(s)
    BY <1>1, <2>1, <2>5, TallyFields, TotalsAreNat DEF FunnelInv, InOrder
  <2>6. CASE recount' = recount
    <3>1. counter'[s] = counter[s]
      <4>1. \A u \in Recounts : ~ RecountWrite(u)
        <5> SUFFICES ASSUME NEW u \in Recounts, RecountWrite(u) PROVE FALSE
          OBVIOUS
        <5>1. recount'[u].step = "compare" /\ recount[u].step = "count"
          BY <1>1 DEF RecountWrite, CountersTypedInv, CallersTyped
        <5> QED
          BY <5>1, <2>6
      <4>2. counter' = counter \/ TickEnd
        BY <4>1 DEF CountersNext, TickStart, TickQueue, TickDies, EndCampaign, SendFails,
             Reply, ReceiptMoves, Move, NoteGet, NoteSet, NoteFails, RecountStart, CountRows,
             Compare, Clear, RecountFails
      <4>3. TickEnd => counter'[s] = counter[s]
        BY <2>2, <1>1 DEF TickEnd, CountersTypedInv, CountersTypeOK
      <4> QED
        BY <4>2, <4>3
    <3> QED
      BY <3>1, <2>3, <2>4, <2>5, <2>6
  <2>7. ASSUME NEW u \in Recounts, RecountStart(u)
        PROVE  /\ counter' = counter
               /\ \A w \in Recounts : recount'[w].step = "count" /\ s \in DOMAIN recount'[w].tally =>
                     recount'[w] = recount[w]
    <3>1. PICK seen \in {note, Unreadable} :
            recount' = [recount EXCEPT ![u] = [step |-> "count", seen |-> seen, tally |-> <<>>]]
      BY <2>7 DEF RecountStart
    <3>2. recount'[u].tally = <<>> /\ DOMAIN recount'[u].tally = {}
      BY <3>1, <1>1 DEF CountersTypedInv, CallersTyped
    <3> QED
      BY <3>1, <3>2, <2>7, <1>1 DEF RecountStart, CountersTypedInv, CallersTyped
  <2>8. ASSUME NEW u \in Recounts, CountRows(u)
        PROVE  /\ counter' = counter /\ standing' = standing
               /\ \A w \in Recounts : recount'[w].step = "count" /\ s \in DOMAIN recount'[w].tally =>
                     \/ recount'[w].tally[s] = Tally(s)
                     \/ /\ recount[w].step = "count" /\ s \in DOMAIN recount[w].tally
                        /\ recount'[w].tally[s] = recount[w].tally[s]
    <3>1. counter' = counter /\ standing' = standing /\ recount[u].step = "count"
      BY <2>8 DEF CountRows
    <3>2. PICK stages \in SUBSET (Counters \ DOMAIN recount[u].tally) \ {{}} :
            recount' = [recount EXCEPT ![u].tally =
               [t \in stages \union DOMAIN @ |-> IF t \in stages THEN Tally(t) ELSE @[t]]]
      BY <2>8 DEF CountRows
    <3>3. recount[u] \in Tallying
      BY <3>1, <1>1, TallyFields
    <3>4. /\ recount'[u].tally = [t \in stages \union DOMAIN recount[u].tally |->
                                    IF t \in stages THEN Tally(t) ELSE recount[u].tally[t]]
          /\ \A w \in Recounts \ {u} : recount'[w] = recount[w]
      BY <3>2, <3>3, <1>1 DEF CountersTypedInv, CallersTyped, Tallying
    <3> QED
      BY <3>1, <3>4
  <2>9. ASSUME NEW u \in Recounts, RecountWrite(u)
        PROVE  /\ recount[u].step = "count" /\ s \in DOMAIN recount[u].tally
               /\ counter'[s] = recount[u].tally[s] /\ standing' = standing
               /\ \A w \in Recounts : recount'[w].step # "count"
    <3>1. /\ recount[u].step = "count" /\ DOMAIN recount[u].tally = Counters /\ standing' = standing
          /\ counter' = recount[u].tally
          /\ recount' = [recount EXCEPT ![u] = [step |-> "compare", seen |-> recount[u].seen]]
      BY <2>9 DEF RecountWrite
    <3>2. \A w \in Recounts \ {u} : recount[w] = Idle
      BY <3>1, <2>1, StepNames DEF FunnelInv, OneRecount
    <3>3. recount'[u].step = "compare" /\ \A w \in Recounts \ {u} : recount'[w] = Idle
      BY <3>1, <3>2, <1>1 DEF CountersTypedInv, CallersTyped
    <3> QED
      BY <3>1, <3>3, <2>2, StepNames
  <2>10. ASSUME NEW u \in Recounts, Compare(u) \/ Clear(u) \/ RecountFails(u)
         PROVE  /\ counter' = counter
                /\ \A w \in Recounts : recount'[w].step = "count" => recount'[w] = recount[w]
    <3>1. PICK k \in {Idle, [step |-> "clear", now |-> note]} : recount' = [recount EXCEPT ![u] = k]
      BY <2>10 DEF Compare, Clear, RecountFails
    <3>2. k.step # "count"
      BY <3>1 DEF Idle
    <3>3. counter' = counter
      BY <2>10 DEF Compare, Clear, RecountFails
    <3> QED
      BY <3>1, <3>2, <3>3, <1>1 DEF CountersTypedInv, CallersTyped
  <2>11. CASE \E u \in Recounts : RecountStart(u)
    BY <2>11, <2>7, <2>3, <2>4, <2>5
  <2>12. CASE \E u \in Recounts : CountRows(u)
    <3>1. Tally(s)' = Tally(s)
      BY <2>12, <2>8 DEF Tally
    <3> QED
      BY <3>1, <2>12, <2>8, <2>3, <2>4, <2>5
  <2>13. CASE \E u \in Recounts : RecountWrite(u)
    BY <2>13, <2>9, <2>3, <2>4, <2>5
  <2>14. CASE \E u \in Recounts : Compare(u) \/ Clear(u) \/ RecountFails(u)
    BY <2>14, <2>10, <2>3, <2>4, <2>5
  <2> QED
    BY <2>6, <2>11, <2>12, <2>13, <2>14
       DEF CountersNext, TickStart, TickQueue, TickEnd, TickDies, EndCampaign, SendFails,
           Reply, ReceiptMoves, Move, NoteGet, NoteSet, NoteFails
<1>5. InOrder'
  BY <1>4 DEF InOrder
<1> QED
  BY <1>1, <1>2, <1>3, <1>4, <1>5 DEF FunnelInv

\* A campaign starts with an empty funnel.
LEMMA FunnelInit == CountersInit => FunnelInv
<1> SUFFICES ASSUME CountersInit PROVE FunnelInv
  OBVIOUS
<1>1. CountersTypedInv /\ OneRecount
  BY SettleInit DEF SettleInv
<1>2. ReceiptShown
  BY DEF ReceiptShown, CountersInit
<1>3. \A s \in Rising : counter[s] = 0 /\ Tally(s) \in Nat
  BY TotalType, TallyIsTotal, TotalsAreNat DEF CountersInit, Rising
<1>4. InOrder
  BY <1>3, StepNames DEF InOrder, CountersInit
<1> QED
  BY <1>1, <1>2, <1>4 DEF FunnelInv

-----------------------------------------------------------------------------
(***************************************************************************)
(* What the two specifications promise, side by side.                      *)
(***************************************************************************)
\* A behaviour of MCReports is one of each specification: the other one
\* stutters.
LEMMA ReportsAreBoth == ReportsSpec => Spec /\ CountersSpec
<1>1. ReportsInit => Init /\ CountersInit
  BY DEF ReportsInit
<1>2. [ReportsNext]_reportVars => [Next]_vars /\ [CountersNext]_counterVars
  BY DEF ReportsNext, reportVars, vars, counterVars
<1> QED
  BY <1>1, <1>2, PTL DEF ReportsSpec, Spec, CountersSpec

\* A step of CountersSpec that stutters changes nothing the invariants are
\* about.
LEMMA CountersStutter ==
  ASSUME UNCHANGED counterVars
  PROVE  /\ SettleInv => SettleInv'
         /\ FunnelInv => FunnelInv'
<1>1. UNCHANGED <<standing, receipt, phase, counter, tick, mover, note, recount, slips, excuse>>
  BY DEF counterVars
<1>2. CountersTypedInv => CountersTypedInv'
  BY <1>1 DEF CountersTypedInv, CountersTypeOK, CallersTyped, QueuedBounded, Tally
<1>3. OneRecount => OneRecount'
  BY <1>1 DEF OneRecount
<1>4. NoteGrows /\ Untold /\ SinceCounted /\ TickKnows =>
          NoteGrows' /\ Untold' /\ SinceCounted' /\ TickKnows'
  BY <1>1 DEF NoteGrows, Untold, SinceCounted, TickKnows, Tally, Base, Busy, Clean, Live
<1>5. ReceiptShown /\ InOrder => ReceiptShown' /\ InOrder'
  BY <1>1 DEF ReceiptShown, InOrder, Tally
<1> QED
  BY <1>2, <1>3, <1>4, <1>5 DEF SettleInv, FunnelInv

(***************************************************************************)
(* Types, of the receipts and of the counters (wa-status-processor,        *)
(* wa-stats-rollup): queuedCount too stays within the contacts, whatever   *)
(* old copy the tick adds to.                                              *)
(***************************************************************************)
THEOREM ReportsTypeCorrect == ReportsSpec => []ReportsTypeOK
<1>1. CountersInit => SettleInv
  BY SettleInit
<1>2. SettleInv /\ [CountersNext]_counterVars => SettleInv'
  BY SettleNext, CountersStutter
<1>3. SettleInv => CountersTypeOK
  BY DEF SettleInv, CountersTypedInv
<1>4. CountersSpec => []CountersTypeOK
  BY <1>1, <1>2, <1>3, PTL DEF CountersSpec
<1> QED
  BY <1>4, ReportsAreBoth, TypeCorrect, PTL DEF ReportsTypeOK

(***************************************************************************)
(* When nothing is under way and no note is left, the campaign row shows   *)
(* what its recipients add up to (wa-stats-rollup, campaign-deltas), unless *)
(* one of the named causes struck.                                         *)
(***************************************************************************)
THEOREM CountersCorrect == ReportsSpec => []CountersSettle
<1>1. CountersInit => SettleInv
  BY SettleInit
<1>2. SettleInv /\ [CountersNext]_counterVars => SettleInv'
  BY SettleNext, CountersStutter
<1>3. SettleInv => CountersSettle
  BY SettleSays
<1> QED
  BY <1>1, <1>2, <1>3, ReportsAreBoth, PTL DEF CountersSpec

(***************************************************************************)
(* No report of progress is taken back: neither a message's status         *)
(* (advanceStatus) nor, of a campaign, the contacts who got it or answered *)
(* (wa-stats-rollup).                                                      *)
(***************************************************************************)
THEOREM ProgressCorrect == ReportsSpec => NothingGoesBack
<1>1. CountersInit => FunnelInv
  BY FunnelInit
<1>2. FunnelInv /\ [CountersNext]_counterVars => FunnelInv'
  BY FunnelNext, CountersStutter
<1>3. FunnelInv /\ [CountersNext]_counterVars =>
        [excuse' \intersect {"overlap", "late"} = {} =>
            \A s \in Counters \intersect {"deliveredCount", "respondedCount"} :
                counter'[s] >= counter[s]]_counterVars
  BY FunnelNext DEF Rising
<1>4. CountersSpec => FunnelNeverFalls
  BY <1>1, <1>2, <1>3, PTL DEF CountersSpec, FunnelNeverFalls
<1> QED
  BY <1>4, ReportsAreBoth, StatusCorrect, PTL DEF NothingGoesBack

=============================================================================

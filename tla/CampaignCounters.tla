-------------------------- MODULE CampaignCounters --------------------------
(***************************************************************************)
(* The numbers of one campaign: recipients are moved by the tick, the      *)
(* sender, the receipts and the replies, most of which leave a note in kv; *)
(* wa-stats-rollup (the cron, and the open campaign screen) recounts the   *)
(* rows of a campaign that has a note, writes the totals and clears the    *)
(* note.  kv has no compare-and-swap.  Cost and pacingObserved are         *)
(* computed from the same counts and left out.                             *)
(***************************************************************************)
EXTENDS StatusMachine, FiniteSets, Functions

CONSTANTS
    Contacts,   \* recipients of the campaign
    Counters,   \* the counters looked at, of DOMAIN Funnel
    Movers,     \* functions that move a recipient and leave a note
    Recounts,   \* recounts that can run at the same time
    Reported,   \* the statuses Meta reports
    MaxNotes,   \* bound: notes in kv and on their way there
    MaxSlips    \* bound: calls that fail

Standing == {"PENDING", "QUEUED", "SENT", "DELIVERED", "READ", "RESPONDED",
             "FAILED", "SKIPPED"}

\* Mutant: a reply does not imply a delivery.
FunnelUnanswered ==
    [queuedCount |-> Standing \ {"PENDING"},
     sentCount |-> {"SENT", "DELIVERED", "READ"},
     deliveredCount |-> {"DELIVERED", "READ"},
     readCount |-> {"READ"}, failedCount |-> {"FAILED"},
     skippedCount |-> {"SKIPPED"}, respondedCount |-> {"RESPONDED"}]

\* Cumulative: which statuses count toward each stage.
Funnel ==
    [queuedCount |-> Standing \ {"PENDING"},
     sentCount |-> {"SENT", "DELIVERED", "READ", "RESPONDED"},
     deliveredCount |-> {"DELIVERED", "READ", "RESPONDED"},
     readCount |-> {"READ"}, failedCount |-> {"FAILED"},
     skippedCount |-> {"SKIPPED"}, respondedCount |-> {"RESPONDED"}]

ASSUME CampaignCountersAssumption ==
    /\ Counters \subseteq DOMAIN Funnel /\ "queuedCount" \in Counters
    /\ Reported \subseteq {"SENT", "DELIVERED", "READ"}
    /\ IsFiniteSet(Contacts) /\ MaxNotes \in Nat /\ MaxSlips \in Nat

VARIABLES
    standing,   \* status of the recipient rows
    receipt,    \* the status Meta reported last for the recipient's message
    phase,      \* status of the campaign
    counter,    \* the counters on the campaign row
    tick,       \* the runner's tick
    mover, note, recount,
    slips, excuse    \* history

counterVars == <<standing, receipt, phase, counter, tick, mover, note,
                 recount, slips, excuse>>

Tally(stage) == Cardinality({c \in Contacts : standing[c] \in Funnel[stage]})

\* A note has one key per kind of change, and a count under it.
Keys == {"failed", "SENT", "DELIVERED", "READ", "responded"}
NoNote == [k \in Keys |-> 0]
\* What readCampaignChange returns when it cannot read.
Unreadable == [unreadable |-> 1]

Idle == [step |-> "idle"]
NotesAfoot == FoldFunction(+, 0, note) + Cardinality({v \in Movers : mover[v] # Idle})
ActivePhases == {"RUNNING", "COMPLETED"}

Excuses == {"unnoted",  \* a recipient moved and nobody was told
            "merge",    \* a note was overwritten by one that had not seen it
            "window",   \* a note came between the compare and the delete
            "blind",    \* both reads of the compare failed
            "overlap",  \* two recounts ran at once
            "tick",     \* the tick's sum crossed a recount, or was not written
            "late"}     \* a receipt was mirrored over a reply

Excused(e, when) == excuse' = IF when THEN excuse \union {e} ELSE excuse
-----------------------------------------------------------------------------
(***************************************************************************)
(* The tick: rows become QUEUED, or FAILED when they cannot be queued, and *)
(* nobody is told; queuedCount is its copy plus the batch.                 *)
(***************************************************************************)
TickStart ==
    /\ tick = Idle /\ phase = "RUNNING" /\ "PENDING" \in Range(standing)
    /\ tick' = [step |-> "queue", copy |-> counter["queuedCount"], queued |-> 0]
    /\ UNCHANGED <<standing, receipt, phase, counter, mover, note, recount, slips, excuse>>

TickQueue(c) ==
    /\ tick # Idle /\ standing[c] = "PENDING"
    /\ \/ /\ standing' = [standing EXCEPT ![c] = "QUEUED"]
          /\ tick' = [tick EXCEPT !.queued = @ + 1]
          /\ UNCHANGED <<slips, excuse>>
       \/ /\ slips < MaxSlips /\ slips' = slips + 1
          /\ standing' = [standing EXCEPT ![c] = "FAILED"]
          /\ Excused("unnoted", TRUE)
          /\ UNCHANGED tick
    /\ UNCHANGED <<receipt, phase, counter, mover, note, recount>>

TickEnd ==
    /\ tick # Idle
    /\ tick' = Idle
    /\ IF tick.queued > 0
       THEN /\ counter' = [counter EXCEPT !["queuedCount"] = tick.copy + tick.queued]
            /\ Excused("tick", \/ counter["queuedCount"] # tick.copy
                               \/ \E u \in Recounts : recount[u].step = "count")
       ELSE UNCHANGED <<counter, excuse>>
    /\ UNCHANGED <<standing, receipt, phase, mover, note, recount, slips>>

TickDies ==
    /\ tick # Idle /\ slips < MaxSlips
    /\ tick' = Idle /\ slips' = slips + 1
    /\ Excused("tick", tick.queued > 0)
    /\ UNCHANGED <<standing, receipt, phase, counter, mover, note, recount>>

\* The last row is queued, or an admin cancels: what is left is skipped.
EndCampaign(to) ==
    /\ phase = "RUNNING"
    /\ to = "COMPLETED" => tick = Idle /\ "PENDING" \notin Range(standing)
    /\ phase' = to
    /\ standing' = [c \in Contacts |->
                       IF standing[c] = "PENDING" THEN "SKIPPED" ELSE standing[c]]
    /\ UNCHANGED <<receipt, counter, tick, mover, note, recount, slips, excuse>>
-----------------------------------------------------------------------------
\* The row is patched; the note follows in two more calls.
Move(v, c, to, key) ==
    /\ mover[v] = Idle /\ NotesAfoot < MaxNotes
    /\ standing' = [standing EXCEPT ![c] = to]
    /\ mover' = [mover EXCEPT ![v] = [step |-> "noteGet", key |-> key]]
    /\ UNCHANGED <<phase, counter, tick, note, recount, slips>>

\* mirrorToRecipient: a send that never reached Meta.
SendFails(v, c) ==
    /\ standing[c] = "QUEUED" /\ receipt[c] = "ACCEPTED"
    /\ Move(v, c, "FAILED", "failed")
    /\ receipt' = [receipt EXCEPT ![c] = "FAILED"]
    /\ UNCHANGED excuse

\* mirrorToRecipients: a receipt that advanced the message is written over
\* whatever the recipient's status is.
ReceiptMoves(v, c, status) ==
    /\ standing[c] \notin {"PENDING", "SKIPPED"}
    /\ receipt[c] # "FAILED" /\ AdvanceStatus(receipt[c], status) # receipt[c]
    /\ receipt' = [receipt EXCEPT ![c] = status]
    /\ Move(v, c, status, status)
    /\ Excused("late", standing[c] = "RESPONDED")

\* runSideEffects: the recipient replied; recorded once.
Reply(v, c) ==
    /\ standing[c] \notin {"PENDING", "SKIPPED", "RESPONDED"}
    /\ Move(v, c, "RESPONDED", "responded")
    /\ UNCHANGED <<receipt, excuse>>

\* noteCampaignChange: get, merge, set.
NoteGet(v) ==
    /\ mover[v].step = "noteGet"
    /\ mover' = [mover EXCEPT ![v] =
                    [step |-> "noteSet", key |-> mover[v].key, copy |-> note]]
    /\ UNCHANGED <<standing, receipt, phase, counter, tick, note, recount, slips, excuse>>

NoteSet(v) ==
    /\ mover[v].step = "noteSet"
    /\ note' = [mover[v].copy EXCEPT ![mover[v].key] = @ + 1]
    /\ mover' = [mover EXCEPT ![v] = Idle]
    /\ Excused("merge", note \notin {mover[v].copy, NoNote})
    /\ UNCHANGED <<standing, receipt, phase, counter, tick, recount, slips>>

\* Its errors are swallowed; or the function dies first.
NoteFails(v) ==
    /\ mover[v] # Idle /\ slips < MaxSlips
    /\ slips' = slips + 1
    /\ mover' = [mover EXCEPT ![v] = Idle]
    /\ Excused("unnoted", TRUE)
    /\ UNCHANGED <<standing, receipt, phase, counter, tick, note, recount>>
-----------------------------------------------------------------------------
\* rollup and reconcileCounters: nothing to do without a note; a note that
\* cannot be read counts as one.
RecountStart(u) ==
    /\ recount[u] = Idle /\ phase \in ActivePhases
    /\ \E seen \in {note, Unreadable} :
         /\ seen # NoNote
         /\ IF seen = Unreadable
            THEN slips < MaxSlips /\ slips' = slips + 1 ELSE UNCHANGED slips
         /\ recount' = [recount EXCEPT ![u] =
                           [step |-> "count", seen |-> seen, tally |-> <<>>]]
    /\ Excused("overlap", \E w \in Recounts : recount[w] # Idle)
    /\ UNCHANGED <<standing, receipt, phase, counter, tick, mover, note>>

\* One query per counter, all under way at once.
CountRows(u) ==
    /\ recount[u].step = "count"
    /\ \E stages \in SUBSET (Counters \ DOMAIN recount[u].tally) \ {{}} :
         recount' = [recount EXCEPT ![u].tally =
             [s \in stages \union DOMAIN @ |-> IF s \in stages THEN Tally(s) ELSE @[s]]]
    /\ UNCHANGED <<standing, receipt, phase, counter, tick, mover, note, slips, excuse>>

RecountWrite(u) ==
    /\ recount[u].step = "count"
    /\ DOMAIN recount[u].tally = Counters
    /\ counter' = recount[u].tally
    /\ recount' = [recount EXCEPT ![u] = [step |-> "compare", seen |-> recount[u].seen]]
    /\ UNCHANGED <<standing, receipt, phase, tick, mover, note, slips, excuse>>

\* Mutant (D-39): the note is cleared whatever has been added to it.
CompareNever(u) ==
    /\ recount[u].step = "compare"
    /\ recount' = [recount EXCEPT ![u] = [step |-> "clear", now |-> note]]
    /\ UNCHANGED <<standing, receipt, phase, counter, tick, mover, note, slips, excuse>>

\* clearCampaignChangeIfUnchanged: read again, compare the fingerprints.
Compare(u) ==
    /\ recount[u].step = "compare"
    /\ \/ /\ recount' = [recount EXCEPT ![u] =
                IF note = recount[u].seen THEN [step |-> "clear", now |-> note] ELSE Idle]
          /\ UNCHANGED <<slips, excuse>>
       \/ /\ slips < MaxSlips /\ slips' = slips + 1
          /\ recount' = [recount EXCEPT ![u] =
                IF recount[u].seen = Unreadable THEN [step |-> "clear", now |-> note]
                ELSE Idle]
          /\ Excused("blind", recount[u].seen = Unreadable)
    /\ UNCHANGED <<standing, receipt, phase, counter, tick, mover, note>>

Clear(u) ==
    /\ recount[u].step = "clear"
    /\ note' = NoNote
    /\ recount' = [recount EXCEPT ![u] = Idle]
    /\ Excused("window", note # recount[u].now)
    /\ UNCHANGED <<standing, receipt, phase, counter, tick, mover, slips>>

\* It throws, or dies: the note stays.
RecountFails(u) ==
    /\ recount[u] # Idle /\ slips < MaxSlips
    /\ slips' = slips + 1
    /\ recount' = [recount EXCEPT ![u] = Idle]
    /\ UNCHANGED <<standing, receipt, phase, counter, tick, mover, note, excuse>>
-----------------------------------------------------------------------------
CountersInit ==
    /\ standing = [c \in Contacts |-> "PENDING"]
    /\ receipt = [c \in Contacts |-> "ACCEPTED"]
    /\ phase = "RUNNING"
    /\ counter = [s \in Counters |-> 0]
    /\ tick = Idle
    /\ mover = [v \in Movers |-> Idle]
    /\ note = NoNote
    /\ recount = [u \in Recounts |-> Idle]
    /\ slips = 0
    /\ excuse = {}

CountersNext ==
    \/ TickStart \/ TickEnd \/ TickDies
    \/ \E c \in Contacts : TickQueue(c)
    \/ \E to \in {"COMPLETED", "CANCELLED"} : EndCampaign(to)
    \/ \E v \in Movers, c \in Contacts :
         \/ SendFails(v, c) \/ Reply(v, c)
         \/ \E s \in Reported : ReceiptMoves(v, c, s)
    \/ \E v \in Movers : NoteGet(v) \/ NoteSet(v) \/ NoteFails(v)
    \/ \E u \in Recounts :
         \/ RecountStart(u) \/ CountRows(u) \/ RecountWrite(u)
         \/ Compare(u) \/ Clear(u) \/ RecountFails(u)

CountersSpec == CountersInit /\ [][CountersNext]_counterVars
-----------------------------------------------------------------------------
CountersTypeOK ==
    /\ standing \in [Contacts -> Standing]
    /\ receipt \in [Contacts -> MessageStatus]
    /\ phase \in ActivePhases \union {"CANCELLED"}
    /\ counter \in [Counters -> 0..Cardinality(Contacts)]
    /\ note \in [Keys -> Nat]
    /\ slips \in 0..MaxSlips
    /\ excuse \subseteq Excuses

Quiet ==
    /\ tick = Idle /\ note = NoNote
    /\ \A v \in Movers : mover[v] = Idle
    /\ \A u \in Recounts : recount[u] = Idle

(***************************************************************************)
(* When nothing is under way and no note is left, the campaign row shows   *)
(* the numbers its recipients add up to, so nothing is missing from a      *)
(* finished campaign (D-39): unless somebody was not told, or one of the   *)
(* windows of the note was hit.  A cancelled campaign is never recounted.  *)
(***************************************************************************)
CountersSettle ==
    Quiet /\ phase \in ActivePhases /\ excuse \ {"late"} = {} =>
        \A s \in Counters : counter[s] = Tally(s)

(***************************************************************************)
(* Delivered and responded are cumulative: they never go backwards while   *)
(* everything works (the header of wa-stats-rollup), unless two recounts   *)
(* overlap or a late receipt takes a reply back.                           *)
(***************************************************************************)
FunnelNeverFalls ==
    [][excuse' \intersect {"overlap", "late"} = {} =>
          \A s \in Counters \intersect {"deliveredCount", "respondedCount"} :
              counter'[s] >= counter[s]]_counterVars
=============================================================================

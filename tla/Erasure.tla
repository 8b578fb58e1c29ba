------------------------------- MODULE Erasure --------------------------------
(***************************************************************************)
(* The erasure of a person (erasePerson): everything of the person is      *)
(* listed and destroyed, kind by kind, until a listing comes back empty;   *)
(* then the consent is reset and a receipt (the tombstone) written.        *)
(* Meanwhile webhooks, campaigns and reps go on writing, and another admin *)
(* may erase the same person.                                              *)
(***************************************************************************)
EXTENDS Naturals, FiniteSets

CONSTANTS
    Threads, Messages,          \* rows: conversations, messages,
    Recipients, ConsentEvents,  \* campaign recipients, consent events
    NoEvent,
    Erasers,                    \* requests to erase
    ErasureRounds,              \* MAX_ERASURE_ROUNDS
    MaxLapses                   \* bound: calls that throw

ASSUME ErasureAssumption ==
    /\ ErasureRounds \in Nat \ {0} /\ MaxLapses \in Nat
    /\ NoEvent \notin Threads \union Messages \union Recipients \union ConsentEvents
    /\ Threads \intersect Messages = {} /\ Recipients \intersect ConsentEvents = {}
    /\ (Threads \union Messages) \intersect (Recipients \union ConsentEvents) = {}

VARIABLES
    present,    \* rows of the person that exist
    used,       \* rows that ever existed
    homeOf,     \* the conversation of a message
    consent,    \* whatsappConsent of the Person, as the decision it came from
    latest,     \* the last decision
    eraser,     \* the requests
    receipts,   \* tombstones: which request wrote which
    lapses,
    overtaken   \* history: decisions since an erasure listed them for the last time

erasureVars == <<present, used, homeOf, consent, latest, eraser, receipts, lapses, overtaken>>

Others == Recipients \union ConsentEvents
\* What each step of destroyTargets destroys, and the step after it.
Destroyed == [destroyMessages |-> Messages, destroyThreads |-> Threads, destroyOthers |-> Others]
AfterThat == [destroyMessages |-> "destroyThreads", destroyThreads |-> "destroyOthers",
              destroyOthers |-> "threads"]
NotAsked == [step |-> "none"]
StepsTo(e, step) == eraser' = [eraser EXCEPT ![e].step = step]
Ended == {"none", "counted", "failed", "done"}
-----------------------------------------------------------------------------
(***************************************************************************)
(* Everybody else.                                                         *)
(***************************************************************************)
Fresh(row) == row \notin used /\ used' = used \union {row}

NewThread(t) ==
    /\ Fresh(t) /\ present' = present \union {t}
    /\ UNCHANGED <<homeOf, consent, latest, eraser, receipts, lapses, overtaken>>

\* A message needs its conversation.
NewText(m, t) ==
    /\ Fresh(m) /\ t \in present
    /\ present' = present \union {m}
    /\ homeOf' = [homeOf EXCEPT ![m] = t]
    /\ UNCHANGED <<consent, latest, eraser, receipts, lapses, overtaken>>

NewRecipient(o) ==
    /\ Fresh(o) /\ present' = present \union {o}
    /\ UNCHANGED <<homeOf, consent, latest, eraser, receipts, lapses, overtaken>>

\* recordConsent: the event, and the status.
Decide(d) ==
    /\ Fresh(d) /\ present' = present \union {d}
    /\ consent' = d /\ latest' = d
    /\ overtaken' = IF \E e \in Erasers : eraser[e].step \in {"listed", "clean"} /\ eraser[e].list = {}
               THEN overtaken \union {d} ELSE overtaken
    /\ UNCHANGED <<homeOf, eraser, receipts, lapses>>
-----------------------------------------------------------------------------
(***************************************************************************)
(* erasePerson                                                             *)
(***************************************************************************)
\* What was there when the listing began is kept as history (before).
AskToErase(e) ==
    /\ eraser[e] = NotAsked
    /\ \E dry \in BOOLEAN :
         eraser' = [eraser EXCEPT ![e] =
             [step |-> "threads", dry |-> dry, round |-> 0, before |-> present, list |-> {}]]
    /\ UNCHANGED <<present, used, homeOf, consent, latest, receipts, lapses, overtaken>>

\* Mutant: one page of each kind is the whole of it.
ListedFirst(rows) == {r \in rows : Cardinality(rows) = 1}

\* collectAll pages to the end.
Listed(rows) == rows

\* collectErasureTargets: conversations, then their messages, then the rest.
ListRows(e) ==
    /\ eraser[e].step \in {"threads", "texts", "others"}
    /\ LET now == eraser[e].step
           list == eraser[e].list \union Listed(
                 CASE now = "threads" -> present \intersect Threads
                   [] now = "texts"   -> {m \in present \intersect Messages : homeOf[m] \in eraser[e].list}
                   [] now = "others"  -> present \intersect Others)
       IN eraser' = [eraser EXCEPT
              ![e].before = IF now = "threads" THEN present ELSE @,
              ![e].list = list,
              ![e].step = CASE now = "threads" -> "texts"
                            [] now = "texts" -> "others"
                            [] now = "others" /\ eraser[e].dry -> "counted"
                            [] now = "others" /\ ~eraser[e].dry /\ eraser[e].round = 0 -> "destroyMessages"
                            [] OTHER -> "listed"]
    /\ UNCHANGED <<present, used, homeOf, consent, latest, receipts, lapses, overtaken>>

\* destroyTargets: a conversation takes its messages with it (CASCADE).
WithTheirMessages(rows) == rows \union {m \in present \intersect Messages : homeOf[m] \in rows}

Destroy(e) ==
    /\ eraser[e].step \in DOMAIN Destroyed
    /\ present' = present \ WithTheirMessages(eraser[e].list \intersect Destroyed[eraser[e].step])
    /\ LET last == eraser[e].step = "destroyOthers"
       IN eraser' = [eraser EXCEPT ![e].step = AfterThat[@],
                                   ![e].list = IF last THEN {} ELSE @,
                                   ![e].round = IF last THEN @ + 1 ELSE @]
    /\ UNCHANGED <<used, homeOf, consent, latest, receipts, lapses, overtaken>>

\* A fresh read comes back empty.
MayFinish(e) == eraser[e].list = {}

Judge(e) ==
    /\ eraser[e].step = "listed"
    /\ StepsTo(e, IF MayFinish(e) THEN "clean"
                ELSE IF eraser[e].round < ErasureRounds THEN "destroyMessages" ELSE "failed")
    /\ UNCHANGED <<present, used, homeOf, consent, latest, receipts, lapses, overtaken>>

\* patchPersonConsent
ResetConsent(e) ==
    /\ eraser[e].step = "clean"
    /\ consent' = NoEvent
    /\ StepsTo(e, "reset")
    /\ UNCHANGED <<present, used, homeOf, latest, receipts, lapses, overtaken>>

\* The receipt; failing to write it is only logged.  Then the timeline.
Certify(e) ==
    /\ eraser[e].step = "reset"
    /\ \/ receipts' = receipts \union {e} /\ UNCHANGED lapses
       \/ lapses < MaxLapses /\ lapses' = lapses + 1 /\ UNCHANGED receipts
    /\ StepsTo(e, "done")
    /\ UNCHANGED <<present, used, homeOf, consent, latest, overtaken>>

Lapse(e) ==
    /\ eraser[e].step \notin Ended /\ lapses < MaxLapses
    /\ lapses' = lapses + 1
    /\ StepsTo(e, "failed")
    /\ UNCHANGED <<present, used, homeOf, consent, latest, receipts, overtaken>>

ErasureInit ==
    /\ present \in {{}} \union {{t} \union rest : t \in Threads, rest \in {s \in SUBSET Others : Cardinality(s) < 2}}
    /\ used = present
    /\ homeOf = [m \in Messages |-> m]
    /\ \E d \in (ConsentEvents \intersect present) \union {NoEvent} : consent = d /\ latest = d
    /\ eraser = [e \in Erasers |-> NotAsked]
    /\ receipts = {} /\ lapses = 0 /\ overtaken = {}

ErasureNext ==
    \/ \E t \in Threads : NewThread(t) \/ \E m \in Messages : NewText(m, t)
    \/ \E o \in Recipients : NewRecipient(o)
    \/ \E d \in ConsentEvents : Decide(d)
    \/ \E e \in Erasers :
         \/ AskToErase(e) \/ ListRows(e) \/ Destroy(e) \/ Judge(e)
         \/ ResetConsent(e) \/ Certify(e) \/ Lapse(e)

ErasureSpec == ErasureInit /\ [][ErasureNext]_erasureVars
-----------------------------------------------------------------------------
ErasureTypeOK ==
    /\ present \subseteq used /\ used \subseteq Threads \union Messages \union Others
    /\ {consent, latest} \subseteq ConsentEvents \union {NoEvent}
    /\ receipts \subseteq Erasers /\ overtaken \subseteq ConsentEvents

\* "So that a partial erasure is never reported as a completed one": nothing
\* that was there when the last listing began outlives a request that went
\* through, and no message outlives its conversation.
DoneMeansGone ==
    /\ \A e \in Erasers : eraser[e].step = "done" => eraser[e].before \intersect present = {}
    /\ \A m \in present \intersect Messages : homeOf[m] \in present

\* A receipt is of a request that went through.
ReceiptsAreTrue == \A e \in receipts : eraser[e].step = "done" /\ ~eraser[e].dry

\* "An unauditable claim": a status has its event, unless an erasure broke off
\* halfway; and the last decision is the status, unless it came after the last
\* listing of an erasure, whose reset undid it.
ConsentHasEvidence ==
    (\A e \in Erasers : eraser[e].step \in Ended) =>
        /\ consent \in present \union {NoEvent} \/ \E e \in Erasers : eraser[e].step = "failed"
        /\ latest \in present => consent = latest \/ latest \in overtaken

(***************************************************************************)
(* What is said to be erased is, and what was decided since holds.         *)
(***************************************************************************)
ErasureIsTrue == DoneMeansGone /\ ReceiptsAreTrue /\ ConsentHasEvidence
=============================================================================

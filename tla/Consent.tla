------------------------------ MODULE Consent ------------------------------
(***************************************************************************)
(* Who may be written to (domain/policy): one conversation, the people it  *)
(* can be linked to, the writers of consent (STOP and START, the route,    *)
(* a field edited by hand and its back-fill) and the sends that pass the   *)
(* policy gate.  The clock ticks every OWN_WRITE_WINDOW_MS.                *)
(***************************************************************************)
EXTENDS Integers, FiniteSets, Sequences, Functions

CONSTANTS
    People, Nobody,
    Primary,        \* the people whose primary phone is this number
    Words,          \* keyword messages the contact writes
    Reps,           \* calls of the consent route: set, or a row of an import
    WindowLength,   \* the service window, in ticks
    Intents, Accounts,  \* what is sent, and in which account (EvaluateSendPermission)
    MaxClock, MaxMishaps, MaxCauses \* bounds: time, reps' changes and failures, causes

ASSUME ConsentAssumption ==
    /\ Primary \subseteq People /\ Nobody \notin People
    /\ Words \intersect Reps = {} /\ IsFiniteSet(Words \union Reps)
    /\ "hand" \notin Words \union Reps
    /\ Intents \subseteq [kind : {"TEMPLATE", "FREEFORM"},
                          lane : {"INTERACTIVE", "CAMPAIGN"}, marketing : BOOLEAN]
    /\ {WindowLength, MaxClock, MaxMishaps, MaxCauses} \subseteq Nat

VARIABLES
    clock,
    link, isBlocked, expires,   \* the thread: personId, isBlocked, serviceWindowExpiresAt
    consent,                    \* whatsappOptInStatus of the people
    trail,                      \* their consent events
    edits,                      \* person.updated events not handled yet
    writer, gate,
    asked, turns, answers, mishaps, grounds  \* history

consentVars == <<clock, link, isBlocked, expires, consent, trail, edits, writer,
                 gate, asked, turns, answers, mishaps, grounds>>
threadVars == <<link, isBlocked, expires>>
historyVars == <<asked, turns, answers, mishaps>>

Decision == {"OPTED_IN", "OPTED_OUT"}
Status == Decision \union {"UNKNOWN"}
Writers == Words \union Reps
Finished == [step |-> "done"]

Since(c, when) == IF when THEN {c} ELSE {}
GateOpen == gate.step \in {"thread", "cleared"}
IsWindowOpen(until) == clock < until
-----------------------------------------------------------------------------
(***************************************************************************)
(* The policy gate.                                                        *)
(***************************************************************************)
\* The first rule that denies gives the reason.
EvaluateSendPermission(intent, thread, status, account, template) ==
    LET windowOpen == IsWindowOpen(thread.expires)
        isReply == intent.kind = "FREEFORM" /\ windowOpen
        campaign == intent.lane = "CAMPAIGN"
    IN IF account.status # "CONNECTED" THEN "ACCOUNT_NOT_CONNECTED"
       ELSE IF thread.isBlocked THEN "THREAD_BLOCKED"
       ELSE IF status = "OPTED_OUT" /\ ~isReply THEN "OPTED_OUT"
       ELSE IF intent.marketing /\ status # "OPTED_IN" /\ campaign THEN "NO_CONSENT"
       ELSE IF intent.kind = "FREEFORM" /\ ~windowOpen THEN "WINDOW_CLOSED"
       ELSE IF intent.kind = "TEMPLATE" /\ ~template THEN "TEMPLATE_UNAVAILABLE"
       ELSE IF campaign /\ account.quality = "RED" THEN "QUALITY_RED"
       ELSE "ALLOWED"

\* Mutant: only the linked person is asked.
ConsentOfLinked(person, swept) == IF person = Nobody THEN "UNKNOWN" ELSE consent[person]

\* The linked person, and everyone with this number; swept: the search answered.
EffectiveConsentStatus(person, swept) ==
    IF swept /\ \E p \in Primary : consent[p] = "OPTED_OUT" THEN "OPTED_OUT"
    ELSE IF person = Nobody THEN "UNKNOWN" ELSE consent[person]

ReadThread ==
    /\ gate.step = "idle"
    /\ gate' = [step |-> "thread", isBlocked |-> isBlocked, link |-> link, expires |-> expires]
    /\ UNCHANGED <<clock, threadVars, consent, trail, edits, writer, historyVars, grounds>>

PassGate(intent, swept) ==
    /\ gate.step = "thread"
    /\ ~swept => mishaps < MaxMishaps
    /\ mishaps' = mishaps + (IF swept THEN 0 ELSE 1)
    /\ grounds' = grounds \union Since("blind", ~swept)
    /\ \E account \in Accounts, template \in BOOLEAN :
         gate' = IF EvaluateSendPermission(intent, gate,
                        EffectiveConsentStatus(gate.link, swept), account, template) = "ALLOWED"
                 THEN [step |-> "cleared", kind |-> intent.kind]
                 ELSE [step |-> "idle"]
    /\ UNCHANGED <<clock, threadVars, consent, trail, edits, writer, asked, turns, answers>>

Post ==
    /\ gate.step = "cleared"
    /\ gate' = [step |-> "idle"]
    /\ UNCHANGED <<clock, threadVars, consent, trail, edits, writer, historyVars, grounds>>
-----------------------------------------------------------------------------
(***************************************************************************)
(* setConsent.                                                             *)
(***************************************************************************)
\* The contact writes a keyword: it opens the window and queues a job.
Say(w) ==
    \E want \in Decision :
      /\ writer[w].step = "none"
      /\ writer' = [writer EXCEPT ![w] = [step |-> "queued", want |-> want]]
      /\ asked' = want
      /\ expires' = clock + WindowLength
      /\ UNCHANGED <<clock, link, isBlocked, consent, trail, edits, gate, turns, answers,
                     mishaps, grounds>>

\* The job of an unlinked conversation blocks it, or does nothing.
Suppress(w) ==
    /\ w \in Words /\ writer[w].step = "queued" /\ link = Nobody
    /\ isBlocked' = (isBlocked \/ writer[w].want = "OPTED_OUT")
    /\ writer' = [writer EXCEPT ![w] = Finished]
    /\ grounds' = grounds \union Since("stale", GateOpen)
                      \union Since("order", writer[w].want # asked)
    /\ UNCHANGED <<clock, link, expires, consent, trail, edits, gate, historyVars>>

\* The person is read; a decision already taken changes nothing.
Weigh(w, p, want, dated) ==
    writer' = [writer EXCEPT ![w] =
        IF consent[p] = want THEN Finished
        ELSE [step |-> "weighed", person |-> p, want |-> want, was |-> consent[p],
              dated |-> dated, blocked |-> isBlocked]]

WeighKeyword(w) ==
    /\ w \in Words /\ writer[w].step = "queued" /\ link # Nobody
    /\ Weigh(w, link, writer[w].want, TRUE)
    /\ grounds' = grounds \union Since("order", writer[w].want # asked)
    /\ UNCHANGED <<clock, threadVars, consent, trail, edits, gate, historyVars>>

\* A rep, or one row of an import, which may carry a date in the past.
WeighRoute(w) ==
    /\ w \in Reps /\ writer[w].step = "none" /\ mishaps < MaxMishaps
    /\ mishaps' = mishaps + 1
    /\ \E p \in People, want \in Decision, dated \in BOOLEAN : Weigh(w, p, want, dated)
    /\ UNCHANGED <<clock, threadVars, consent, trail, edits, gate, asked, turns, answers,
                   grounds>>

LogEvent(w) ==
    /\ writer[w].step = "weighed"
    /\ trail' = [trail EXCEPT ![writer[w].person] =
           Append(@, [to |-> writer[w].want, at |-> IF writer[w].dated THEN clock ELSE -1])]
    /\ writer' = [writer EXCEPT ![w].step = "logged"]
    /\ UNCHANGED <<clock, threadVars, consent, edits, gate, historyVars, grounds>>

\* The status of a person changes, and person.updated is raised.
Turned(p, to, by) ==
    /\ turns' = [turns EXCEPT ![p] = @ + (IF to \in Decision \ {consent[p]} THEN 1 ELSE 0)]
    /\ edits' = edits \union
           (IF to # consent[p] THEN {[person |-> p, to |-> to, by |-> by]} ELSE {})

PatchPerson(w) ==
    /\ writer[w].step = "logged"
    /\ LET p == writer[w].person
       IN /\ consent' = [consent EXCEPT ![p] = writer[w].want]
          /\ Turned(p, writer[w].want, w)
          /\ grounds' = grounds \union Since("overlap", consent[p] # writer[w].was
                                \/ \E v \in Writers \ {w} : writer[v].step = "logged"
                                                           /\ writer[v].person = p)
                            \union Since("stale", GateOpen)
                            \union Since("rep", w \in Reps)
                            \union Since("order", w \in Words /\ writer[w].want # asked)
    /\ writer' = [writer EXCEPT ![w] = IF w \in Words THEN [@ EXCEPT !.step = "patched"] ELSE Finished]
    /\ UNCHANGED <<clock, threadVars, trail, gate, asked, answers, mishaps>>

\* The rest of the keyword job: the block is lifted, one confirmation is queued.
Confirm(w) ==
    /\ writer[w].step = "patched"
    /\ LET lifts == writer[w].want = "OPTED_IN" /\ writer[w].blocked
           p == writer[w].person
       IN /\ isBlocked' = (isBlocked /\ ~lifts)
          /\ grounds' = grounds \union Since("order", lifts /\ asked # "OPTED_IN")
          /\ \/ answers' = [answers EXCEPT ![p] = @ + 1] /\ UNCHANGED mishaps
             \/ mishaps < MaxMishaps /\ mishaps' = mishaps + 1 /\ UNCHANGED answers
    /\ writer' = [writer EXCEPT ![w] = Finished]
    /\ UNCHANGED <<clock, link, expires, consent, trail, edits, gate, asked, turns>>

\* A write fails, or the process dies: the job runs again, or is given up.
ConsentFails(w) ==
    /\ writer[w].step \in {"weighed", "logged", "patched"} /\ mishaps < MaxMishaps
    /\ mishaps' = mishaps + 1
    /\ \E next \in {Finished} \union
           (IF w \in Words THEN {[step |-> "queued", want |-> writer[w].want]} ELSE {}) :
         writer' = [writer EXCEPT ![w] = next]
    /\ grounds' = grounds \union {"lost"}
    /\ UNCHANGED <<clock, threadVars, consent, trail, edits, gate, asked, turns, answers>>
-----------------------------------------------------------------------------
(***************************************************************************)
(* By hand: the Person's field, the thread's person and its block.         *)
(***************************************************************************)
EditPerson(p, to) ==
    /\ mishaps < MaxMishaps /\ consent[p] # to
    /\ [person |-> p, to |-> to, by |-> "hand"] \notin edits  \* bound: events are a set
    /\ consent' = [consent EXCEPT ![p] = to]
    /\ Turned(p, to, "hand")
    /\ mishaps' = mishaps + 1
    /\ grounds' = grounds \union {"rep"} \union Since("stale", GateOpen)
    /\ UNCHANGED <<clock, threadVars, trail, writer, gate, asked, answers>>

\* Mutant: every event is recorded, setConsent's own too.
BackfillAlways(edit) ==
    /\ edit \in edits
    /\ edits' = edits \ {edit}
    /\ trail' = [trail EXCEPT ![edit.person] = Append(@, [to |-> edit.to, at |-> clock])]
    /\ UNCHANGED <<clock, threadVars, consent, writer, gate, historyVars, grounds>>

\* wa-consent-backfill; a clearing has no event, and an error is swallowed.
Backfill(edit) ==
    LET isAlreadyRecorded == \E e \in Range(trail[edit.person]) : e.to = edit.to /\ e.at = clock
        ours == edit.by # "hand"
    IN /\ edit \in edits
       /\ edits' = edits \ {edit}
       /\ \/ /\ edit.to # "UNKNOWN" /\ ~isAlreadyRecorded
             /\ trail' = [trail EXCEPT ![edit.person] =
                              Append(@, [to |-> edit.to, at |-> clock])]
             /\ grounds' = grounds \union Since("slow", ours)
                               \union Since("late", consent[edit.person] # edit.to
                                   \/ \E w \in Writers : writer[w].step = "logged")
             /\ UNCHANGED mishaps
          \/ /\ edit.to = "UNKNOWN" \/ isAlreadyRecorded
             /\ grounds' = grounds \union Since("masked", ~ours)
             /\ UNCHANGED <<trail, mishaps>>
          \/ /\ mishaps < MaxMishaps /\ mishaps' = mishaps + 1
             /\ grounds' = grounds \union {"lost"}
             /\ UNCHANGED trail
    /\ UNCHANGED <<clock, threadVars, consent, writer, gate, asked, turns, answers>>

\* link, relink, detach; campaign rows and consent stay with the person.
Relink(p) ==
    /\ mishaps < MaxMishaps /\ p # link
    /\ link' = p
    /\ mishaps' = mishaps + 1
    /\ grounds' = grounds \union Since("stale", GateOpen)
           \union Since("alias", (link \in People \ Primary /\ consent[link] = "OPTED_OUT")
                                   \/ \E w \in Words : writer[w].step \notin {"none", "done"})
    /\ UNCHANGED <<clock, isBlocked, expires, consent, trail, edits, writer, gate,
                   asked, turns, answers>>

SetBlock(blocked) ==
    /\ mishaps < MaxMishaps /\ isBlocked # blocked
    /\ isBlocked' = blocked
    /\ mishaps' = mishaps + 1
    /\ grounds' = grounds \union Since("rep", ~blocked) \union Since("stale", GateOpen)
    /\ UNCHANGED <<clock, link, expires, consent, trail, edits, writer, gate,
                   asked, turns, answers>>

Elapse ==
    /\ clock < MaxClock
    /\ clock' = clock + 1
    /\ UNCHANGED <<threadVars, consent, trail, edits, writer, gate, historyVars, grounds>>
-----------------------------------------------------------------------------
ConsentInit ==
    /\ clock = 0
    /\ link \in {Nobody} \union People /\ isBlocked = FALSE /\ expires = 0
    /\ consent = [p \in People |-> "UNKNOWN"] /\ trail = [p \in People |-> <<>>]
    /\ edits = {} /\ writer = [w \in Writers |-> [step |-> "none"]]
    /\ gate = [step |-> "idle"] /\ asked = "UNKNOWN"
    /\ turns = [p \in People |-> 0] /\ answers = [p \in People |-> 0] /\ mishaps = 0 /\ grounds = {}

ConsentNext ==
    /\ \/ ReadThread \/ Post \/ Elapse
       \/ \E intent \in Intents, swept \in BOOLEAN : PassGate(intent, swept)
       \/ \E w \in Words : Say(w) \/ Suppress(w) \/ WeighKeyword(w) \/ Confirm(w)
       \/ \E w \in Reps : WeighRoute(w)
       \/ \E w \in Writers : LogEvent(w) \/ PatchPerson(w) \/ ConsentFails(w)
       \/ \E p \in People, to \in Status : EditPerson(p, to)
       \/ \E edit \in edits : Backfill(edit)
       \/ \E p \in People \union {Nobody} : Relink(p)
       \/ \E blocked \in BOOLEAN : SetBlock(blocked)
    /\ Cardinality(grounds') <= MaxCauses

ConsentSpec == ConsentInit /\ [][ConsentNext]_consentVars
-----------------------------------------------------------------------------
Grounds == {"stale",    \* the gate had read its rows before the request took effect
           "blind",    \* the search for people with this number failed
           "lost",     \* a write failed, or the process died, in the middle
           "overlap",  \* two writers weighed the same status, or both had their events
           "order",    \* keyword jobs ran in another order than the messages
           "rep",      \* somebody in the company changed consent or the block
           "alias",    \* the number is not the primary phone of the person who opted out
           "slow",     \* the back-fill did not find setConsent's own event as recent
           "late",     \* the back-fill's event came after that of a later decision
           "masked"}   \* a recent event hid an edit made by hand

ConsentTypeOK ==
    /\ clock \in 0..MaxClock /\ link \in People \union {Nobody} /\ isBlocked \in BOOLEAN
    /\ expires \in Nat /\ consent \in [People -> Status]
    /\ \A p \in People : Range(trail[p]) \subseteq [to : Decision, at : -1..MaxClock]
    /\ edits \subseteq [person : People, to : Status, by : Writers \union {"hand"}]
    /\ DOMAIN writer = Writers /\ grounds \subseteq Grounds
    /\ gate.step \in {"idle", "thread", "cleared"}
    /\ {turns, answers} \subseteq [People -> Nat] /\ mishaps \in Nat
    /\ asked \in Status

Heard == \A w \in Words : writer[w].step \in {"none", "done"}

\* After a STOP that was handled no template leaves, whoever the conversation
\* is linked to, but for these causes (sender: step 4, effectiveConsentStatus).
StopIsObeyed ==
    [][gate'.step = "idle" /\ gate.step = "cleared" /\ gate.kind = "TEMPLATE"
       /\ asked = "OPTED_OUT" /\ Heard
       => grounds \intersect {"stale", "blind", "lost", "order", "rep", "alias"} # {}
      ]_consentVars

AtRest == edits = {} /\ \A w \in Writers : writer[w].step \in {"none", "done", "queued"}

\* Once everything is handled a person has one event for each decision, and
\* the last one is the status (consent.ts: "a status with no event is a
\* consent decision with no proof"), but for these causes.
EveryDecisionHasOneEvent ==
    AtRest /\ grounds \intersect {"lost", "overlap", "slow", "late", "masked"} = {} =>
        \A p \in People :
          /\ Len(trail[p]) = turns[p]
          /\ consent[p] # "UNKNOWN" => trail[p][Len(trail[p])].to = consent[p]

\* "Exactly one confirmation": a person has no more answers than decisions.
OneAnswerPerDecision ==
    "overlap" \notin grounds => \A p \in People : answers[p] <= turns[p]

\* Consent in three parts: what is sent, what is proved, what is answered.
ConsentIsHonoured ==
    StopIsObeyed /\ []EveryDecisionHasOneEvent /\ []OneAnswerPerDecision
=============================================================================
